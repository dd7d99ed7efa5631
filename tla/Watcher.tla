------------------------------- MODULE Watcher -------------------------------
(***************************************************************************)
(* The two processes of rahunasd (src/src/rahunasd.c): the watcher, which  *)
(* starts the daemon, waits for its end and starts it again, and the       *)
(* daemon, whose signal handlers do the work of rh_exit and rh_reload on   *)
(* the stack of whatever thread they interrupt, RHMtxLock included.        *)
(*                                                                         *)
(* The administrator's signals go to the watcher, whose pid is the one in  *)
(* the pid file; its handler passes them on to the process `pid` names.    *)
(* The watcher is itself a forked process and starts with a pid of 0, the  *)
(* mark of the daemon; fork() and the assignment of its result are two     *)
(* steps.  A run begins with the watcher at its first fork.                *)
(***************************************************************************)
EXTENDS Naturals, Sequences

CONSTANTS
    MaxFailcount,   \* quick ends in a row after which the watcher gives up
    MaxSignals,     \* bound: signals of each kind ever sent
    MaxCrashes      \* bound: ends of the daemon nobody asked for

ASSUME ConstantsAssumption ==
    /\ MaxFailcount \in Nat \ {0}
    /\ MaxSignals \in Nat
    /\ MaxCrashes \in Nat

Signals == {"TERM", "HUP"}
Threads == {"main", "poll"}
Nobody == <<"nobody", 0>>

VARIABLES
    watcher,    \* "start", "store", "wait", "sleep", or how it has ended
    pid,        \* what its `pid` names: "zero", its "child", or a "dead" one
    failcount,
    child,      \* how far the daemon has come; "ended" until waitpid returns
    status,     \* what waitpid will say of it
    pending,    \* signals sent to the daemon and not yet delivered
    frames,     \* the handlers on each thread's stack, the innermost last
    owner,      \* who holds RHMtxLock: a thread and the frame that took it
    sent,       \* how many signals of each kind the administrator has sent
    crashes

vars == <<watcher, pid, failcount, child, status, pending, frames, owner, sent,
          crashes>>
daemon == <<child, status, pending, frames, owner>>

Running == child \notin {"ended", "none"}
Gone == watcher \in {"graceful", "failed", "killed"}

Frame == [sig : Signals, at : {"begin", "inside", "done"}]
NoFrames == [t \in Threads |-> <<>>]
Depth(t) == Len(frames[t])
Top(t) == frames[t][Depth(t)]
Handles(t, sig) == \E k \in 1 .. Depth(t) : frames[t][k].sig = sig

Init ==
    /\ watcher = "start"
    /\ pid = "zero"
    /\ failcount = 0
    /\ child = "none"
    /\ status = "none"
    /\ pending = {}
    /\ frames = NoFrames
    /\ owner = Nobody
    /\ sent = [s \in Signals |-> 0]
    /\ crashes = 0

-----------------------------------------------------------------------------
(* The watcher. *)

(* Its handler: kill(pid, sig), where pid is a dead process during sleep() *)
(* and until the next child's number is stored.  Before the first child's  *)
(* is, pid is 0, and the handler takes the watcher for the daemon: rh_exit *)
(* finds empty lists and the watcher exits, rh_reload has no main_config.  *)
SignalAndLeave(sig) ==    \* mutant: SIGTERM ends the watcher as well
    /\ ~Gone
    /\ sent[sig] < MaxSignals
    /\ sent' = [sent EXCEPT ![sig] = @ + 1]
    /\ pending' = IF pid = "child" /\ Running THEN pending \cup {sig} ELSE pending
    /\ watcher' = IF sig = "TERM" THEN "graceful" ELSE watcher
    /\ UNCHANGED <<pid, failcount, child, status, frames, owner, crashes>>

Signal(sig) ==
    /\ ~Gone
    /\ sent[sig] < MaxSignals
    /\ sent' = [sent EXCEPT ![sig] = @ + 1]
    /\ pending' = IF pid = "child" /\ Running THEN pending \cup {sig} ELSE pending
    /\ watcher' = IF pid # "zero" THEN watcher
                  ELSE IF sig = "TERM" THEN "graceful" ELSE "killed"
    /\ UNCHANGED <<pid, failcount, child, status, frames, owner, crashes>>

(* waitpid returns; the end is quick if the child lived less than 10 s.    *)
ReapAnyExit(quick) ==    \* mutant: WEXITSTATUS is not looked at
    /\ watcher = "wait"
    /\ child = "ended"
    /\ failcount' = IF quick THEN failcount + 1 ELSE 0
    /\ watcher' = IF failcount' = MaxFailcount THEN "failed"
                  ELSE IF status \in {"success", "failure"} THEN "graceful"
                  ELSE "sleep"
    /\ pid' = "dead"
    /\ child' = "none"
    /\ status' = "none"
    /\ UNCHANGED <<pending, frames, owner, sent, crashes>>

Reap(quick) ==
    /\ watcher = "wait"
    /\ child = "ended"
    /\ failcount' = IF quick THEN failcount + 1 ELSE 0
    /\ watcher' = IF failcount' = MaxFailcount THEN "failed"
                  ELSE IF status = "success" THEN "graceful"
                  ELSE "sleep"
    /\ pid' = "dead"
    /\ child' = "none"
    /\ status' = "none"
    /\ UNCHANGED <<pending, frames, owner, sent, crashes>>

(* The child is a copy: what the watcher's pid is, its own is, too, until  *)
(* it has stored the 0 fork() gave it.                                     *)
Fork ==
    /\ watcher \in {"start", "sleep"}
    /\ \/ /\ watcher' = "store"
          /\ child' = IF pid = "zero" THEN "forked" ELSE "copied"
       \/ watcher' = "failed" /\ UNCHANGED child
    /\ UNCHANGED <<pid, failcount, status, pending, frames, owner, sent, crashes>>

Store ==
    /\ watcher = "store"
    /\ watcher' = "wait"
    /\ pid' = "child"
    /\ UNCHANGED <<failcount, child, status, pending, frames, owner, sent, crashes>>

-----------------------------------------------------------------------------
(* The daemon: after execvp the signals have their default actions again,  *)
(* until main installs the handlers.                                       *)

Progress ==
    /\ \/ child = "copied" /\ child' = "forked"
       \/ child = "forked" /\ child' = "started"
       \/ child = "started" /\ child' = "init"
       \/ child = "init" /\ child' = "serving"
    /\ UNCHANGED <<watcher, pid, failcount, status, pending, frames, owner, sent,
                   crashes>>

End(how) ==
    /\ child' = "ended"
    /\ status' = how
    /\ pending' = {}
    /\ frames' = NoFrames
    /\ owner' = Nobody
    /\ UNCHANGED <<watcher, pid, failcount, sent>>

(* A signal from elsewhere, or exit(EXIT_FAILURE) for a missing log file,  *)
(* set or port.                                                            *)
Crash ==
    /\ Running
    /\ crashes < MaxCrashes
    /\ crashes' = crashes + 1
    /\ \/ End("signaled")
       \/ child = "init" /\ End("failure")

(* A signal before the daemon serves.  A copy with the number of a dead    *)
(* process passes the signal on to that.  In a copy with pid 0 the lists   *)
(* rh_exit walks are empty and rh_reload finds no main_config;             *)
(* after execvp the default action ends the process.  During main's        *)
(* initialisation the handlers work on what is there so far: undefined     *)
(* behaviour, which may also kill the process.                             *)
DeliverEarly(sig) ==
    /\ sig \in pending
    /\ UNCHANGED crashes
    /\ \/ child = "forked" /\ End(IF sig = "TERM" THEN "success" ELSE "signaled")
       \/ child = "started" /\ End("signaled")
       \/ child = "init" /\ End("signaled")
       \/ child = "init" /\ sig = "TERM" /\ End("success")
       \/ /\ child = "copied" \/ (child = "init" /\ sig = "HUP")
          /\ pending' = pending \ {sig}
          /\ UNCHANGED <<watcher, pid, failcount, child, status, frames, owner, sent>>

(* A signal is not delivered to a thread that runs its handler already.    *)
DeliverNested(sig, t) ==    \* mutant: the handler does not mask its signal
    /\ child = "serving"
    /\ sig \in pending
    /\ pending' = pending \ {sig}
    /\ frames' = [frames EXCEPT ![t] = Append(@, [sig |-> sig, at |-> "begin"])]
    /\ UNCHANGED <<watcher, pid, failcount, child, status, owner, sent, crashes>>

Deliver(sig, t) ==
    /\ child = "serving"
    /\ sig \in pending
    /\ ~Handles(t, sig)
    /\ pending' = pending \ {sig}
    /\ frames' = [frames EXCEPT ![t] = Append(@, [sig |-> sig, at |-> "begin"])]
    /\ UNCHANGED <<watcher, pid, failcount, child, status, owner, sent, crashes>>

(* Outside of handlers the main thread locks for a request, the polling    *)
(* thread for a copy of the set and for a stop.                            *)
Work(t) ==
    /\ child = "serving"
    /\ Depth(t) = 0
    /\ owner = Nobody
    /\ owner' = <<t, 0>>
    /\ UNCHANGED <<watcher, pid, failcount, child, status, pending, frames, sent,
                   crashes>>

WorkDone(t) ==
    /\ Depth(t) = 0
    /\ owner = <<t, 0>>
    /\ owner' = Nobody
    /\ UNCHANGED <<watcher, pid, failcount, child, status, pending, frames, sent,
                   crashes>>

(* Both handlers come to walk_through_set, which locks: rh_exit for every  *)
(* virtual server, rh_reload for one that was reset or removed.            *)
At(t, place) == Depth(t) > 0 /\ Top(t).at = place
GoTo(t, place) == frames' = [frames EXCEPT ![t][Depth(t)].at = place]

HandlerLock(t) ==
    /\ At(t, "begin")
    /\ owner = Nobody
    /\ owner' = <<t, Depth(t)>>
    /\ GoTo(t, "inside")
    /\ UNCHANGED <<watcher, pid, failcount, child, status, pending, sent, crashes>>

HandlerKeeps(t) ==    \* mutant: the lock is kept when the kernel is busy
    /\ At(t, "inside")
    /\ owner' \in {Nobody, owner}
    /\ GoTo(t, "done")
    /\ UNCHANGED <<watcher, pid, failcount, child, status, pending, sent, crashes>>

HandlerUnlock(t) ==
    /\ At(t, "inside")
    /\ owner' = Nobody
    /\ GoTo(t, "done")
    /\ UNCHANGED <<watcher, pid, failcount, child, status, pending, sent, crashes>>

HandlerSkips(t) ==
    /\ At(t, "begin")
    /\ Top(t).sig = "HUP"
    /\ GoTo(t, "done")
    /\ UNCHANGED <<watcher, pid, failcount, child, status, pending, owner, sent,
                   crashes>>

(* rh_exit goes on to the next virtual server or to exit(), rh_reload to   *)
(* the next virtual server or back to the interrupted code.                *)
HandlerNext(t) ==
    /\ At(t, "done")
    /\ GoTo(t, "begin")
    /\ UNCHANGED <<watcher, pid, failcount, child, status, pending, owner, sent,
                   crashes>>

HandlerReturn(t) ==
    /\ At(t, "done")
    /\ \/ Top(t).sig = "TERM" /\ End("success") /\ UNCHANGED crashes
       \/ /\ Top(t).sig = "HUP"
          /\ frames' = [frames EXCEPT ![t] = SubSeq(@, 1, Depth(t) - 1)]
          /\ UNCHANGED <<watcher, pid, failcount, child, status, pending, owner,
                         sent, crashes>>

Next ==
    \/ \E sig \in Signals : Signal(sig) \/ DeliverEarly(sig)
    \/ \E quick \in BOOLEAN : Reap(quick)
    \/ Fork \/ Store \/ Progress \/ Crash
    \/ \E sig \in Signals, t \in Threads : Deliver(sig, t)
    \/ \E t \in Threads :
          \/ Work(t) \/ WorkDone(t)
          \/ HandlerLock(t) \/ HandlerUnlock(t) \/ HandlerSkips(t)
          \/ HandlerNext(t) \/ HandlerReturn(t)

Spec == Init /\ [][Next]_vars

(* Processes and threads run; a handler that waits for the lock gets it if *)
(* it is given back again and again, which the search of Bandwidth for a   *)
(* slot denies when none is left; a handler has finitely many virtual      *)
(* servers to go through.                                                  *)
Fairness ==
    /\ WF_vars(\E quick \in BOOLEAN : Reap(quick))
    /\ WF_vars(Fork)
    /\ WF_vars(Store)
    /\ WF_vars(Progress)
    /\ \A t \in Threads :
         /\ WF_vars(WorkDone(t))
         /\ SF_vars(HandlerLock(t))
         /\ WF_vars(HandlerUnlock(t))
         /\ SF_vars(HandlerReturn(t))
    /\ \A sig \in Signals :
         /\ WF_vars(DeliverEarly(sig))
         /\ SF_vars(\E t \in Threads : Deliver(sig, t))

FairSpec == Spec /\ Fairness
-----------------------------------------------------------------------------

(* A stack holds each handler once at most, since it masks its own signal. *)
TypeOK ==
    /\ watcher \in {"start", "store", "wait", "sleep", "graceful", "failed", "killed"}
    /\ pid \in {"zero", "child", "dead"}
    /\ failcount \in 0 .. MaxFailcount
    /\ child \in {"copied", "forked", "started", "init", "serving", "ended", "none"}
    /\ status \in {"none", "success", "failure", "signaled"}
    /\ pending \subseteq Signals
    /\ \A t \in Threads : /\ Depth(t) \in 0 .. 2
                          /\ \A k \in 1 .. Depth(t) : frames[t][k] \in Frame
    /\ owner \in (Threads \X (0 .. 2)) \cup {Nobody}
    /\ sent \in [Signals -> 0 .. MaxSignals]
    /\ crashes \in 0 .. MaxCrashes

(* A watcher that has stored the number of a child leaves no daemon        *)
(* behind, whatever signals come: it ends only after waitpid has returned  *)
(* and no new child was made.  Only the watcher of the first turn can,     *)
(* which a signal ends between fork() and the assignment.                  *)
NoOrphan == Gone /\ pid # "zero" => child = "none"

(* A daemon that ends unasked is started again until it serves, or the     *)
(* watcher gives up for good: an unasked end is never taken for an orderly *)
(* one, which would leave the network without its gatekeeper in silence.   *)
(* A SIGHUP that finds a pid of 0 kills the watcher.                       *)
DaemonComesBack ==
    ~Running /\ sent["TERM"] = 0
        ~> \/ child = "serving" \/ sent["TERM"] > 0
           \/ watcher \in {"failed", "killed"}

(* A thread waits for the lock that a frame below it on its stack holds.   *)
SelfLocked ==
    \E t \in Threads : /\ At(t, "begin")
                       /\ owner[1] = t
                       /\ owner[2] < Depth(t)

(* A SIGTERM that has reached its handler ends the process; only a thread  *)
(* that interrupted itself inside RHMtxLock can keep it from that.  No     *)
(* other wait, of two threads or of two handlers, lasts.                   *)
StopEndsOrSelfLocks ==
    (\E t \in Threads : Handles(t, "TERM")) ~> ~Running \/ SelfLocked

-----------------------------------------------------------------------------
(* The next one does not hold of the code. *)

(* A SIGTERM makes the program exit: ChangeLog:1107 says it now really     *)
(* exits gracefully.                                                       *)
StopEnds == sent["TERM"] > 0 ~> Gone
=============================================================================
