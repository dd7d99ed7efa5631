---------------------------- MODULE WatcherProofs ----------------------------
(* The watcher and its child, for any number of signals and crashes.       *)
EXTENDS Watcher, ListLemmas

WatcherStates ==
    {"start", "store", "wait", "sleep", "graceful", "failed", "killed"}

(* The strengthening: the watcher has a child from the fork to waitpid, it *)
(* knows of one from the first assignment on, and only a serving child has *)
(* handlers on its stacks, so none returns into a process that is gone.    *)
WaitsForChild ==
    /\ watcher \in WatcherStates
    /\ watcher \in {"start", "sleep"} => child = "none"
    /\ watcher \in {"store", "wait"} => child # "none"
    /\ watcher \in {"wait", "sleep"} => pid # "zero"
    /\ Gone /\ pid # "zero" => child = "none"
    /\ child # "serving" => frames = NoFrames

LEMMA HandlersServe ==
    ASSUME WaitsForChild, NEW t \in Threads, NEW place, At(t, place)
    PROVE  child = "serving"
<1>1. frames # NoFrames
  <2>1. NoFrames[t] = <<>>
    BY DEF NoFrames
  <2>2. QED
    BY <2>1 DEF At, Depth
<1>2. QED
  BY <1>1 DEF WaitsForChild

LEMMA WatcherStep ==
    ASSUME WaitsForChild, [Next]_vars
    PROVE  WaitsForChild'
<1> USE DEF WaitsForChild, Gone, WatcherStates
<1>1. ASSUME NEW how, End(how), child # "none" PROVE WaitsForChild'
  BY <1>1 DEF End
<1>2. ASSUME UNCHANGED <<watcher, pid, child, frames>> PROVE WaitsForChild'
  BY <1>2
<1>3. ASSUME UNCHANGED <<watcher, pid, child>>, child = "serving"
      PROVE  WaitsForChild'
  BY <1>3
<1>4. ASSUME NEW sig \in Signals, Signal(sig) PROVE WaitsForChild'
  <2>1. /\ ~Gone /\ UNCHANGED <<pid, child, frames>>
        /\ \/ watcher' = watcher
           \/ pid = "zero" /\ watcher' \in {"graceful", "killed"}
    BY <1>4 DEF Signal
  <2>2. QED
    BY <1>2, <2>1
<1>5. ASSUME NEW sig \in Signals, DeliverEarly(sig) PROVE WaitsForChild'
  BY <1>1, <1>2, <1>5 DEF DeliverEarly
<1>6. ASSUME NEW quick \in BOOLEAN, Reap(quick) PROVE WaitsForChild'
  <2>1. watcher' \in {"failed", "graceful", "sleep"}
    BY <1>6 DEF Reap
  <2>2. QED
    BY <1>6, <2>1 DEF Reap
<1>7. CASE Fork \/ Store
  BY <1>7 DEF Fork, Store
<1>8. CASE Progress
  BY <1>8 DEF Progress
<1>9. CASE Crash
  BY <1>1, <1>9 DEF Crash, Running
<1>10. ASSUME NEW sig \in Signals, NEW t \in Threads, Deliver(sig, t)
       PROVE  WaitsForChild'
  BY <1>3, <1>10 DEF Deliver
<1>11. ASSUME NEW t \in Threads, Work(t) \/ WorkDone(t) PROVE WaitsForChild'
  BY <1>2, <1>11 DEF Work, WorkDone
<1>12. ASSUME NEW t \in Threads,
              \/ HandlerLock(t) \/ HandlerUnlock(t) \/ HandlerSkips(t)
              \/ HandlerNext(t)
       PROVE  WaitsForChild'
  BY <1>3, <1>12, HandlersServe
     DEF HandlerLock, HandlerUnlock, HandlerSkips, HandlerNext
<1>13. ASSUME NEW t \in Threads, HandlerReturn(t) PROVE WaitsForChild'
  BY <1>1, <1>3, <1>13, HandlersServe DEF HandlerReturn
<1>14. CASE UNCHANGED vars
  BY <1>2, <1>14 DEF vars
<1>15. QED
  BY <1>4, <1>5, <1>6, <1>7, <1>8, <1>9, <1>10, <1>11, <1>12, <1>13, <1>14
     DEF Next

(* Whatever signals, crashes and failed forks there are, a watcher that    *)
(* has known of a child is gone only when no child of its is left.         *)
THEOREM NoDaemonLeftBehind == Spec => []NoOrphan
<1>1. Init => WaitsForChild
  BY DEF Init, WaitsForChild, WatcherStates, Gone
<1>2. WaitsForChild /\ [Next]_vars => WaitsForChild'
  BY WatcherStep
<1>3. WaitsForChild => NoOrphan
  BY DEF WaitsForChild, NoOrphan
<1>4. QED
  BY <1>1, <1>2, <1>3, PTL DEF Spec

-----------------------------------------------------------------------------
(* The types: a stack holds two handlers at most, one of each signal, and  *)
(* a watcher that goes on has not counted to the end.                      *)

Counters ==
    /\ failcount \in 0 .. MaxFailcount
    /\ failcount = MaxFailcount => watcher = "failed"
    /\ sent \in [Signals -> 0 .. MaxSignals]
    /\ crashes \in 0 .. MaxCrashes

Process ==
    /\ watcher \in WatcherStates
    /\ pid \in {"zero", "child", "dead"}
    /\ child \in {"copied", "forked", "started", "init", "serving", "ended", "none"}
    /\ status \in {"none", "success", "failure", "signaled"}
    /\ pending \subseteq Signals

Masked(stack) ==
    \A i, j \in DOMAIN stack : stack[i].sig = stack[j].sig => i = j

Stacks ==
    /\ frames \in [Threads -> Seq(Frame)]
    /\ \A t \in Threads : Masked(frames[t])
    /\ owner \in (Threads \X (0 .. 2)) \cup {Nobody}

TInv == Counters /\ Process /\ Stacks

(* There are two signals.                                                  *)
LEMMA TwoSignals ==
    ASSUME NEW S, NEW stack \in Seq(S), Masked(stack),
           \A i \in DOMAIN stack : stack[i].sig \in Signals
    PROVE  /\ Len(stack) \in 0 .. 2
           /\ Len(stack) = 2 => \A sig \in Signals :
                 \E i \in 1 .. Len(stack) : stack[i].sig = sig
<1>1. /\ DOMAIN stack = 1 .. Len(stack) /\ Len(stack) \in Nat
      /\ \A i \in 1 .. Len(stack) : stack[i].sig \in {"TERM", "HUP"}
      /\ \A i, j \in 1 .. Len(stack) : stack[i].sig = stack[j].sig => i = j
  BY DEF Masked, Signals
<1>2. ~(Len(stack) > 2)
  <2> SUFFICES ASSUME Len(stack) > 2 PROVE FALSE
    OBVIOUS
  <2>1. 1 \in 1 .. Len(stack) /\ 2 \in 1 .. Len(stack) /\ 3 \in 1 .. Len(stack)
    BY <1>1
  <2>2. stack[1].sig # stack[2].sig /\ stack[1].sig # stack[3].sig
        /\ stack[2].sig # stack[3].sig
    BY <1>1, <2>1
  <2>3. QED
    BY <1>1, <2>1, <2>2
<1>3. ASSUME Len(stack) = 2, NEW sig \in Signals
      PROVE  \E i \in 1 .. Len(stack) : stack[i].sig = sig
  <2>1. 1 \in 1 .. Len(stack) /\ 2 \in 1 .. Len(stack)
    BY <1>3
  <2>2. stack[1].sig # stack[2].sig
    BY <1>1, <2>1
  <2>3. QED
    BY <1>1, <1>3, <2>1, <2>2 DEF Signals
<1>4. Len(stack) \in 0 .. 2
  BY <1>1, <1>2
<1>5. QED
  BY <1>3, <1>4

LEMMA TwoHandlers ==
    ASSUME NEW stack \in Seq(Frame), Masked(stack)
    PROVE  /\ Len(stack) \in 0 .. 2
           /\ Len(stack) = 2 => \A sig \in Signals :
                 \E i \in 1 .. Len(stack) : stack[i].sig = sig
<1>1. \A i \in DOMAIN stack : stack[i] \in Frame
  OBVIOUS
<1>2. \A i \in DOMAIN stack : stack[i].sig \in Signals
  BY <1>1 DEF Frame
<1>3. QED
  BY <1>2, TwoSignals

(* The signals of a stack tell its handlers apart, wherever they are.      *)
LEMMA OtherPlace ==
    ASSUME NEW S, NEW stack \in Seq(S), Masked(stack), NEW i \in DOMAIN stack,
           NEW frame \in S, frame.sig = stack[i].sig
    PROVE  /\ [stack EXCEPT ![i] = frame] \in Seq(S)
           /\ Masked([stack EXCEPT ![i] = frame])
<1> DEFINE new == [stack EXCEPT ![i] = frame]
<1>1. new \in Seq(S) /\ DOMAIN new = DOMAIN stack
  BY ExceptAtSeq
<1>2. \A j \in DOMAIN stack : new[j].sig = stack[j].sig
  OBVIOUS
<1> HIDE DEF new
<1>3. Masked(new)
  BY <1>1, <1>2 DEF Masked
<1>4. QED
  BY <1>1, <1>3 DEF new

LEMMA OneMore ==
    ASSUME NEW S, NEW stack \in Seq(S), Masked(stack), NEW frame \in S,
           \A i \in DOMAIN stack : stack[i].sig # frame.sig
    PROVE  Append(stack, frame) \in Seq(S) /\ Masked(Append(stack, frame))
<1> DEFINE new == Append(stack, frame)
           n == Len(stack) + 1
<1>1. /\ DOMAIN new = DOMAIN stack \cup {n} /\ new[n] = frame /\ new \in Seq(S)
      /\ \A i \in DOMAIN stack : new[i] = stack[i]
  OBVIOUS
<1> HIDE DEF new, n
<1>2. Masked(new)
  BY <1>1 DEF Masked
<1>3. QED
  BY <1>1, <1>2 DEF new

LEMMA OneLess ==
    ASSUME NEW S, NEW stack \in Seq(S), Masked(stack), Len(stack) > 0
    PROVE  /\ SubSeq(stack, 1, Len(stack) - 1) \in Seq(S)
           /\ Masked(SubSeq(stack, 1, Len(stack) - 1))
<1> DEFINE new == SubSeq(stack, 1, Len(stack) - 1)
<1>1. /\ DOMAIN new \subseteq DOMAIN stack /\ new \in Seq(S)
      /\ \A i \in DOMAIN new : new[i] = stack[i]
  OBVIOUS
<1> HIDE DEF new
<1>2. Masked(new)
  BY <1>1 DEF Masked
<1>3. QED
  BY <1>1, <1>2 DEF new

LEMMA NoStacks ==
    /\ NoFrames \in [Threads -> Seq(Frame)]
    /\ \A t \in Threads : Masked(NoFrames[t])
BY DEF NoFrames, Masked

(* A handler goes on.                                                      *)
Moved(frame, place) == [frame EXCEPT !.at = place]

LEMMA MovedFrame ==
    ASSUME NEW frame \in Frame, NEW place \in {"begin", "inside", "done"}
    PROVE  Moved(frame, place) \in Frame /\ Moved(frame, place).sig = frame.sig
BY DEF Frame, Moved

LEMMA StackOf ==
    ASSUME TInv, NEW t \in Threads
    PROVE  /\ frames[t] \in Seq(Frame) /\ Masked(frames[t])
           /\ Depth(t) = Len(frames[t]) /\ Depth(t) \in 0 .. 2
           /\ Depth(t) > 0 => Depth(t) \in DOMAIN frames[t]
<1>1. frames[t] \in Seq(Frame) /\ Masked(frames[t])
  BY DEF TInv, Stacks
<1>2. Depth(t) = Len(frames[t]) /\ Depth(t) \in 0 .. 2
  BY <1>1, TwoHandlers DEF Depth
<1>3. Depth(t) > 0 => Depth(t) \in DOMAIN frames[t]
  <2>1. DOMAIN frames[t] = 1 .. Depth(t)
    BY <1>1 DEF Depth
  <2>2. QED
    BY <1>2, <2>1
<1>4. QED
  BY <1>1, <1>2, <1>3

(* One stack changes.                                                      *)
LEMMA OneStack ==
    ASSUME TInv, NEW t \in Threads, NEW new \in Seq(Frame), Masked(new),
           frames' = [frames EXCEPT ![t] = new],
           owner' \in {owner, Nobody, <<t, Depth(t)>>}
    PROVE  Stacks'
<1>1. Depth(t) \in 0 .. 2
  BY StackOf
<1>2. owner' \in (Threads \X (0 .. 2)) \cup {Nobody}
  BY <1>1 DEF TInv, Stacks
<1>3. /\ frames' \in [Threads -> Seq(Frame)]
      /\ \A u \in Threads : Masked(frames'[u])
  BY DEF TInv, Stacks
<1>4. QED
  BY <1>2, <1>3 DEF Stacks

LEMMA GoToStacks ==
    ASSUME TInv, NEW t \in Threads, NEW from, At(t, from),
           NEW place \in {"begin", "inside", "done"}, GoTo(t, place),
           owner' \in {owner, Nobody, <<t, Depth(t)>>}
    PROVE  Stacks'
<1> DEFINE stack == frames[t]
           n == Depth(t)
           frame == Moved(stack[n], place)
<1>1. stack \in Seq(Frame) /\ Masked(stack) /\ n \in DOMAIN stack
  BY StackOf DEF At
<1>2. frames' = [frames EXCEPT ![t] = [stack EXCEPT ![n] = frame]]
  BY DEF GoTo, Moved
<1> HIDE DEF stack, n
<1>3. stack[n] \in Frame
  BY <1>1
<1>4. frame \in Frame /\ frame.sig = stack[n].sig
  BY <1>3, MovedFrame
<1> HIDE DEF frame
<1>5. /\ [stack EXCEPT ![n] = frame] \in Seq(Frame)
      /\ Masked([stack EXCEPT ![n] = frame])
  BY <1>1, <1>4, OtherPlace
<1>6. QED
  BY <1>2, <1>5, OneStack

LEMMA DeliverStacks ==
    ASSUME TInv, NEW sig \in Signals, NEW t \in Threads, Deliver(sig, t)
    PROVE  Stacks'
<1> DEFINE stack == frames[t]
           frame == [sig |-> sig, at |-> "begin"]
<1>1. stack \in Seq(Frame) /\ Masked(stack)
  BY StackOf
<1>2. /\ owner' = owner /\ frames' = [frames EXCEPT ![t] = Append(stack, frame)]
      /\ \A k \in 1 .. Len(stack) : stack[k].sig # sig
  BY DEF Deliver, Handles, Depth
<1>3. frame \in Frame /\ frame.sig = sig
  BY DEF Frame
<1> HIDE DEF stack, frame
<1>4. DOMAIN stack = 1 .. Len(stack)
  BY <1>1
<1>5. Append(stack, frame) \in Seq(Frame) /\ Masked(Append(stack, frame))
  BY <1>1, <1>2, <1>3, <1>4, OneMore
<1>6. QED
  BY <1>2, <1>5, OneStack

LEMMA ReturnStacks ==
    ASSUME TInv, NEW t \in Threads, At(t, "done"), owner' = owner,
           frames' = [frames EXCEPT ![t] = SubSeq(@, 1, Depth(t) - 1)]
    PROVE  Stacks'
<1> DEFINE stack == frames[t]
           new == SubSeq(stack, 1, Len(stack) - 1)
<1>1. stack \in Seq(Frame) /\ Masked(stack) /\ Len(stack) > 0
  BY StackOf DEF At
<1>2. frames' = [frames EXCEPT ![t] = new]
  BY DEF Depth
<1> HIDE DEF stack
<1>3. new \in Seq(Frame) /\ Masked(new)
  BY <1>1, OneLess
<1> HIDE DEF new
<1>4. QED
  BY <1>2, <1>3, OneStack

LEMMA TypesStep == TInv /\ [Next]_vars => TInv'
<1> SUFFICES ASSUME TInv, [Next]_vars PROVE TInv'
  OBVIOUS
<1>1. ASSUME NEW how \in {"success", "failure", "signaled"}, End(how),
             crashes' \in 0 .. MaxCrashes
      PROVE  TInv'
  <2>1. Counters'
    BY <1>1 DEF End, TInv, Counters
  <2>2. Process'
    BY <1>1 DEF End, TInv, Process
  <2>3. Stacks'
    BY <1>1, NoStacks DEF End, Stacks
  <2>4. QED
    BY <2>1, <2>2, <2>3 DEF TInv
<1>2. ASSUME UNCHANGED <<frames, owner>>, Counters', Process' PROVE TInv'
  BY <1>2 DEF TInv, Stacks
<1>3. ASSUME UNCHANGED <<watcher, pid, failcount, child, status, sent, crashes>>,
             pending' \subseteq pending, Stacks'
      PROVE  TInv'
  BY <1>3 DEF TInv, Counters, Process
<1>4. ASSUME NEW sig \in Signals, Signal(sig) PROVE TInv'
  <2>1. sent' \in [Signals -> 0 .. MaxSignals]
    BY <1>4, ConstantsAssumption DEF Signal, TInv, Counters
  <2>2. pending' \subseteq Signals
    BY <1>4 DEF Signal, TInv, Process
  <2>3. watcher' \in {watcher, "graceful", "killed"} /\ watcher \notin {"failed"}
    BY <1>4 DEF Signal, Gone
  <2>4. /\ failcount' = failcount /\ crashes' = crashes
        /\ watcher' \in WatcherStates /\ failcount # MaxFailcount
    BY <1>4, <2>3 DEF Signal, TInv, Counters, Process, WatcherStates
  <2>5. QED
    BY <1>2, <1>4, <2>1, <2>2, <2>4 DEF Signal, TInv, Counters, Process
<1>5. ASSUME NEW sig \in Signals, DeliverEarly(sig) PROVE TInv'
  <2>1. crashes' \in 0 .. MaxCrashes
    BY <1>5 DEF DeliverEarly, TInv, Counters
  <2>2. CASE \E how \in {"success", "failure", "signaled"} : End(how)
    BY <1>1, <2>1, <2>2
  <2>3. CASE /\ pending' = pending \ {sig}
             /\ UNCHANGED <<watcher, pid, failcount, child, status, frames, owner, sent>>
    <3>1. Stacks'
      BY <2>3 DEF TInv, Stacks
    <3>2. QED
      BY <1>3, <1>5, <2>3, <3>1 DEF DeliverEarly
  <2>4. QED
    BY <1>5, <2>2, <2>3 DEF DeliverEarly
<1>6. ASSUME NEW quick \in BOOLEAN, Reap(quick) PROVE TInv'
  <2>1. /\ watcher = "wait" /\ failcount' = IF quick THEN failcount + 1 ELSE 0
        /\ watcher' = IF failcount' = MaxFailcount THEN "failed"
                      ELSE IF status = "success" THEN "graceful" ELSE "sleep"
        /\ pid' = "dead" /\ child' = "none" /\ status' = "none"
        /\ UNCHANGED <<pending, frames, owner, sent, crashes>>
    BY <1>6 DEF Reap
  <2>2. failcount \in 0 .. MaxFailcount /\ failcount # MaxFailcount
    BY <2>1 DEF TInv, Counters
  <2>3. failcount' \in 0 .. MaxFailcount
    BY <2>1, <2>2, ConstantsAssumption
  <2>4. Counters' /\ Process'
    BY <2>1, <2>3 DEF TInv, Counters, Process, WatcherStates
  <2>5. QED
    BY <1>2, <2>1, <2>4
<1>7. CASE Fork \/ Store
  BY <1>2, <1>7 DEF Fork, Store, TInv, Counters, Process, WatcherStates
<1>8. CASE Progress
  BY <1>2, <1>8 DEF Progress, TInv, Counters, Process
<1>9. CASE Crash
  <2>1. crashes' \in 0 .. MaxCrashes
    BY <1>9, ConstantsAssumption DEF Crash, TInv, Counters
  <2>2. QED
    BY <1>1, <1>9, <2>1 DEF Crash
<1>10. ASSUME NEW sig \in Signals, NEW t \in Threads, Deliver(sig, t) PROVE TInv'
  BY <1>3, <1>10, DeliverStacks DEF Deliver
<1>11. ASSUME NEW t \in Threads, Work(t) \/ WorkDone(t) PROVE TInv'
  <2>1. /\ UNCHANGED <<watcher, pid, failcount, child, status, pending, frames, sent, crashes>>
        /\ owner' \in {<<t, 0>>, Nobody}
    BY <1>11 DEF Work, WorkDone
  <2>2. Stacks'
    BY <2>1 DEF TInv, Stacks
  <2>3. QED
    BY <1>3, <2>1, <2>2
<1>12. ASSUME NEW t \in Threads,
              HandlerLock(t) \/ HandlerUnlock(t) \/ HandlerSkips(t) \/ HandlerNext(t)
       PROVE  TInv'
  <2>1. Stacks'
    BY <1>12, GoToStacks
       DEF HandlerLock, HandlerUnlock, HandlerSkips, HandlerNext
  <2>2. UNCHANGED <<watcher, pid, failcount, child, status, pending, sent, crashes>>
    BY <1>12 DEF HandlerLock, HandlerUnlock, HandlerSkips, HandlerNext
  <2>3. QED
    BY <1>3, <2>1, <2>2
<1>13. ASSUME NEW t \in Threads, HandlerReturn(t) PROVE TInv'
  <2>1. CASE End("success") /\ UNCHANGED crashes
    BY <1>1, <2>1 DEF TInv, Counters
  <2>2. CASE /\ frames' = [frames EXCEPT ![t] = SubSeq(@, 1, Depth(t) - 1)]
             /\ UNCHANGED <<watcher, pid, failcount, child, status, pending, owner, sent, crashes>>
    BY <1>3, <1>13, <2>2, ReturnStacks DEF HandlerReturn
  <2>3. QED
    BY <1>13, <2>1, <2>2 DEF HandlerReturn
<1>14. CASE UNCHANGED vars
  BY <1>14 DEF vars, TInv, Counters, Process, Stacks
<1>15. QED
  BY <1>4, <1>5, <1>6, <1>7, <1>8, <1>9, <1>10, <1>11, <1>12, <1>13, <1>14
     DEF Next

(* The watcher and the daemon stay within their types, for any number of   *)
(* signals and crashes: no stack grows beyond one handler of each signal,  *)
(* since the handlers are installed with their own signal masked.          *)
THEOREM TypeCorrect == Spec => []TypeOK
<1>1. Init => TInv
  <2> SUFFICES ASSUME Init PROVE TInv
    OBVIOUS
  <2>1. Counters
    BY ConstantsAssumption DEF Init, Counters
  <2>2. Process
    BY DEF Init, Process, WatcherStates
  <2>3. Stacks
    BY NoStacks DEF Init, Stacks
  <2>4. QED
    BY <2>1, <2>2, <2>3 DEF TInv
<1>2. TInv => TypeOK
  <2> SUFFICES ASSUME TInv PROVE TypeOK
    OBVIOUS
  <2>1. ASSUME NEW t \in Threads
        PROVE  /\ Depth(t) \in 0 .. 2
               /\ \A n \in 1 .. Depth(t) : frames[t][n] \in Frame
    BY StackOf
  <2>2. QED
    BY <2>1 DEF TInv, Counters, Process, Stacks, TypeOK, WatcherStates
<1>3. QED
  BY <1>1, <1>2, TypesStep, PTL DEF Spec
=============================================================================
