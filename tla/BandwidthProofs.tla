--------------------------- MODULE BandwidthProofs ---------------------------
(***************************************************************************)
(* Proofs about Bandwidth, for every set of clients, every number of slots *)
(* and every bound.                                                        *)
(***************************************************************************)
EXTENDS Bandwidth, FiniteSetTheorems, TLAPS

(* A client slots are sought for is in the middle of its start. *)
Seeking ==
    seeking # NoClient =>
        /\ phase = "up"
        /\ seeking \in online
        /\ slot[seeking] = 0
        /\ tries \in 1 .. 3

(* Only a member has a slot, and the slot is marked; a process that is     *)
(* down, or has rows yet to restore, has no member of that name.           *)
Marked ==
    /\ \A c \in Clients : c \notin online => slot[c] = 0
    /\ \A c \in Clients : slot[c] > 0 => slot[c] \in flags
    /\ \A c \in pending : c \notin online
    /\ phase = "down" => online = {}
    /\ 0 \in flags

(* The kernel's classes belong to the slots this process has marked, if    *)
(* this process has set up the interface; there are none without the run   *)
(* file.                                                                   *)
Fresh ==
    /\ ready => run /\ phase # "down"
    /\ ready => \A k \in classes : k.slot \in flags
    /\ ready => \A f \in filters : f.slot \in flags
    /\ ~run => classes = {} /\ filters = {}

IInv == TypeOK /\ Seeking /\ Marked /\ Fresh /\ OwnSlot /\ OwnClass

LEMMA InitInv == Init => IInv
<1> SUFFICES ASSUME Init PROVE IInv
  OBVIOUS
<1>1. TypeOK
  <2>1. 0 \in SlotIds /\ 0 \in 0 .. CountRange - 1 /\ 0 \in 0 .. MaxLogins
        /\ 0 \in 0 .. MaxFailures
    BY ConstantsAssumption DEF SlotIds
  <2>2. rate \in [Clients -> Rates \cup {0}] /\ slot \in [Clients -> SlotIds]
    BY <2>1 DEF Init
  <2>3. /\ tries \in 0 .. 3 /\ count \in 0 .. CountRange - 1
        /\ logins \in 0 .. MaxLogins /\ failures \in 0 .. MaxFailures
        /\ flags \subseteq SlotIds
    BY <2>1 DEF Init
  <2>4. /\ phase \in {"down", "up", "closing"}
        /\ ready \in BOOLEAN /\ run \in BOOLEAN
    BY Zenon DEF Init
  <2>5. QED
    BY <2>2, <2>3, <2>4 DEF Init, TypeOK
<1>2. QED
  BY <1>1 DEF Init, IInv, Seeking, Marked, Fresh, OwnSlot, OwnClass

(* What a session's start changes. *)
LEMMA StartInv ==
    ASSUME IInv, NEW c \in Clients, NEW r \in Rates \cup {0}, StartSess(c, r),
           phase = "up", seeking = NoClient, c \notin online,
           pending' \subseteq pending \ {c},
           rate' \in [Clients -> Rates \cup {0}],
           \A d \in Clients \ {c} : rate'[d] = rate[d],
           logins' \in 0 .. MaxLogins,
           UNCHANGED <<phase, slots, ready, kernel, failures>>
    PROVE  IInv'
<1>1. slot[c] = 0
  BY DEF IInv, Marked
<1>2. /\ online' = online \cup {c}
      /\ seeking' \in {NoClient, c}
      /\ seeking' = c => tries' = 3
      /\ seeking' = NoClient => tries' = tries
      /\ rows' \subseteq rows \cup {c}
  BY ConstantsAssumption DEF StartSess, search
<1>3. TypeOK'
  BY <1>2 DEF IInv, TypeOK, slots, kernel
<1>4. Seeking' /\ Marked'
  BY <1>1, <1>2 DEF IInv, Seeking, Marked, TypeOK, slots
<1>5. Fresh' /\ OwnSlot'
  BY DEF IInv, Fresh, OwnSlot, slots, kernel
<1>6. OwnClass'
  BY <1>1 DEF IInv, OwnClass, slots, kernel
<1>7. QED
  BY <1>3, <1>4, <1>5, <1>6 DEF IInv

(* A slot that is free has no class and no filter yet. *)
LEMMA AddInv ==
    ASSUME IInv, NEW s \in SlotIds, AddSlot(s)
    PROVE  IInv'
<1> DEFINE c == seeking
<1>1. /\ c \in Clients /\ c \in online /\ slot[c] = 0 /\ phase = "up"
      /\ s \in FreeSlots
  BY DEF AddSlot, IInv, TypeOK, Seeking
<1>2. /\ slot' = [slot EXCEPT ![c] = s]
      /\ seeking' = NoClient /\ tries' = 0
      /\ rows' = rows \cup {c}
      /\ flags' = flags \cup {s}
      /\ count' = (count + 1) % CountRange
      /\ UNCHANGED <<phase, online, rate, pending, ready, run, logins, failures>>
  BY DEF AddSlot, mark_reserved_slot_id
<1>3. s = 0 \/ s \notin flags
  BY <1>1 DEF FreeSlots
<1>4. slot'[c] = s /\ \A d \in Clients \ {c} : slot'[d] = slot[d]
  BY <1>1, <1>2 DEF IInv, TypeOK
<1>5. /\ classes' \subseteq classes \cup {[slot |-> s, rate |-> rate[c]]}
      /\ filters' \subseteq filters \cup {[slot |-> s, client |-> c]}
      /\ classes \subseteq classes' /\ filters \subseteq filters'
      /\ ~run => classes' = classes /\ filters' = filters
  BY DEF AddSlot, bw_add
<1>6. TypeOK'
  <2>1. count' \in 0 .. CountRange - 1
    BY <1>2, ConstantsAssumption DEF IInv, TypeOK
  <2>2. slot' \in [Clients -> SlotIds]
    BY <1>1, <1>2 DEF IInv, TypeOK
  <2>3. /\ [slot |-> s, rate |-> rate[c]] \in [slot : SlotIds, rate : Rates \cup {0}]
        /\ [slot |-> s, client |-> c] \in [slot : SlotIds, client : Clients]
    BY <1>1 DEF IInv, TypeOK
  <2> HIDE DEF c
  <2>4. /\ classes' \subseteq [slot : SlotIds, rate : Rates \cup {0}]
        /\ filters' \subseteq [slot : SlotIds, client : Clients]
    BY <1>5, <2>3 DEF IInv, TypeOK
  <2>5. QED
    BY <1>1, <1>2, <2>1, <2>2, <2>4 DEF IInv, TypeOK
<1>7. Seeking'
  BY <1>2 DEF Seeking
<1>8. Marked'
  BY <1>1, <1>2, <1>4 DEF IInv, Marked
<1>9. Fresh'
  <2>1. \A k \in classes' : k \in classes \/ k.slot = s
    BY <1>5
  <2>2. \A f \in filters' : f \in filters \/ f.slot = s
    BY <1>5
  <2>3. QED
    BY <1>2, <1>5, <2>1, <2>2 DEF IInv, Fresh
<1>10. OwnSlot'
  BY <1>3, <1>4 DEF IInv, Marked, OwnSlot
<1>11. OwnClass'
  <2> SUFFICES ASSUME ready, NEW d \in Clients, slot'[d] > 0
               PROVE  /\ {k.rate : k \in {l \in classes' : l.slot = slot'[d]}}
                            = {rate[d]}
                      /\ {f.client : f \in {g \in filters' : g.slot = slot'[d]}}
                            = {d}
    BY <1>2 DEF OwnClass
  <2>1. CASE d # c
    <3>1. slot'[d] = slot[d] /\ slot[d] # s
      BY <1>3, <1>4, <2>1 DEF IInv, Marked
    <3>2. /\ {l \in classes' : l.slot = slot[d]} = {l \in classes : l.slot = slot[d]}
          /\ {g \in filters' : g.slot = slot[d]} = {g \in filters : g.slot = slot[d]}
      BY <1>5, <3>1
    <3>3. QED
      BY <3>1, <3>2 DEF IInv, OwnClass
  <2>2. CASE d = c
    <3>1. slot'[d] = s /\ s # 0 /\ s \notin flags
      BY <1>3, <1>4, <2>2 DEF SlotIds
    <3>2. run /\ (\A k \in classes : k.slot # s) /\ \A f \in filters : f.slot # s
      BY <3>1 DEF IInv, Fresh
    <3>3. /\ classes' = classes \cup {[slot |-> s, rate |-> rate[c]]}
          /\ filters' = filters \cup {[slot |-> s, client |-> c]}
      BY <3>1, <3>2 DEF AddSlot, bw_add
    <3> DEFINE K == [slot |-> s, rate |-> rate[c]]
               F == [slot |-> s, client |-> c]
    <3>4. K.slot = s /\ K.rate = rate[c] /\ F.slot = s /\ F.client = c
      OBVIOUS
    <3> HIDE DEF K, F, c
    <3>5. classes' = classes \cup {K} /\ filters' = filters \cup {F}
      BY <3>3 DEF K, F
    <3>6. {l \in classes' : l.slot = s} = {K} /\ {g \in filters' : g.slot = s} = {F}
      BY <3>2, <3>4, <3>5
    <3>7. {k.rate : k \in {K}} = {rate[c]} /\ {f.client : f \in {F}} = {c}
      BY <3>4
    <3>8. QED
      BY <2>2, <3>1, <3>6, <3>7
  <2>3. QED
    BY <2>1, <2>2
<1>12. QED
  BY <1>6, <1>7, <1>8, <1>9, <1>10, <1>11 DEF IInv

(* A stop takes at most the class and the filter of its own slot. *)
LEMMA StopInv ==
    ASSUME IInv, NEW c \in Clients, StopSess(c)
    PROVE  IInv'
<1>1. /\ online' = online \ {c} /\ slot' = [slot EXCEPT ![c] = 0]
      /\ rows' = rows \ {c} /\ seeking = NoClient
      /\ UNCHANGED <<phase, rate, pending, search, ready, run, logins>>
  BY DEF StopSess
<1>2. slot'[c] = 0 /\ \A d \in Clients \ {c} : slot'[d] = slot[d]
  BY <1>1 DEF IInv, TypeOK
<1>3. /\ flags' = flags
      /\ count' \in 0 .. CountRange - 1
      /\ failures' \in 0 .. MaxFailures
      /\ classes' \subseteq classes /\ filters' \subseteq filters
      /\ \A k \in classes : k.slot # slot[c] => k \in classes'
      /\ \A f \in filters : f.slot # slot[c] => f \in filters'
  <2>1. TypeOK /\ DropSlot(c)
    BY DEF StopSess, IInv
  <2>2. /\ flags' = flags
        /\ count' \in {count, IF count > 0 THEN count - 1 ELSE 0}
        /\ failures' = failures \/ ScriptFails
        /\ (classes' = classes /\ filters' = filters) \/ bw_del(slot[c])
    BY <2>1 DEF DropSlot
  <2>3. count' \in 0 .. CountRange - 1
    BY <2>1, <2>2, ConstantsAssumption DEF TypeOK
  <2>4. failures' \in 0 .. MaxFailures
    BY <2>1, <2>2, ConstantsAssumption DEF TypeOK, ScriptFails
  <2>5. \/ classes' = classes /\ filters' = filters
        \/ /\ classes' = {k \in classes : k.slot # slot[c]}
           /\ filters' = {f \in filters : f.slot # slot[c]}
    BY <2>2 DEF bw_del
  <2>6. QED
    BY <2>2, <2>3, <2>4, <2>5
<1>4. TypeOK'
  <2>1. slot' \in [Clients -> SlotIds]
    BY <1>1, ConstantsAssumption DEF IInv, TypeOK, SlotIds
  <2>2. /\ online' \subseteq Clients /\ rows' \subseteq Clients
        /\ UNCHANGED <<phase, rate, pending, seeking, tries, ready, run, logins>>
    BY <1>1 DEF IInv, TypeOK, search
  <2>3. QED
    BY <1>3, <2>1, <2>2 DEF IInv, TypeOK
<1>5. Seeking' /\ Marked'
  BY <1>1, <1>2, <1>3 DEF IInv, Seeking, Marked, search
<1>6. Fresh'
  BY <1>1, <1>3 DEF IInv, Fresh
<1>7. OwnSlot'
  BY <1>2 DEF IInv, OwnSlot
<1>8. OwnClass'
  <2> SUFFICES ASSUME ready, NEW d \in Clients, slot'[d] > 0
               PROVE  /\ {k.rate : k \in {l \in classes' : l.slot = slot'[d]}}
                            = {rate[d]}
                      /\ {f.client : f \in {g \in filters' : g.slot = slot'[d]}}
                            = {d}
    BY <1>1 DEF OwnClass
  <2>1. slot'[d] = slot[d] /\ slot[d] # slot[c]
    BY <1>2 DEF IInv, OwnSlot
  <2>2. /\ {l \in classes' : l.slot = slot[d]} = {l \in classes : l.slot = slot[d]}
        /\ {g \in filters' : g.slot = slot[d]} = {g \in filters : g.slot = slot[d]}
    BY <1>3, <2>1
  <2>3. QED
    BY <2>1, <2>2 DEF IInv, OwnClass
<1>9. QED
  BY <1>4, <1>5, <1>6, <1>7, <1>8 DEF IInv

LEMMA EndInv ==
    ASSUME IInv, End
    PROVE  IInv'
<1>1. \A c \in Clients : slot'[c] = 0
  BY DEF End
<1>2. TypeOK'
  <2>1. 0 \in SlotIds /\ 0 \in 0 .. CountRange - 1 /\ TypeOK
    BY ConstantsAssumption DEF SlotIds, IInv
  <2>2. slot' \in [Clients -> SlotIds]
    BY <2>1 DEF End
  <2>3. /\ phase' \in {"down", "up", "closing"} /\ ready' \in BOOLEAN
        /\ online' \subseteq Clients /\ pending' \subseteq Clients
        /\ seeking' \in Clients \cup {NoClient}
    BY DEF End
  <2>4. /\ tries' \in 0 .. 3 /\ count' \in 0 .. CountRange - 1
        /\ flags' \subseteq SlotIds
        /\ UNCHANGED <<rate, rows, run, classes, filters, logins, failures>>
    BY <2>1 DEF End, kernel
  <2>5. QED
    BY <2>1, <2>2, <2>3, <2>4 DEF TypeOK
<1>3. Seeking' /\ Marked' /\ Fresh'
  BY <1>1 DEF End, IInv, Seeking, Marked, Fresh, kernel
<1>4. OwnSlot' /\ OwnClass'
  BY <1>1 DEF End, OwnSlot, OwnClass
<1>5. QED
  BY <1>2, <1>3, <1>4 DEF IInv

(* Stopping the shaping takes the classes away, or leaves all as it is, and *)
(* the interface is gone.                                                   *)
LEMMA CloseInv ==
    ASSUME IInv, Close
    PROVE  IInv'
<1>1. /\ phase = "up" /\ phase' = "closing" /\ seeking = NoClient /\ ready' = FALSE
      /\ UNCHANGED <<online, rate, rows, pending, seeking, tries, slot, flags,
                     count, logins>>
  BY DEF Close, Serving, search, slots
<1>2. \/ UNCHANGED <<run, classes, filters>>
      \/ run' = FALSE /\ classes' = {} /\ filters' = {}
  BY DEF Close, bandwidth_stop, kernel
<1>3. failures' \in 0 .. MaxFailures
  <2>1. failures' = failures \/ ScriptFails
    BY DEF Close, bandwidth_stop
  <2>2. QED
    BY <2>1, ConstantsAssumption DEF ScriptFails, IInv, TypeOK
<1>4. TypeOK' /\ Seeking'
  <2>1. /\ phase' \in {"down", "up", "closing"} /\ ready' \in BOOLEAN
        /\ run' \in BOOLEAN
        /\ classes' \subseteq [slot : SlotIds, rate : Rates \cup {0}]
        /\ filters' \subseteq [slot : SlotIds, client : Clients]
    BY <1>1, <1>2 DEF IInv, TypeOK
  <2>2. QED
    BY <1>1, <1>3, <2>1 DEF IInv, TypeOK, Seeking
<1>5. Marked' /\ OwnSlot' /\ OwnClass'
  BY <1>1 DEF IInv, Marked, OwnSlot, OwnClass
<1>6. Fresh'
  BY <1>1, <1>2 DEF IInv, Fresh
<1>7. QED
  BY <1>4, <1>5, <1>6 DEF IInv

LEMMA StepInv == IInv /\ [Next]_vars => IInv'
<1> SUFFICES ASSUME IInv, [Next]_vars PROVE IInv'
  OBVIOUS
<1> USE DEF IInv
<1>1. ASSUME NEW c \in Clients, NEW r \in Rates, Login(c, r) PROVE IInv'
  BY <1>1, StartInv, ConstantsAssumption DEF Login, Serving, TypeOK
<1>2. ASSUME NEW c \in Clients, RestoreRow(c) PROVE IInv'
  BY <1>2, StartInv DEF RestoreRow, Marked, TypeOK
<1>3. ASSUME NEW c \in Clients, StopSess(c) PROVE IInv'
  BY <1>3, StopInv
<1>4. ASSUME NEW s \in SlotIds, AddSlot(s) PROVE IInv'
  BY <1>4, AddInv
<1>5. CASE AddFails
  <2>1. /\ seeking # NoClient /\ tries' = tries - 1
        /\ failures' \in 0 .. MaxFailures
        /\ \/ tries = 1 /\ seeking' = NoClient /\ rows' = rows \cup {seeking}
           \/ tries # 1 /\ seeking' = seeking /\ rows' = rows
        /\ UNCHANGED <<phase, online, rate, pending, slots, ready, kernel, logins>>
    BY <1>5, ConstantsAssumption DEF AddFails, ScriptFails, TypeOK
  <2>2. TypeOK' /\ Seeking'
    BY <2>1 DEF TypeOK, Seeking, slots, kernel
  <2>3. Marked' /\ Fresh' /\ OwnSlot' /\ OwnClass'
    BY <2>1 DEF Marked, Fresh, OwnSlot, OwnClass, slots, kernel
  <2>4. QED
    BY <2>2, <2>3
<1>6. CASE Close
  BY <1>6, CloseInv
<1>7. CASE End
  BY <1>7, EndInv
<1>8. CASE Boot
  <2>1. /\ phase = "down" /\ phase' = "up" /\ pending' = rows /\ bandwidth_start
        /\ UNCHANGED <<online, rate, rows, search, slots, logins>>
    BY <1>8 DEF Boot
  <2>2. \A c \in Clients : slot[c] = 0
    BY <2>1 DEF Marked
  <2>3. /\ ready' \in BOOLEAN /\ run' \in BOOLEAN
        /\ classes' = classes /\ filters' = filters
        /\ failures' \in 0 .. MaxFailures
        /\ ready' => run' /\ classes = {} /\ filters = {}
        /\ ~run' => ~run
    <3>1. /\ \/ ~run /\ run' = TRUE /\ ready' = TRUE
             \/ run' = run /\ ready' = FALSE
          /\ classes' = classes /\ filters' = filters
          /\ failures' = failures \/ ScriptFails
      BY <2>1 DEF bandwidth_start, kernel
    <3>2. failures' \in 0 .. MaxFailures
      BY <3>1, ConstantsAssumption DEF ScriptFails, TypeOK
    <3>3. (run \in BOOLEAN) /\ (~run => classes = {} /\ filters = {})
      BY DEF TypeOK, Fresh
    <3> HIDE DEF IInv
    <3>4. CASE ~run /\ run' = TRUE /\ ready' = TRUE
      BY <3>1, <3>2, <3>3, <3>4
    <3>5. CASE run' = run /\ ready' = FALSE
      BY <3>1, <3>2, <3>3, <3>5
    <3>6. QED
      BY <3>1, <3>4, <3>5
  <2>4. TypeOK' /\ Seeking'
    BY <2>1, <2>3 DEF TypeOK, Seeking, search, slots
  <2>5. Marked'
    BY <2>1 DEF Marked, slots
  <2>6. Fresh'
    BY <2>1, <2>3 DEF Fresh
  <2>7. OwnSlot' /\ OwnClass'
    BY <2>1, <2>2 DEF OwnSlot, OwnClass, slots
  <2>8. QED
    BY <2>4, <2>5, <2>6, <2>7
<1>9. CASE UNCHANGED vars
  BY <1>9 DEF vars, daemon, search, slots, kernel, TypeOK, Seeking, Marked,
               Fresh, OwnSlot, OwnClass
<1>10. QED
  BY <1>1, <1>2, <1>3, <1>4, <1>5, <1>6, <1>7, <1>8, <1>9 DEF Next

LEMMA Invariant == Spec => []IInv
  BY InitInv, StepInv, PTL DEF Spec

(* The variables of Bandwidth have their types. *)
THEOREM TypeCorrect == Spec => []TypeOK
<1>1. IInv => TypeOK
  BY DEF IInv
<1>2. QED
  BY <1>1, Invariant, PTL

(* No two members ever share a slot. *)
THEOREM SlotsAreOwn == Spec => []OwnSlot
<1>1. IInv => OwnSlot
  BY DEF IInv
<1>2. QED
  BY <1>1, Invariant, PTL

(* On an interface the process has set up, a slot is its member's class.   *)
THEOREM ClassesAreOwn == Spec => []OwnClass
<1>1. IInv => OwnClass
  BY DEF IInv
<1>2. QED
  BY <1>1, Invariant, PTL

-----------------------------------------------------------------------------
(* The count. *)

Held == {c \in Clients : slot[c] > 0}
Sought == IF seeking = NoClient THEN 0 ELSE 1

(* What is counted was a login, or the restore of a row, one to a client.  *)
Counted ==
    /\ count + Sought <= logins + Cardinality(Clients \ pending)
    /\ phase = "down" => count = 0
    /\ CountCovers

LEMMA Finite ==
    /\ \A S \in SUBSET Clients : /\ IsFiniteSet(S) /\ Cardinality(S) \in Nat
                                 /\ Cardinality(S) <= Cardinality(Clients)
    /\ IsFiniteSet(Held) /\ Cardinality(Held) \in Nat
    /\ Cardinality(Clients) \in Nat /\ Cardinality(Clients \ pending) \in Nat
    /\ Cardinality(Clients \ pending) <= Cardinality(Clients)
<1>1. \A S \in SUBSET Clients : /\ IsFiniteSet(S) /\ Cardinality(S) \in Nat
                                /\ Cardinality(S) <= Cardinality(Clients)
  BY FS_Subset, FS_CardinalityType, ConstantsAssumption
<1>2. Held \in SUBSET Clients /\ Clients \ pending \in SUBSET Clients
  BY DEF Held
<1>3. QED
  BY <1>1, <1>2

LEMMA Numbers ==
    ASSUME TypeOK
    PROVE  count \in Nat /\ logins \in Nat /\ CountRange \in Nat \ {0}
BY ConstantsAssumption DEF TypeOK

(* Nothing is counted.                                                     *)
LEMMA CountedSame ==
    ASSUME TypeOK, Counted, UNCHANGED <<count, slot>>, logins' = logins,
           pending' = pending, seeking' = seeking \/ seeking' = NoClient,
           phase' = "down" => phase = "down"
    PROVE  Counted'
<1>1. Sought' <= Sought /\ Sought \in Nat /\ Sought' \in Nat
  BY DEF Sought
<1>2. Held' = Held
  BY DEF Held
<1>3. QED
  BY <1>1, <1>2, Finite, Numbers DEF Counted, CountCovers, Held

LEMMA LoginCounted ==
    ASSUME IInv, Counted, NEW c \in Clients, NEW r \in Rates, Login(c, r)
    PROVE  Counted'
<1>1. /\ seeking = NoClient /\ logins' = logins + 1
      /\ UNCHANGED <<phase, pending, count, slot>>
  BY DEF Login, Serving, slots
<1>2. Sought = 0 /\ Sought' \in {0, 1}
  BY <1>1 DEF Sought
<1>3. Held' = Held
  BY <1>1 DEF Held
<1>4. QED
  BY <1>1, <1>2, <1>3, Finite, Numbers DEF Counted, CountCovers, Held, IInv

LEMMA RestoreCounted ==
    ASSUME IInv, Counted, NEW c \in Clients, RestoreRow(c)
    PROVE  Counted'
<1>1. /\ seeking = NoClient /\ logins' = logins /\ c \in pending
      /\ pending' = pending \ {c} /\ UNCHANGED <<phase, count, slot>>
  BY DEF RestoreRow, slots
<1>2. Sought = 0 /\ Sought' \in {0, 1}
  BY <1>1 DEF Sought
<1>3. Held' = Held
  BY <1>1 DEF Held
<1>4. Cardinality(Clients \ pending') = Cardinality(Clients \ pending) + 1
  <2>1. Clients \ pending' = (Clients \ pending) \cup {c} /\ c \notin Clients \ pending
    BY <1>1
  <2>2. QED
    BY <2>1, Finite, FS_AddElement
<1>5. QED
  BY <1>1, <1>2, <1>3, <1>4, Finite, Numbers DEF Counted, CountCovers, Held, IInv

(* The count does not wrap.                                                *)
LEMMA AddCounted ==
    ASSUME IInv, Counted, NEW s \in SlotIds, AddSlot(s)
    PROVE  Counted'
<1>1. /\ seeking # NoClient /\ seeking' = NoClient /\ seeking \in Clients
      /\ slot' = [slot EXCEPT ![seeking] = s] /\ slot[seeking] = 0
      /\ slot \in [Clients -> SlotIds]
      /\ count' = (count + 1) % CountRange
      /\ phase' = phase /\ phase = "up"
      /\ UNCHANGED <<pending, logins>>
  BY DEF AddSlot, mark_reserved_slot_id, IInv, TypeOK, Seeking
<1>2. Sought = 1 /\ Sought' = 0
  BY <1>1 DEF Sought
<1>3. Held' \in {Held, Held \cup {seeking}} /\ seeking \notin Held
  BY <1>1 DEF Held
<1>4. Cardinality(Held') <= Cardinality(Held) + 1 /\ Cardinality(Held') \in Nat
  BY <1>3, Finite, FS_AddElement
<1>5. count' <= count + 1 /\ count' \in Nat
  BY <1>1, Numbers DEF IInv
<1>6. logins + Cardinality(Clients) < CountRange => count' = count + 1
  BY <1>1, <1>2, Finite, Numbers DEF Counted, IInv
<1>7. QED
  BY <1>1, <1>2, <1>4, <1>5, <1>6, Finite, Numbers DEF Counted, CountCovers, Held, IInv

LEMMA StopCounted ==
    ASSUME IInv, Counted, NEW c \in Clients, StopSess(c)
    PROVE  Counted'
<1>1. /\ seeking' = seeking /\ phase' = phase /\ UNCHANGED <<pending, logins>>
      /\ slot' = [slot EXCEPT ![c] = 0] /\ slot \in [Clients -> SlotIds]
  BY DEF StopSess, search, IInv, TypeOK
<1>2. \/ count' = count
      \/ slot[c] >= 1 /\ count' = IF count > 0 THEN count - 1 ELSE 0
  BY DEF StopSess, DropSlot
<1>3. Held' = Held \ {c} /\ (slot[c] >= 1 => c \in Held)
  <2>1. slot[c] >= 1 => slot[c] > 0
    BY <1>1, ConstantsAssumption DEF SlotIds
  <2>2. QED
    BY <1>1, <2>1 DEF Held
<1>4. /\ Cardinality(Held') = IF c \in Held THEN Cardinality(Held) - 1
                              ELSE Cardinality(Held)
      /\ Cardinality(Held') \in Nat
  BY <1>3, Finite, FS_RemoveElement, FS_CardinalityType
<1>5. count' <= count /\ count' \in Nat /\ Sought' = Sought /\ Sought \in Nat
  BY <1>1, <1>2, Numbers DEF Sought, IInv
<1>6. logins + Cardinality(Clients) < CountRange => count' >= Cardinality(Held')
  BY <1>2, <1>3, <1>4, Finite, Numbers DEF Counted, CountCovers, Held, IInv
<1>7. count' + Sought' <= logins + Cardinality(Clients \ pending)
  BY <1>5, Finite, Numbers DEF Counted, IInv
<1>8. phase = "down" => count' = 0
  BY <1>5, Numbers DEF Counted, IInv
<1>9. QED
  BY <1>1, <1>6, <1>7, <1>8 DEF Counted, CountCovers, Held

LEMMA EndCounted == ASSUME IInv, End PROVE Counted'
<1>1. /\ count' = 0 /\ seeking' = NoClient /\ logins' = logins
      /\ slot' = [c \in Clients |-> 0] /\ pending' = {}
  BY DEF End
<1>2. Held' = {} /\ Sought' = 0
  BY <1>1 DEF Held, Sought
<1>3. Cardinality(Held') = 0 /\ Clients \ pending' = Clients
  BY <1>1, <1>2, FS_EmptySet
<1>4. QED
  BY <1>1, <1>2, <1>3, Finite, Numbers DEF Counted, CountCovers, Held, IInv

(* Before its first row is restored a process has counted nothing.         *)
LEMMA BootCounted == ASSUME IInv, Counted, Boot PROVE Counted'
<1>1. /\ phase = "down" /\ phase' = "up" /\ UNCHANGED <<count, slot, logins, seeking>>
      /\ pending' = rows /\ rows \subseteq Clients
  BY DEF Boot, search, slots, IInv, TypeOK
<1>2. seeking = NoClient /\ count = 0
  BY <1>1 DEF IInv, Seeking, Counted
<1>3. Sought' = 0 /\ Held' = Held
  BY <1>1, <1>2 DEF Sought, Held
<1>4. Cardinality(Clients \ pending') \in Nat
  BY Finite
<1>5. QED
  BY <1>1, <1>2, <1>3, <1>4, Finite, Numbers DEF Counted, CountCovers, Held, IInv

LEMMA CountedStep == IInv /\ Counted /\ [Next]_vars => Counted'
<1> SUFFICES ASSUME IInv, Counted, [Next]_vars PROVE Counted'
  OBVIOUS
<1>1. CASE AddFails
  BY <1>1, CountedSame DEF AddFails, slots, IInv
<1>2. CASE Close
  BY <1>2, CountedSame DEF Close, search, slots, IInv
<1>3. CASE End
  BY <1>3, EndCounted
<1>4. CASE Boot
  BY <1>4, BootCounted
<1>5. CASE UNCHANGED vars
  BY <1>5, CountedSame DEF vars, daemon, search, slots, IInv
<1>6. QED
  BY <1>1, <1>2, <1>3, <1>4, <1>5, LoginCounted, RestoreCounted, StopCounted,
     AddCounted DEF Next

(* The count covers the slots in use, whatever fails and restarts, as long *)
(* as it has not wrapped: the test for a full table comes in time.         *)
THEOREM CountIsEnough == Spec => []CountCovers
<1>1. Init => Counted
  <2> SUFFICES ASSUME Init PROVE Counted
    OBVIOUS
  <2>1. Held = {} /\ Sought = 0 /\ count = 0 /\ logins = 0
    BY DEF Init, Held, Sought
  <2>2. QED
    BY <2>1, FS_EmptySet, Finite DEF Counted, CountCovers, Held
<1>2. Counted => CountCovers
  BY DEF Counted
<1>3. QED
  BY <1>1, <1>2, InitInv, StepInv, CountedStep, PTL DEF Spec
=============================================================================
