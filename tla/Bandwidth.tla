------------------------------ MODULE Bandwidth ------------------------------
(***************************************************************************)
(* The BANDWIDTH task (src/src/rh-task-bandwidth.c) on one interface: the  *)
(* slots it deals to the members whose login carries a bandwidth limit,    *)
(* and the traffic classes the wrapper script (tools/rahunas-bandwidth.in) *)
(* makes of them in the kernel.                                            *)
(*                                                                         *)
(* A start and a stop of a session run under RHMtxLock, so one session is  *)
(* dealt with at a time; the search for a slot is a step of its own, since *)
(* it may find none and go on for ever.  The script outlives the daemon: a *)
(* file in /var/run tells it that the interface is set up.                 *)
(***************************************************************************)
EXTENDS Naturals, FiniteSets

CONSTANTS
    Clients,      \* addresses
    NoClient,     \* nobody
    Rates,        \* limits a login may carry, down and up in one; 0 is none
    MaxSlotId,    \* MAX_SLOT_ID
    CountRange,   \* slot_count is an unsigned short: 2^16
    MaxLogins,    \* bound: logins ever answered
    MaxFailures   \* bound: calls of the script that print NOT COMPLETED

ASSUME ConstantsAssumption ==
    /\ NoClient \notin Clients
    /\ IsFiniteSet(Clients)
    /\ Rates \subseteq Nat
    /\ MaxSlotId \in Nat
    /\ CountRange \in Nat \ {0}
    /\ MaxLogins \in Nat
    /\ MaxFailures \in Nat

(* random() / (2^31 / (MaxSlotId + 1)) reaches one more than MaxSlotId. *)
SlotIds == 0 .. MaxSlotId + 1

VARIABLES
    phase,      \* the process: "down", "up", or "closing", in rh_exit with
                \* the interface freed
    online,     \* members
    rate,       \* their limits, in the member list and in dbset
    rows,       \* clients with a row of dbset
    pending,    \* rows not yet restored
    seeking,    \* the client a slot is sought for
    tries,      \* max_try
    slot,       \* bandwidth_slot_id of each member
    flags,      \* slot_flags
    count,      \* slot_count, an unsigned short
    ready,      \* iface->init
    run,        \* the script's run file
    classes,    \* tc classes, a slot and a rate
    filters,    \* tc filters, a slot and a client
    logins, failures

daemon == <<phase, online, rate, rows, pending>>
search == <<seeking, tries>>
slots == <<slot, flags, count>>
kernel == <<run, classes, filters>>
vars == <<daemon, search, slots, ready, kernel, logins, failures>>

Init ==
    /\ phase = "down"
    /\ online = {}
    /\ rate = [c \in Clients |-> 0]
    /\ rows = {}
    /\ pending = {}
    /\ seeking = NoClient
    /\ tries = 0
    /\ slot = [c \in Clients |-> 0]
    /\ flags = {0}
    /\ count = 0
    /\ ready = FALSE
    /\ run = FALSE
    /\ classes = {}
    /\ filters = {}
    /\ logins = 0
    /\ failures = 0

-----------------------------------------------------------------------------
(* Starting a session.  A member without a limit passes; for any other a   *)
(* slot is sought, three times at most, and DBSET makes the row in any     *)
(* case.                                                                   *)

Serving == phase = "up" /\ pending = {} /\ seeking = NoClient

StartSess(c, r) ==
    /\ online' = online \cup {c}
    /\ IF r = 0
       THEN rows' = rows \cup {c} /\ UNCHANGED search
       ELSE seeking' = c /\ tries' = 3 /\ UNCHANGED rows

Login(c, r) ==
    /\ Serving
    /\ c \notin online
    /\ logins < MaxLogins
    /\ logins' = logins + 1
    /\ rate' = [rate EXCEPT ![c] = r]
    /\ StartSess(c, r)
    /\ UNCHANGED <<phase, pending, slots, ready, kernel, failures>>

RestoreRow(c) ==
    /\ phase = "up"
    /\ seeking = NoClient
    /\ c \in pending
    /\ pending' = pending \ {c}
    /\ StartSess(c, rate[c])
    /\ UNCHANGED <<phase, rate, slots, ready, kernel, logins, failures>>

(* _get_slot_id: what it may return.  If nothing is free and the count is  *)
(* below the maximum it does not return.                                   *)
FreeSlots == IF count >= MaxSlotId THEN {0} ELSE SlotIds \ flags

MarkCounted(s) ==    \* mutant: the slot is counted and not marked
    /\ count' = (count + 1) % CountRange
    /\ UNCHANGED flags

mark_reserved_slot_id(s) ==
    /\ count' = (count + 1) % CountRange
    /\ flags' = flags \cup {s}

(* bw_add: a class that is there already, or no class 1:0, is refused, and *)
(* without the qdisc everything is; the script reports success.            *)
bw_add(s, c) ==
    IF run
    THEN /\ classes' = IF s = 0 \/ \E k \in classes : k.slot = s
                       THEN classes
                       ELSE classes \cup {[slot |-> s, rate |-> rate[c]]}
         /\ filters' = filters \cup {[slot |-> s, client |-> c]}
    ELSE UNCHANGED <<classes, filters>>

AddSlot(s) ==
    /\ seeking # NoClient
    /\ s \in FreeSlots
    /\ bw_add(s, seeking)
    /\ mark_reserved_slot_id(s)
    /\ slot' = [slot EXCEPT ![seeking] = s]
    /\ rows' = rows \cup {seeking}
    /\ seeking' = NoClient
    /\ tries' = 0
    /\ UNCHANGED <<phase, online, rate, pending, ready, run, logins, failures>>

ScriptFails ==
    /\ failures < MaxFailures
    /\ failures' = failures + 1

RetryTooOften ==    \* mutant: the tries are counted one too far
    /\ seeking # NoClient
    /\ FreeSlots # {}
    /\ ScriptFails
    /\ tries' = tries - 1
    /\ IF tries = 0
       THEN rows' = rows \cup {seeking} /\ seeking' = NoClient
       ELSE UNCHANGED <<rows, seeking>>
    /\ UNCHANGED <<phase, online, rate, pending, slots, ready, kernel, logins>>

AddFails ==
    /\ seeking # NoClient
    /\ FreeSlots # {}
    /\ ScriptFails
    /\ tries' = tries - 1
    /\ IF tries = 1
       THEN rows' = rows \cup {seeking} /\ seeking' = NoClient
       ELSE UNCHANGED <<rows, seeking>>
    /\ UNCHANGED <<phase, online, rate, pending, slots, ready, kernel, logins>>

-----------------------------------------------------------------------------
(* Stopping a session.  MEMSET removes the member whatever this task says. *)

(* bw_del finds the filters by their class, and fails on more than one. *)
bw_del(s) ==
    IF Cardinality({f \in filters : f.slot = s}) = 1
    THEN /\ filters' = {f \in filters : f.slot # s}
         /\ classes' = {k \in classes : k.slot # s}
    ELSE UNCHANGED <<filters, classes>>

DropAnyway(c) ==    \* mutant: the slot is free again, deleted or not
    \/ /\ bw_del(slot[c])
       /\ count' = IF count > 0 THEN count - 1 ELSE 0
       /\ flags' = flags \ {slot[c]}
       /\ UNCHANGED failures
    \/ /\ ScriptFails
       /\ count' = IF count > 0 THEN count - 1 ELSE 0
       /\ flags' = flags \ {slot[c]}
       /\ UNCHANGED <<classes, filters>>

DropAlways(c) ==    \* mutant: also a member without a slot gives one back
    /\ bw_del(slot[c])
    /\ count' = IF count > 0 THEN count - 1 ELSE 0
    /\ UNCHANGED <<flags, failures>>

(* In rh_exit the names of the devices are read from the interface that    *)
(* cleanup has freed: they may be the old ones still, or no names of a     *)
(* device, and then the script prints NOT COMPLETED.                       *)
DropSlot(c) ==
    \/ /\ slot[c] < 1 \/ phase = "closing"
       /\ UNCHANGED <<flags, count, classes, filters, failures>>
    \/ /\ slot[c] >= 1
       /\ bw_del(slot[c])
       /\ count' = IF count > 0 THEN count - 1 ELSE 0
       /\ UNCHANGED <<flags, failures>>
    \/ /\ slot[c] >= 1
       /\ ScriptFails
       /\ UNCHANGED <<flags, count, classes, filters>>

StopSess(c) ==
    /\ c \in online
    /\ seeking = NoClient
    /\ Serving \/ phase = "closing"
    /\ rows' = rows \ {c}
    /\ DropSlot(c)
    /\ online' = online \ {c}
    /\ slot' = [slot EXCEPT ![c] = 0]
    /\ UNCHANGED <<phase, rate, pending, search, ready, run, logins>>

-----------------------------------------------------------------------------
(* The life of the process.  rh_exit cleans the tasks up from the last to  *)
(* the first: this task stops the shaping and frees the interface, then    *)
(* IPSET stops the sessions its set lists, if the set can be read, then    *)
(* MEMSET frees the members.  A crash leaves the kernel and the run file   *)
(* as they are.                                                            *)

bandwidth_stop ==
    \/ /\ ready /\ run
       /\ run' = FALSE /\ classes' = {} /\ filters' = {}
       /\ UNCHANGED failures
    \/ /\ ready
       /\ ScriptFails
       /\ UNCHANGED kernel
    \/ /\ ~ready
       /\ UNCHANGED <<kernel, failures>>

Close ==
    /\ Serving
    /\ phase' = "closing"
    /\ bandwidth_stop
    /\ ready' = FALSE
    /\ UNCHANGED <<online, rate, rows, pending, search, slots, logins>>

(* The end of rh_exit, or a crash at any moment, one by the use of the     *)
(* freed interface included.                                               *)
End ==
    /\ phase # "down"
    /\ phase' = "down"
    /\ online' = {}
    /\ pending' = {}
    /\ seeking' = NoClient
    /\ tries' = 0
    /\ slot' = [c \in Clients |-> 0]
    /\ flags' = {0}
    /\ count' = 0
    /\ ready' = FALSE
    /\ UNCHANGED <<rate, rows, kernel, logins, failures>>

(* bandwidth_start: with the run file in place the script does nothing,    *)
(* prints NOT COMPLETED, and the interface counts as not set up.           *)
bandwidth_start ==
    \/ /\ ~run
       /\ run' = TRUE
       /\ ready' = TRUE
       /\ UNCHANGED <<classes, filters, failures>>
    \/ /\ run
       /\ ready' = FALSE
       /\ UNCHANGED <<kernel, failures>>
    \/ /\ ScriptFails
       /\ ready' = FALSE
       /\ UNCHANGED kernel

Boot ==
    /\ phase = "down"
    /\ phase' = "up"
    /\ bandwidth_start
    /\ pending' = rows
    /\ UNCHANGED <<online, rate, rows, search, slots, logins>>

Next ==
    \/ \E c \in Clients, r \in Rates : Login(c, r)
    \/ \E c \in Clients : RestoreRow(c) \/ StopSess(c)
    \/ \E s \in SlotIds : AddSlot(s)
    \/ AddFails
    \/ Close \/ End \/ Boot

Spec == Init /\ [][Next]_vars

(* The search is a loop of a running thread. *)
FairSpec == Spec /\ WF_vars((\E s \in SlotIds : AddSlot(s)) \/ AddFails)
-----------------------------------------------------------------------------

TypeOK ==
    /\ phase \in {"down", "up", "closing"}
    /\ online \subseteq Clients
    /\ rate \in [Clients -> Rates \cup {0}]
    /\ rows \subseteq Clients
    /\ pending \subseteq Clients
    /\ seeking \in Clients \cup {NoClient}
    /\ tries \in 0 .. 3
    /\ slot \in [Clients -> SlotIds]
    /\ flags \subseteq SlotIds
    /\ count \in 0 .. CountRange - 1
    /\ ready \in BOOLEAN
    /\ run \in BOOLEAN
    /\ classes \subseteq [slot : SlotIds, rate : Rates \cup {0}]
    /\ filters \subseteq [slot : SlotIds, client : Clients]
    /\ logins \in 0 .. MaxLogins
    /\ failures \in 0 .. MaxFailures

(* No two members share a slot, however many have come and gone: a slot's  *)
(* flag outlives its member.                                               *)
OwnSlot ==
    \A c, d \in Clients : slot[c] > 0 /\ slot[c] = slot[d] => c = d

(* On an interface this process has set up, a member's slot leads to a     *)
(* class with the member's own limit, and nobody else's packets go there,  *)
(* whatever calls of the script failed before.                             *)
OwnClass ==
    ready => \A c \in Clients : slot[c] > 0 =>
        /\ {k.rate : k \in {l \in classes : l.slot = slot[c]}} = {rate[c]}
        /\ {f.client : f \in {g \in filters : g.slot = slot[c]}} = {c}

(* The count never falls behind the slots in use, so the test for a full   *)
(* table comes in time, as long as fewer sessions were started than an     *)
(* unsigned short counts: an answer of 0 is counted, too, and never given  *)
(* back.                                                                   *)
CountCovers ==
    logins + Cardinality(Clients) < CountRange =>
        count >= Cardinality({c \in Clients : slot[c] > 0})

-----------------------------------------------------------------------------
(* The next one does not hold of the code. *)

(* The search for a slot ends: rh-task-bandwidth.c:32 means to answer      *)
(* "Slot is full" when there is none.                                      *)
RequestEnds == seeking # NoClient ~> seeking = NoClient
=============================================================================
