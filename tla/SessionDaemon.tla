---------------------------- MODULE SessionDaemon ---------------------------
(***************************************************************************)
(* The session table of one virtual server of rahunasd, as its two threads *)
(* see it: the glib main loop that runs the XML-RPC handlers               *)
(* (src/src/rh-xmlrpc-server.c) and the polling thread that ends idle and  *)
(* expired sessions (src/src/rahunasd.c).                                  *)
(*                                                                         *)
(* A session lives in three places, one per task of the task list          *)
(* (src/src/rh-task.c): the member list (MEMSET), the kernel's address set *)
(* that lets the client's packets through (IPSET) and the backup table     *)
(* (DBSET).  A start runs the tasks in that order, a stop in the opposite  *)
(* order, and every task is a step of its own: the unlocked walk of the    *)
(* polling thread and the death of the process fall between them.          *)
(*                                                                         *)
(* Client addresses are the ids iptoid() makes of them: an address inside  *)
(* the set's range has an id of its own in Pool, every other one has       *)
(* BadId, (uint32_t)-1, which no later test rejects.                       *)
(***************************************************************************)
EXTENDS Naturals

CONSTANTS
    Pool,          \* ids of the addresses of the set, 0 .. v_map->size - 1
    BadId,         \* the id of any other address
    Macs,          \* MAC addresses
    NoMac,         \* the MAC of no request
    TimeLimits,    \* Session-Timeout values a login may carry, 0 is none
    IdleTimeout,   \* idle_timeout of the virtual server
    DbReliable,    \* every SQL statement is executed
    MaxTime,       \* bound: the clock stops here
    MaxSessions,   \* bound: sessions ever started
    MaxDowns       \* bound: times the process ends

ASSUME ConstantsAssumption ==
    /\ BadId \notin Pool
    /\ NoMac \notin Macs
    /\ TimeLimits \subseteq Nat
    /\ IdleTimeout \in Nat
    /\ DbReliable \in BOOLEAN
    /\ MaxTime \in Nat
    /\ MaxSessions \in Nat
    /\ MaxDowns \in Nat

Ids == Pool \cup {BadId}
Threads == {"main", "poll"}
SessionIds == 1 .. MaxSessions
Labels == {"idle", "startKernel", "startDb", "stopKernel", "stopMem", "wait",
           "snap", "first", "walk", "report", "stop"}

VARIABLES
    up,        \* the process runs and has finished its initialisation
    holder,    \* the thread that holds RHMtxLock, or "none"
    pc,        \* where each thread is
    req,       \* the task_req each thread passes to the tasks
    members,   \* vs->v_map->members
    kset,      \* the kernel's set
    db,        \* the rows of dbset
    snap,      \* the polling thread's copy of the kernel's set
    runner,    \* the node the polling thread visits next, 0 is NULL
    now,       \* time(NULL)
    lastSess,  \* number of sessions started so far
    downs,     \* number of times the process has ended
    granted    \* history: sessions greeted, and not stopped since

vars == <<up, holder, pc, req, members, kset, db, snap, runner, now,
          lastSess, downs, granted>>
environment == <<now, downs>>
walk == <<snap, runner>>

-----------------------------------------------------------------------------
(* The data.  rank tells the age of a list node: a freed node's rank is    *)
(* never used again in the process.                                        *)

Limits == {0} \cup {t + l : t \in 0 .. MaxTime, l \in TimeLimits}
Session == [id : Ids, mac : Macs, sess : SessionIds, limit : Limits]
Member == [id : Ids, mac : Macs, sess : SessionIds, limit : Limits,
           rank : SessionIds]
KernelEntry == [id : Pool, mac : Macs, ts : Nat]
Request == [id : Ids, mac : Macs \cup {NoMac}, sess : 0 .. MaxSessions,
            limit : Limits]

SessionOf(m) == [id |-> m.id, mac |-> m.mac, sess |-> m.sess,
                 limit |-> m.limit]
StopReq(i, mac) == [id |-> i, mac |-> mac, sess |-> 0, limit |-> 0]
NoReq == StopReq(BadId, NoMac)

MembersAt(i) == {m \in members : m.id = i}
SessAt(i) == {m.sess : m \in MembersAt(i)}

(* A new node is compared while its id is still 0: it goes to the head of  *)
(* the list, but behind the node of BadId, whose id is the largest.        *)
Ahead(m, n) ==
    \/ m.id = BadId
    \/ n.id # BadId /\ m.rank > n.rank

RunToFirst(S) ==
    \/ S = {} /\ runner' = 0
    \/ \E m \in S : (\A n \in S \ {m} : Ahead(m, n)) /\ runner' = m.rank

(* The kernel's set keys its entries by address; an address out of its     *)
(* range, or one that is there already, is refused, and the refusal is     *)
(* ignored.                                                                *)
KernelAddAnywhere(S, i, mac) ==    \* mutant: any id is an address of the set
    S \cup {[id |-> i, mac |-> mac, ts |-> now]}

KernelAdd(S, i, mac) ==
    IF i \in Pool /\ \A e \in S : e.id # i
    THEN S \cup {[id |-> i, mac |-> mac, ts |-> now]}
    ELSE S

KernelDelFails(S, i) == S    \* mutant: the kernel refuses, nobody looks

KernelDel(S, i) == {e \in S : e.id # i}

(* The primary key of dbset is the virtual server, the address and the     *)
(* MAC: an INSERT that repeats one fails, and the failure is ignored.      *)
SqlInsert(r) ==
    \/ db' = IF \E q \in db : q.id = r.id /\ q.mac = r.mac
             THEN db ELSE db \cup {r}
    \/ ~DbReliable /\ db' = db

SqlDelete(sessions) ==
    \/ db' = {r \in db : r.sess \notin sessions}
    \/ ~DbReliable /\ db' = db

-----------------------------------------------------------------------------
Resting == [t \in Threads |-> IF t = "main" THEN "idle" ELSE "wait"]

Init ==
    /\ up = FALSE
    /\ holder = "none"
    /\ pc = Resting
    /\ req = [t \in Threads |-> NoReq]
    /\ members = {}
    /\ kset = {}
    /\ db = {}
    /\ snap = {}
    /\ runner = 0
    /\ now = 0
    /\ lastSess = 0
    /\ downs = 0
    /\ granted = {}

(* Thread t moves to l; the next two also take and give back RHMtxLock. *)
Goto(t, l) == pc' = [pc EXCEPT ![t] = l]

EnterUnlocked(t, from, to) ==    \* mutant: RHMtxLock is not waited for
    /\ pc[t] = from
    /\ holder' = t
    /\ Goto(t, to)

Enter(t, from, to) ==
    /\ pc[t] = from
    /\ holder = "none"
    /\ holder' = t
    /\ Goto(t, to)

Leave(t, from, to) ==
    /\ pc[t] = from
    /\ holder' = "none"
    /\ Goto(t, to)
    /\ req' = [req EXCEPT ![t] = NoReq]

-----------------------------------------------------------------------------
(* do_startsession: a client that has a member is greeted with that        *)
(* member's data and nothing changes; for any other the tasks run.         *)

KnownPair(i, mac) ==    \* mutant: a client is an address and a MAC
    \E m \in MembersAt(i) : m.mac = mac

Known(i, mac) == MembersAt(i) # {}

RpcStart(i, mac, limit) ==
    /\ up
    /\ ~Known(i, mac)
    /\ lastSess < MaxSessions
    /\ Enter("main", "idle", "startKernel")
    /\ LET s == [id |-> i, mac |-> mac, sess |-> lastSess + 1,
                 limit |-> IF limit = 0 THEN 0 ELSE now + limit]
       IN /\ req' = [req EXCEPT !["main"] = s]
          /\ members' = members \cup
                {[id |-> s.id, mac |-> s.mac, sess |-> s.sess,
                  limit |-> s.limit, rank |-> s.sess]}
    /\ lastSess' = lastSess + 1
    /\ UNCHANGED <<up, kset, db, walk, environment, granted>>

StartKernel ==
    /\ pc["main"] = "startKernel"
    /\ kset' = KernelAdd(kset, req["main"].id, req["main"].mac)
    /\ Goto("main", "startDb")
    /\ UNCHANGED <<up, holder, req, members, db, walk, environment, lastSess,
                   granted>>

StartDb ==
    /\ Leave("main", "startDb", "idle")
    /\ SqlInsert(req["main"])
    /\ granted' = granted \cup {req["main"].sess}
    /\ UNCHANGED <<up, members, kset, walk, environment, lastSess>>

-----------------------------------------------------------------------------
(* rh_task_stopsess, the last task first.  do_stopsession calls it only    *)
(* when the caller's MAC is the member's.                                  *)

RpcStop(i, mac) ==
    /\ up
    /\ \E m \in MembersAt(i) : m.mac = mac
    /\ Enter("main", "idle", "stopKernel")
    /\ req' = [req EXCEPT !["main"] = StopReq(i, mac)]
    /\ SqlDelete(SessAt(i))
    /\ granted' = granted \ SessAt(i)
    /\ UNCHANGED <<up, members, kset, walk, environment, lastSess>>

StopKernel(t) ==
    /\ pc[t] = "stopKernel"
    /\ kset' = KernelDel(kset, req[t].id)
    /\ Goto(t, "stopMem")
    /\ UNCHANGED <<up, holder, req, members, db, walk, environment, lastSess,
                   granted>>

StopMem(t) ==
    /\ Leave(t, "stopMem", IF t = "main" THEN "idle" ELSE "walk")
    /\ members' = members \ MembersAt(req[t].id)
    /\ UNCHANGED <<up, kset, db, walk, environment, lastSess, granted>>

-----------------------------------------------------------------------------
(* The polling thread: polling() wakes it from the main loop unless a      *)
(* round is running, walk_through_set copies the kernel's set under the    *)
(* lock, and expired_check walks the member list without it.               *)

Polling ==
    /\ up
    /\ pc["main"] = "idle"
    /\ pc["poll"] = "wait"
    /\ Goto("poll", "snap")
    /\ UNCHANGED <<up, holder, req, members, kset, db, walk, environment,
                   lastSess, granted>>

PollSnapshot ==
    /\ pc["poll"] = "snap"
    /\ holder = "none"
    /\ snap' = kset
    /\ Goto("poll", "first")
    /\ UNCHANGED <<up, holder, req, members, kset, db, runner, environment,
                   lastSess, granted>>

(* The kernel answers EAGAIN and the round ends. *)
PollSnapshotFails ==
    /\ pc["poll"] = "snap"
    /\ holder = "none"
    /\ Goto("poll", "wait")
    /\ UNCHANGED <<up, holder, req, members, kset, db, walk, environment,
                   lastSess, granted>>

PollFirst ==
    /\ pc["poll"] = "first"
    /\ RunToFirst(members)
    /\ Goto("poll", "walk")
    /\ UNCHANGED <<up, holder, req, members, kset, db, snap, environment,
                   lastSess, granted>>

Idle(e) == now - e.ts > IdleTimeout
Expired(limit) == limit # 0 /\ now > limit

(* One turn of the loop for a member read as id i, its time over or not:   *)
(* the copied entry decides, the loop goes on if there is nothing to do.   *)
JudgeExpired(i, over) ==    \* mutant: only an idle client's time is looked at
    LET due == {e \in snap : e.id = i /\ Idle(e) /\ over}
    IN IF due = {}
       THEN UNCHANGED <<pc, req>>
       ELSE /\ Goto("poll", "report")
            /\ \E e \in due :
                   req' = [req EXCEPT !["poll"] = StopReq(i, e.mac)]

JudgeOver(i, over) ==    \* mutant: only the session's time counts
    LET due == {e \in snap : e.id = i /\ over}
    IN IF due = {}
       THEN UNCHANGED <<pc, req>>
       ELSE /\ Goto("poll", "report")
            /\ \E e \in due :
                   req' = [req EXCEPT !["poll"] = StopReq(i, e.mac)]

Judge(i, over) ==
    LET due == {e \in snap : e.id = i /\ (Idle(e) \/ over)}
    IN IF due = {}
       THEN UNCHANGED <<pc, req>>
       ELSE /\ Goto("poll", "report")
            /\ \E e \in due :
                   req' = [req EXCEPT !["poll"] = StopReq(i, e.mac)]

Visit(m) ==
    /\ RunToFirst({n \in members \ {m} : ~Ahead(n, m)})
    /\ Judge(m.id, Expired(m.limit))

PollVisit ==
    /\ pc["poll"] = "walk"
    /\ \E m \in members : m.rank = runner /\ Visit(m)
    /\ UNCHANGED <<up, holder, members, kset, db, snap, environment, lastSess,
                   granted>>

PollDone ==
    /\ pc["poll"] = "walk"
    /\ runner = 0
    /\ Goto("poll", "wait")
    /\ snap' = {}
    /\ UNCHANGED <<up, holder, req, members, kset, db, runner, environment,
                   lastSess, granted>>

(* send_xmlrpc_stopacct: a blocking call to the web server, no lock held,  *)
(* its result ignored.                                                     *)
PollReport ==
    /\ pc["poll"] = "report"
    /\ Goto("poll", "stop")
    /\ UNCHANGED <<up, holder, req, members, kset, db, walk, environment,
                   lastSess, granted>>

(* The lock is taken, and whoever is at that id by now is stopped. *)
PollStop ==
    /\ Enter("poll", "stop", "stopKernel")
    /\ SqlDelete(SessAt(req["poll"].id))
    /\ granted' = granted \ SessAt(req["poll"].id)
    /\ UNCHANGED <<up, req, members, kset, walk, environment, lastSess>>

-----------------------------------------------------------------------------
(* The process ends and starts again. *)

Die ==
    /\ up
    /\ downs < MaxDowns
    /\ downs' = downs + 1
    /\ up' = FALSE
    /\ holder' = "none"
    /\ pc' = Resting
    /\ req' = [t \in Threads |-> NoReq]
    /\ members' = {}
    /\ snap' = {}
    /\ runner' = 0
    /\ UNCHANGED <<now, lastSess>>

Crash ==
    /\ Die
    /\ UNCHANGED <<kset, db, granted>>

(* The node of runner was freed by the main thread.  Undefined behaviour:  *)
(* the allocator has overwritten it, so the process dies, or takes some    *)
(* memory for a member and finds no next node, or sees the newer member    *)
(* whose node took the place of the freed one.                             *)
PollVisitFreed ==
    /\ pc["poll"] = "walk"
    /\ runner # 0
    /\ \A m \in members : m.rank # runner
    /\ \/ Crash
       \/ /\ \/ /\ runner' = 0
                /\ \E i \in Ids, over \in BOOLEAN : Judge(i, over)
             \/ \E m \in members : m.rank > runner /\ Visit(m)
          /\ UNCHANGED <<up, holder, members, kset, db, snap, environment,
                         lastSess, granted>>

(* SIGTERM while no thread holds the lock: rh_exit stops every session,    *)
(* flushes the kernel's set and the process exits.                         *)
Shutdown ==
    /\ holder = "none"
    /\ Die
    /\ SqlDelete({m.sess : m \in members})
    /\ kset' = {}
    /\ granted' = {}

(* The same, but the kernel answers EAGAIN: walk_through_set gives up, no  *)
(* session is stopped, and only the kernel's set is flushed.               *)
ShutdownUnread ==
    /\ holder = "none"
    /\ Die
    /\ kset' = {}
    /\ UNCHANGED <<db, granted>>

(* main: the set is flushed and DBSET starts a session for every row.  A   *)
(* second row for an address finds the member there and overwrites it,     *)
(* while the kernel keeps the entry of the first one.  Which row comes     *)
(* first, and so the order of the list, is the database's choice.          *)
SavedInside == {r.id : r \in db} \cap Pool    \* mutant: others are skipped

SavedIds == {r.id : r \in db}

RestoreOver(first, last, rank) ==    \* mutant: the set was not flushed
    /\ \A i \in SavedIds : first[i].id = i /\ last[i].id = i
    /\ members' = {[id |-> i, mac |-> last[i].mac, sess |-> last[i].sess,
                    limit |-> last[i].limit, rank |-> rank[i]] : i \in SavedIds}
    /\ kset' = kset \cup {[id |-> i, mac |-> first[i].mac, ts |-> now] :
                             i \in {j \in SavedIds \cap Pool :
                                      \A e \in kset : e.id # j}}

Restore(first, last, rank) ==
    /\ \A i \in SavedIds :
         /\ first[i].id = i
         /\ last[i].id = i
         /\ first[i] = last[i] => \A r \in db : r.id = i => r = last[i]
         /\ \A j \in SavedIds : i # j => rank[i] # rank[j]
    /\ members' = {[id |-> i, mac |-> last[i].mac, sess |-> last[i].sess,
                    limit |-> last[i].limit, rank |-> rank[i]] : i \in SavedIds}
    /\ kset' = {[id |-> i, mac |-> first[i].mac, ts |-> now] :
                   i \in SavedIds \cap Pool}

Restart ==
    /\ ~up
    /\ up' = TRUE
    /\ \E first, last \in [SavedIds -> db],
          rank \in [SavedIds -> {r.sess : r \in db}] :
             Restore(first, last, rank)
    /\ UNCHANGED <<holder, pc, req, db, walk, environment, lastSess, granted>>

-----------------------------------------------------------------------------
(* The client's packets refresh the kernel's timestamp, and time passes. *)

Traffic(e) ==
    /\ e.ts # now
    /\ kset' = (kset \ {e}) \cup {[e EXCEPT !.ts = now]}
    /\ UNCHANGED <<up, holder, pc, req, members, db, walk, environment,
                   lastSess, granted>>

Tick ==
    /\ now < MaxTime
    /\ now' = now + 1
    /\ UNCHANGED <<up, holder, pc, req, members, kset, db, walk, lastSess,
                   downs, granted>>

Next ==
    \/ \E i \in Ids, mac \in Macs, limit \in TimeLimits :
          RpcStart(i, mac, limit)
    \/ StartKernel
    \/ StartDb
    \/ \E i \in Ids, mac \in Macs : RpcStop(i, mac)
    \/ \E t \in Threads : StopKernel(t) \/ StopMem(t)
    \/ Polling
    \/ PollSnapshot
    \/ PollSnapshotFails
    \/ PollFirst
    \/ PollVisit
    \/ PollVisitFreed
    \/ PollDone
    \/ PollReport
    \/ PollStop
    \/ Crash
    \/ Shutdown
    \/ ShutdownUnread
    \/ Restart
    \/ \E e \in kset : Traffic(e)
    \/ Tick

Spec == Init /\ [][Next]_vars

(* Both threads run to the end of what they have begun, the timer of the   *)
(* main loop fires again and again, the kernel does not refuse the copy of *)
(* its set for ever, and the supervisor restarts a process that crashed.   *)
(* (A crash leaves the kernel's set as it is; an orderly exit empties it,  *)
(* and nobody need start the daemon again.)                                *)
Fairness ==
    /\ WF_vars(StartKernel) /\ WF_vars(StartDb)
    /\ \A t \in Threads : WF_vars(StopKernel(t)) /\ WF_vars(StopMem(t))
    /\ WF_vars(Polling) /\ SF_vars(PollSnapshot) /\ WF_vars(PollFirst)
    /\ WF_vars(PollVisit) /\ WF_vars(PollVisitFreed) /\ WF_vars(PollDone)
    /\ WF_vars(PollReport) /\ WF_vars(PollStop)
    /\ WF_vars(kset # {} /\ Restart)

FairSpec == Spec /\ Fairness
-----------------------------------------------------------------------------

Starting == pc["main"] \in {"startKernel", "startDb"}
Stopping(t) == pc[t] \in {"stopKernel", "stopMem"}

(* The variables have their types; the request of a start names a session. *)
TypeOK ==
    /\ up \in BOOLEAN
    /\ holder \in Threads \cup {"none"}
    /\ pc \in [Threads -> Labels]
    /\ req \in [Threads -> Request]
    /\ Starting => req["main"] \in Session
    /\ members \subseteq Member
    /\ kset \subseteq KernelEntry
    /\ db \subseteq Session
    /\ snap \subseteq KernelEntry
    /\ runner \in 0 .. MaxSessions
    /\ now \in 0 .. MaxTime
    /\ lastSess \in 0 .. MaxSessions
    /\ downs \in 0 .. MaxDowns
    /\ granted \subseteq SessionIds

Quiescent == up /\ holder = "none"

(* A client address has one member at most, whatever logins, polling       *)
(* rounds and restarts did before: the lookup of do_startsession and the   *)
(* insertion of MEMSET stay under one lock, and a restart merges rows that *)
(* name the same address.                                                  *)
UniqueClient ==
    \A m, n \in members :
        m.id = n.id \/ m.sess = n.sess \/ m.rank = n.rank => m = n

(* As long as the daemon runs, no address is let through by the kernel     *)
(* without a member that the polling thread can end: MEMSET comes before   *)
(* IPSET in a start and after it in a stop.                                *)
NoGhostAccess == up => \A e \in kset : MembersAt(e.id) # {}

(* Whenever nobody holds the lock, the kernel lets through exactly the     *)
(* members, each with the MAC it logged in with: every started task        *)
(* sequence has been completed or its remains removed by the restart.      *)
KernelMirrorsMembers ==
    Quiescent =>
        {<<e.id, e.mac>> : e \in kset} =
            {<<m.id, m.mac>> : m \in {n \in members : n.id \in Pool}}

(* Whenever nobody holds the lock, the sessions served are those whose     *)
(* login was answered with a greeting and that nobody has stopped, be it   *)
(* across crashes: none is lost, none comes back.                          *)
GreetedAreServed ==
    Quiescent => granted = {m.sess : m \in members}

(* A session whose time is over ends, even if the process crashes first:   *)
(* the timer wakes the polling thread, whose round reaches the member and  *)
(* gets the lock.  (A session at BadId has no kernel entry, and the loop   *)
(* passes over it for ever; one that an orderly exit did not stop waits    *)
(* for the administrator.)                                                 *)
ExpiredSessionsEnd ==
    \A s \in SessionIds :
        (\E r \in db \cup {SessionOf(m) : m \in members} :
              r.sess = s /\ r.id \in Pool /\ Expired(r.limit))
            ~> \/ up /\ \A m \in members : m.sess # s
               \/ ~up /\ kset = {}

(* A client silent for longer than idle_timeout is cut off, or sends       *)
(* again, or a restart has renewed its entry.                              *)
IdleAt(i) == \E e \in kset : e.id = i /\ Idle(e)
IdleClientsEnd == \A i \in Pool : IdleAt(i) ~> ~IdleAt(i)

(* The daemon keeps the promise of SessionTable: the served sessions are   *)
(* the member list, the recorded ones the rows of dbset.                   *)
Table == INSTANCE SessionTable
             WITH Sessions <- Session,
                  served <- {SessionOf(m) : m \in members},
                  recorded <- db
ImplementsTable == Table!Spec

-----------------------------------------------------------------------------
(* The next two do not hold of the code. *)

(* The polling thread never follows a node the main thread has freed.      *)
(* ChangeLog:460 says the member deleted during a polling round no longer  *)
(* stops the process.                                                      *)
PollReadsLiveNodes ==
    pc["poll"] = "walk" /\ runner # 0 => \E m \in members : m.rank = runner

(* The polling thread ends a session only if it is due, or belongs at      *)
(* least to the client whose entry was judged: the log calls every other   *)
(* one idle by name too (rh-task-memset.c:219).                            *)
PollStopsOnlyTheDue ==
    [][pc["poll"] = "stop" /\ pc'["poll"] = "stopKernel" =>
          \A m \in MembersAt(req["poll"].id) :
              \/ IdleAt(m.id) \/ Expired(m.limit)
              \/ m.mac = req["poll"].mac]_vars
=============================================================================
