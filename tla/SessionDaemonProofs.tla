------------------------- MODULE SessionDaemonProofs -------------------------
(***************************************************************************)
(* Proofs about SessionDaemon, for every set of addresses and every bound: *)
(* first what holds whatever the database does, then what the daemon keeps *)
(* while its database executes every statement, when the member list, the  *)
(* kernel's set and the rows of dbset tell one story, and SessionDaemon    *)
(* implements SessionTable.                                                *)
(***************************************************************************)
EXTENDS SessionDaemon, TLAPS

(* Who holds the lock is where its holder is. *)
Locking ==
    /\ pc["main"] \in {"idle", "startKernel", "startDb", "stopKernel",
                       "stopMem"}
    /\ holder = "main" <=> pc["main"] # "idle"
    /\ holder = "poll" <=> Stopping("poll")
    /\ ~up => members = {} /\ holder = "none" /\ pc["poll"] = "wait"

(* Session numbers are dealt once; the session of a start in progress has  *)
(* its member, and no row yet.                                             *)
Numbering ==
    /\ \A m \in members : m.sess <= lastSess /\ m.rank <= lastSess
    /\ \A r \in db : r.sess <= lastSess
    /\ \A r, q \in db : r.sess = q.sess => r = q
    /\ Starting => /\ req["main"].sess = lastSess
                   /\ \A r \in db : r.sess # lastSess
                   /\ \E m \in members : SessionOf(m) = req["main"]

(* The entry of a member being stopped is gone before the member is. *)
KernelFirst ==
    \A t \in Threads :
        pc[t] = "stopMem" => \A e \in kset : e.id # req[t].id

IInv == TypeOK /\ Locking /\ Numbering /\ UniqueClient
            /\ NoGhostAccess /\ KernelFirst
-----------------------------------------------------------------------------
(* The variables have their types. *)

LEMMA MoveType ==
    ASSUME TypeOK, NEW S, S \subseteq members, RunToFirst(S)
    PROVE  runner' \in 0 .. MaxSessions
BY ConstantsAssumption DEF RunToFirst, TypeOK, Member, SessionIds

LEMMA StopReqType ==
    ASSUME NEW i \in Ids, NEW mac \in Macs \cup {NoMac}
    PROVE  StopReq(i, mac) \in Request
BY ConstantsAssumption DEF StopReq, Request, Limits

LEMMA NoReqType == NoReq \in Request
BY StopReqType DEF NoReq, Ids

LEMMA RestType ==
    /\ Resting \in [Threads -> Labels]
    /\ Resting["main"] = "idle" /\ Resting["poll"] = "wait"
    /\ [t \in Threads |-> NoReq] \in [Threads -> Request]
<1> HIDE DEF NoReq
<1>1. QED
  BY NoReqType DEF Resting, Threads, Labels

LEMMA JudgeType ==
    ASSUME TypeOK, NEW i \in Ids, NEW over, Judge(i, over)
    PROVE  /\ pc' \in [Threads -> Labels]
           /\ req' \in [Threads -> Request]
           /\ pc'["main"] = pc["main"] /\ req'["main"] = req["main"]
           /\ pc'["poll"] \in {pc["poll"], "report"}
<1>1. CASE UNCHANGED <<pc, req>>
  BY <1>1 DEF TypeOK
<1>2. ASSUME Goto("poll", "report"), NEW e \in snap,
             req' = [req EXCEPT !["poll"] = StopReq(i, e.mac)]
      PROVE  /\ pc' \in [Threads -> Labels]
             /\ req' \in [Threads -> Request]
             /\ pc'["main"] = pc["main"] /\ req'["main"] = req["main"]
             /\ pc'["poll"] = "report"
  <2>1. StopReq(i, e.mac) \in Request
    BY StopReqType DEF TypeOK, KernelEntry
  <2>2. QED
    BY <1>2, <2>1 DEF Goto, TypeOK, Labels, Threads
<1>3. QED
  BY <1>1, <1>2 DEF Judge

(* The judged member or the garbage read for one, and the next node. *)
LEMMA VisitType ==
    ASSUME TypeOK, NEW m \in members, Visit(m)
    PROVE  /\ runner' \in 0 .. MaxSessions
           /\ pc' \in [Threads -> Labels]
           /\ req' \in [Threads -> Request]
           /\ pc'["main"] = pc["main"] /\ req'["main"] = req["main"]
           /\ pc'["poll"] \in {pc["poll"], "report"}
<1>1. m.id \in Ids
  BY DEF TypeOK, Member
<1>2. QED
  BY <1>1, MoveType, JudgeType DEF Visit

(* Death leaves both threads at rest. *)
LEMMA DieType ==
    ASSUME TypeOK, Die, kset' \subseteq KernelEntry, db' \subseteq Session,
           granted' \subseteq SessionIds
    PROVE  TypeOK'
<1>1. pc' \in [Threads -> Labels] /\ pc'["main"] = "idle"
  BY RestType DEF Die
<1>2. req' \in [Threads -> Request]
  BY RestType DEF Die
<1>3. ~Starting'
  BY <1>1 DEF Starting
<1>4. /\ up' \in BOOLEAN
      /\ holder' \in Threads \cup {"none"}
      /\ members' \subseteq Member
      /\ snap' \subseteq KernelEntry
  BY DEF Die
<1>5. /\ runner' \in 0 .. MaxSessions
      /\ now' \in 0 .. MaxTime
      /\ lastSess' \in 0 .. MaxSessions
      /\ downs' \in 0 .. MaxDowns
  BY ConstantsAssumption DEF Die, TypeOK
<1>6. QED
  BY <1>1, <1>2, <1>3, <1>4, <1>5 DEF TypeOK

LEMMA TypeStep == TypeOK /\ [Next]_vars => TypeOK'
<1> SUFFICES ASSUME TypeOK, [Next]_vars PROVE TypeOK'
    OBVIOUS
<1> USE ConstantsAssumption, NoReqType
    DEF TypeOK, Threads, Labels, walk, environment, Goto, Enter, Leave,
        Starting
<1>1. ASSUME NEW i \in Ids, NEW mac \in Macs, NEW limit \in TimeLimits,
             RpcStart(i, mac, limit)
      PROVE  TypeOK'
  <2> DEFINE s == [id |-> i, mac |-> mac, sess |-> lastSess + 1,
                   limit |-> IF limit = 0 THEN 0 ELSE now + limit]
             n == [id |-> s.id, mac |-> s.mac, sess |-> s.sess,
                   limit |-> s.limit, rank |-> s.sess]
  <2>1. lastSess + 1 \in SessionIds /\ s.limit \in Limits
    BY <1>1 DEF RpcStart, SessionIds, Limits
  <2>2. s \in Session /\ s \in Request
    BY <2>1 DEF Request, Session, SessionIds
  <2>3. n \in Member
    BY <2>1 DEF Member
  <2>4. req' = [req EXCEPT !["main"] = s] /\ members' = members \cup {n}
    BY <1>1 DEF RpcStart
  <2> HIDE DEF s, n
  <2>5. /\ req' \in [Threads -> Request] /\ req'["main"] \in Session
        /\ members' \subseteq Member
    BY <2>2, <2>3, <2>4
  <2>6. lastSess' \in 0 .. MaxSessions
    BY <1>1, <2>1 DEF RpcStart, SessionIds
  <2>7. QED
    BY <1>1, <2>5, <2>6 DEF RpcStart
<1>2. CASE StartKernel
  BY <1>2 DEF StartKernel, KernelAdd, KernelEntry, Session
<1>3. CASE StartDb
  BY <1>3 DEF StartDb, SqlInsert, Session
<1>4. ASSUME NEW i \in Ids, NEW mac \in Macs, RpcStop(i, mac)
      PROVE  TypeOK'
  BY <1>4, StopReqType DEF RpcStop, SqlDelete
<1>5. ASSUME NEW t \in Threads, StopKernel(t) PROVE TypeOK'
  BY <1>5 DEF StopKernel, KernelDel
<1>6. ASSUME NEW t \in Threads, StopMem(t) PROVE TypeOK'
  BY <1>6 DEF StopMem
<1>7. CASE Polling \/ PollSnapshot \/ PollSnapshotFails \/ PollDone
              \/ PollReport
  BY <1>7 DEF Polling, PollSnapshot, PollSnapshotFails, PollDone, PollReport
<1>8. CASE PollFirst
  BY <1>8, MoveType DEF PollFirst
<1>9. CASE PollVisit
  <2>1. PICK m \in members : Visit(m)
    BY <1>9 DEF PollVisit
  <2>2. QED
    BY <1>9, <2>1, VisitType DEF PollVisit
<1>10. CASE Crash
  BY <1>10, DieType DEF Crash
<1>11. CASE PollVisitFreed
  <2>1. CASE \E m \in members : Visit(m) /\ UNCHANGED <<up, holder, members,
                 kset, db, snap, environment, lastSess, granted>>
    BY <2>1, VisitType
  <2>2. ASSUME runner' = 0, NEW i \in Ids, NEW over, Judge(i, over),
               UNCHANGED <<up, holder, members, kset, db, snap, environment,
                           lastSess, granted>>
        PROVE  TypeOK'
    BY <2>2, JudgeType
  <2>3. QED
    BY <1>10, <1>11, <2>1, <2>2 DEF PollVisitFreed
<1>12. CASE PollStop
  BY <1>12 DEF PollStop, SqlDelete
<1>13. CASE Shutdown \/ ShutdownUnread
  BY <1>13, DieType DEF Shutdown, ShutdownUnread, SqlDelete
<1>14. CASE Restart
  <2>1. PICK first \in [SavedIds -> db], last \in [SavedIds -> db],
             rank \in [SavedIds -> {r.sess : r \in db}] :
               Restore(first, last, rank)
    BY <1>14 DEF Restart
  <2>2. SavedIds \subseteq Ids /\ {r.sess : r \in db} \subseteq SessionIds
    BY DEF Session, SavedIds
  <2>3. \A i \in SavedIds : first[i] \in Session /\ last[i] \in Session
                             /\ rank[i] \in SessionIds
    BY <2>2
  <2>4. members' \subseteq Member /\ kset' \subseteq KernelEntry
    BY <2>1, <2>2, <2>3 DEF Restore, Member, KernelEntry, Session
  <2>5. QED
    BY <1>14, <2>4 DEF Restart
<1>15. ASSUME NEW e \in kset, Traffic(e) PROVE TypeOK'
  BY <1>15 DEF Traffic, KernelEntry
<1>16. CASE Tick
  BY <1>16 DEF Tick
<1>17. CASE UNCHANGED vars
  BY <1>17 DEF vars
<1>18. QED
  BY <1>1, <1>2, <1>3, <1>4, <1>5, <1>6, <1>7, <1>8, <1>9, <1>10, <1>11,
     <1>12, <1>13, <1>14, <1>15, <1>16, <1>17 DEF Next

LEMMA TypeInit == Init => TypeOK
<1> SUFFICES ASSUME Init PROVE TypeOK
  OBVIOUS
<1>1. pc \in [Threads -> Labels] /\ ~Starting
  BY RestType DEF Init, Starting
<1>2. req \in [Threads -> Request]
  BY RestType DEF Init
<1>3. /\ holder \in Threads \cup {"none"}
      /\ runner \in 0 .. MaxSessions /\ now \in 0 .. MaxTime
      /\ lastSess \in 0 .. MaxSessions /\ downs \in 0 .. MaxDowns
  BY ConstantsAssumption DEF Init
<1>4. QED
  BY <1>1, <1>2, <1>3 DEF Init, TypeOK

(* Every reachable state has the types of TypeOK. *)
THEOREM TypeCorrect == Spec => []TypeOK
  BY TypeInit, TypeStep, PTL DEF Spec

-----------------------------------------------------------------------------
(* One member to an address, and none let through without a member.        *)

(* The polling thread walks: it touches nothing the invariant is about.    *)
LEMMA WalkStep ==
    ASSUME IInv, TypeOK', UNCHANGED <<up, holder, members, kset, db, lastSess>>,
           pc'["main"] = pc["main"], req'["main"] = req["main"],
           pc["poll"] \notin {"stopKernel", "stopMem"},
           pc'["poll"] \notin {"stopKernel", "stopMem"},
           up \/ pc'["poll"] = "wait"
    PROVE  IInv'
<1>1. Locking' /\ Numbering'
  BY DEF IInv, Locking, Numbering, Starting, Stopping
<1>2. KernelFirst'
  BY DEF IInv, KernelFirst, Threads
<1>3. UniqueClient' /\ NoGhostAccess'
  BY DEF IInv, UniqueClient, NoGhostAccess, MembersAt
<1>4. QED
  BY <1>1, <1>2, <1>3 DEF IInv

LEMMA DieStep ==
    ASSUME IInv, TypeOK', Die, db' \subseteq db
    PROVE  IInv'
<1>1. /\ up' = FALSE /\ holder' = "none" /\ members' = {}
      /\ lastSess' = lastSess
      /\ pc'["main"] = "idle" /\ pc'["poll"] = "wait"
  BY RestType DEF Die
<1>2. ~Starting' /\ ~Stopping("poll")' /\ \A t \in Threads : pc'[t] # "stopMem"
  BY <1>1 DEF Starting, Stopping, Threads
<1>3. Locking' /\ Numbering'
  BY <1>1, <1>2 DEF IInv, Locking, Numbering
<1>4. KernelFirst' /\ UniqueClient' /\ NoGhostAccess'
  BY <1>1, <1>2 DEF KernelFirst, UniqueClient, NoGhostAccess
<1>5. QED
  BY <1>3, <1>4 DEF IInv

(* A stop begins: rows go, a thread that holds the lock is at stopKernel.  *)
LEMMA StopStep ==
    ASSUME IInv, TypeOK', NEW t \in Threads, up, holder = "none", holder' = t,
           pc' = [pc EXCEPT ![t] = "stopKernel"], db' \subseteq db,
           UNCHANGED <<up, members, kset, lastSess>>
    PROVE  IInv'
<1>1. Locking'
  BY DEF IInv, TypeOK, Locking, Stopping, Threads, Labels
<1>2. Numbering'
  BY DEF IInv, TypeOK, Locking, Numbering, Starting, Threads
<1>3. KernelFirst'
  BY DEF IInv, TypeOK, Locking, Stopping, KernelFirst, Threads
<1>4. UniqueClient' /\ NoGhostAccess'
  BY DEF IInv, UniqueClient, NoGhostAccess, MembersAt
<1>5. QED
  BY <1>1, <1>2, <1>3, <1>4 DEF IInv

LEMMA SafetyStep == IInv /\ [Next]_vars => IInv'
<1> SUFFICES ASSUME IInv, [Next]_vars PROVE IInv'
    OBVIOUS
<1>0. TypeOK /\ TypeOK'
  BY TypeStep DEF IInv
<1> USE <1>0 DEF walk, environment
<1>1. ASSUME NEW i \in Ids, NEW mac \in Macs, NEW limit \in TimeLimits,
             RpcStart(i, mac, limit)
      PROVE  IInv'
  <2> DEFINE s == [id |-> i, mac |-> mac, sess |-> lastSess + 1,
                   limit |-> IF limit = 0 THEN 0 ELSE now + limit]
             n == [id |-> s.id, mac |-> s.mac, sess |-> s.sess,
                   limit |-> s.limit, rank |-> s.sess]
  <2>1. /\ up /\ MembersAt(i) = {} /\ holder = "none" /\ holder' = "main"
        /\ pc' = [pc EXCEPT !["main"] = "startKernel"]
        /\ req' = [req EXCEPT !["main"] = s]
        /\ members' = members \cup {n}
        /\ lastSess' = lastSess + 1
        /\ UNCHANGED <<up, kset, db>>
    BY <1>1 DEF RpcStart, Known, Enter, Goto
  <2>2. n.id = i /\ n.sess = lastSess + 1 /\ n.rank = lastSess + 1
        /\ SessionOf(n) = s /\ s.sess = lastSess + 1
    BY DEF SessionOf
  <2> HIDE DEF s, n
  <2>3. pc'["main"] = "startKernel" /\ pc'["poll"] = pc["poll"]
        /\ req'["main"] = s
    BY <2>1 DEF TypeOK, Threads
  <2>4. ~Stopping("poll")
    BY <2>1 DEF IInv, Locking
  <2>5. lastSess \in Nat /\ \A m \in members : m.sess \in Nat /\ m.rank \in Nat
    BY ConstantsAssumption DEF TypeOK, Member, SessionIds
  <2>6. \A r \in db : r.sess \in Nat
    BY ConstantsAssumption DEF TypeOK, Session, SessionIds
  <2>7. Locking'
    BY <2>1, <2>3, <2>4 DEF IInv, Locking, Stopping
  <2>8. Numbering'
    BY <2>1, <2>2, <2>3, <2>5, <2>6 DEF IInv, Numbering, Starting, SessionOf
  <2>9. UniqueClient'
    BY <2>1, <2>2, <2>5 DEF IInv, Numbering, UniqueClient, MembersAt
  <2>10. NoGhostAccess' /\ KernelFirst'
    BY <2>1, <2>3, <2>4
       DEF IInv, NoGhostAccess, MembersAt, KernelFirst, Threads, Stopping
  <2>11. QED
    BY <2>7, <2>8, <2>9, <2>10 DEF IInv
<1>2. CASE StartKernel
  <2>1. /\ pc["main"] = "startKernel" /\ pc'["main"] = "startDb"
        /\ pc'["poll"] = pc["poll"]
        /\ kset' = KernelAdd(kset, req["main"].id, req["main"].mac)
        /\ UNCHANGED <<up, holder, req, members, db, lastSess>>
    BY <1>2 DEF StartKernel, Goto, TypeOK, Threads, Labels
  <2>2. ~Stopping("poll")
    BY <2>1 DEF IInv, Locking
  <2>3. \A e \in kset' : e \in kset \/ e.id = req["main"].id
    BY <2>1 DEF KernelAdd
  <2>4. MembersAt(req["main"].id) # {}
    <3>1. PICK m \in members : SessionOf(m) = req["main"]
      BY <2>1 DEF IInv, Numbering, Starting
    <3>2. m.id = req["main"].id
      BY <3>1 DEF SessionOf
    <3>3. QED
      BY <3>2 DEF MembersAt
  <2>5. Locking' /\ Numbering' /\ UniqueClient' /\ KernelFirst'
    BY <2>1, <2>2 DEF IInv, Locking, Numbering, UniqueClient, KernelFirst,
                      Starting, Stopping, Threads
  <2>6. NoGhostAccess'
    BY <2>1, <2>3, <2>4 DEF IInv, NoGhostAccess, MembersAt
  <2>7. QED
    BY <2>5, <2>6 DEF IInv
<1>3. CASE StartDb
  <2>1. /\ pc["main"] = "startDb" /\ pc'["main"] = "idle" /\ holder' = "none"
        /\ pc'["poll"] = pc["poll"]
        /\ SqlInsert(req["main"])
        /\ req'["poll"] = req["poll"]
        /\ UNCHANGED <<up, members, kset, lastSess>>
    BY <1>3 DEF StartDb, Leave, Goto, TypeOK, Threads, Labels
  <2>2. \A r \in db' : r \in db \/ r = req["main"]
    BY <2>1 DEF SqlInsert
  <2>3. Numbering'
    BY <2>1, <2>2, ConstantsAssumption
       DEF IInv, Numbering, Starting, TypeOK, SessionIds
  <2>4. Locking' /\ UniqueClient' /\ KernelFirst' /\ NoGhostAccess'
    BY <2>1 DEF IInv, Locking, UniqueClient, KernelFirst, NoGhostAccess,
                MembersAt, Stopping, Threads
  <2>5. QED
    BY <2>3, <2>4 DEF IInv
<1>4. ASSUME NEW i \in Ids, NEW mac \in Macs, RpcStop(i, mac)
      PROVE  IInv'
  BY <1>4, StopStep DEF RpcStop, Enter, Goto, SqlDelete, Threads
<1>5. ASSUME NEW t \in Threads, StopKernel(t) PROVE IInv'
  <2>1. /\ pc[t] = "stopKernel" /\ pc' = [pc EXCEPT ![t] = "stopMem"]
        /\ kset' = KernelDel(kset, req[t].id)
        /\ UNCHANGED <<up, holder, req, members, db, lastSess>>
    BY <1>5 DEF StopKernel, Goto
  <2>2. \A u \in Threads \ {t} : ~Stopping(u) /\ pc'[u] = pc[u]
    BY <2>1 DEF IInv, Locking, Stopping, Threads, TypeOK
  <2>3. Locking' /\ Numbering' /\ UniqueClient'
    BY <2>1 DEF IInv, Locking, Numbering, UniqueClient, Starting, Stopping,
                TypeOK, Threads, Labels
  <2>4. KernelFirst' /\ NoGhostAccess'
    BY <2>1, <2>2 DEF IInv, KernelFirst, NoGhostAccess, MembersAt, KernelDel,
                      Stopping
  <2>5. QED
    BY <2>3, <2>4 DEF IInv
<1>6. ASSUME NEW t \in Threads, StopMem(t) PROVE IInv'
  <2>1. /\ pc[t] = "stopMem" /\ holder' = "none"
        /\ pc' = [pc EXCEPT ![t] = IF t = "main" THEN "idle" ELSE "walk"]
        /\ members' = members \ MembersAt(req[t].id)
        /\ UNCHANGED <<up, kset, db, lastSess>>
    BY <1>6 DEF StopMem, Leave, Goto
  <2>2. \A u \in Threads : ~Stopping(u)'
    BY <2>1 DEF IInv, Locking, Stopping, Threads, TypeOK
  <2>3. up /\ pc'["main"] = "idle" /\ ~Starting'
    BY <2>1 DEF IInv, Locking, Starting, Stopping, Threads, TypeOK
  <2>4. Locking' /\ Numbering' /\ UniqueClient' /\ KernelFirst'
    BY <2>1, <2>2, <2>3 DEF IInv, Locking, Numbering, UniqueClient,
                            KernelFirst, Stopping, Threads
  <2>5. NoGhostAccess'
    BY <2>1, <2>3 DEF IInv, KernelFirst, NoGhostAccess, MembersAt
  <2>6. QED
    BY <2>4, <2>5 DEF IInv
<1>7. CASE Polling \/ PollSnapshot \/ PollSnapshotFails \/ PollFirst
              \/ PollDone \/ PollReport
  <2>1. /\ UNCHANGED <<up, holder, req, members, kset, db, lastSess>>
        /\ pc'["main"] = pc["main"]
        /\ pc["poll"] \notin {"stopKernel", "stopMem"}
        /\ pc'["poll"] \notin {"stopKernel", "stopMem"}
        /\ up \/ pc'["poll"] = "wait"
    BY <1>7 DEF Polling, PollSnapshot, PollSnapshotFails, PollFirst, PollDone,
                PollReport, Goto, IInv, Locking, TypeOK, Threads
  <2>2. QED
    BY <2>1, WalkStep
<1>8. ASSUME NEW m \in members, pc["poll"] = "walk", Visit(m),
             UNCHANGED <<up, holder, members, kset, db, lastSess>>
      PROVE  IInv'
  BY <1>8, VisitType, WalkStep DEF IInv, Locking
<1>9. CASE Crash
  BY <1>9, DieStep DEF Crash
<1>10. CASE PollVisitFreed
  <2>1. ASSUME pc["poll"] = "walk", NEW i \in Ids, NEW over, Judge(i, over),
               UNCHANGED <<up, holder, members, kset, db, lastSess>>
        PROVE  IInv'
    BY <2>1, JudgeType, WalkStep DEF IInv, Locking
  <2>2. QED
    BY <1>8, <1>9, <1>10, <2>1 DEF PollVisitFreed
<1>11. CASE PollStop
  <2>1. up
    BY <1>11 DEF PollStop, Enter, IInv, Locking
  <2>2. QED
    BY <1>11, <2>1, StopStep DEF PollStop, Enter, Goto, SqlDelete, Threads
<1>12. CASE Shutdown \/ ShutdownUnread
  BY <1>12, DieStep DEF Shutdown, ShutdownUnread, SqlDelete
<1>13. CASE Restart
  <2>1. /\ ~up /\ up' = TRUE
        /\ UNCHANGED <<holder, pc, req, db, lastSess>>
    BY <1>13 DEF Restart
  <2>2. PICK first \in [SavedIds -> db], last \in [SavedIds -> db],
             rank \in [SavedIds -> {r.sess : r \in db}] :
               Restore(first, last, rank)
    BY <1>13 DEF Restart
  <2>3. \A i \in SavedIds : last[i] \in db /\ rank[i] \in {r.sess : r \in db}
    BY <2>2
  <2>4. \A m \in members' : \E i \in SavedIds :
            /\ m.id = i /\ last[i].id = i
            /\ m = [id |-> i, mac |-> last[i].mac, sess |-> last[i].sess,
                    limit |-> last[i].limit, rank |-> rank[i]]
    BY <2>2 DEF Restore
  <2>5. pc["main"] = "idle" /\ pc["poll"] = "wait" /\ holder = "none"
    BY <2>1 DEF IInv, Locking
  <2>6. Locking' /\ KernelFirst'
    BY <2>1, <2>5 DEF Locking, KernelFirst, Stopping, Threads
  <2>7. Numbering'
    BY <2>1, <2>3, <2>4, <2>5 DEF IInv, Numbering, Starting
  <2>8. UniqueClient'
    <3> SUFFICES ASSUME NEW m \in members', NEW n \in members',
                        m.id = n.id \/ m.sess = n.sess \/ m.rank = n.rank
                 PROVE  m = n
        BY DEF UniqueClient
    <3>1. m.id = n.id
      BY <2>2, <2>3, <2>4 DEF IInv, Numbering, Restore
    <3>2. QED
      BY <2>4, <3>1
  <2>9. NoGhostAccess'
    <3>1. \A e \in kset' : \E i \in SavedIds : e.id = i
      BY <2>2 DEF Restore
    <3>2. ASSUME NEW i \in SavedIds PROVE \E m \in members' : m.id = i
      <4> DEFINE m == [id |-> i, mac |-> last[i].mac, sess |-> last[i].sess,
                       limit |-> last[i].limit, rank |-> rank[i]]
      <4>1. m \in members'
        BY <2>2 DEF Restore
      <4>2. m.id = i
        OBVIOUS
      <4>3. QED
        BY <4>1, <4>2
    <3>3. QED
      BY <3>1, <3>2 DEF NoGhostAccess, MembersAt
  <2>10. QED
    BY <2>6, <2>7, <2>8, <2>9 DEF IInv
<1>14. ASSUME NEW e \in kset, Traffic(e) PROVE IInv'
  <2>1. /\ kset' = (kset \ {e}) \cup {[e EXCEPT !.ts = now]}
        /\ UNCHANGED <<up, holder, pc, req, members, db, lastSess>>
    BY <1>14 DEF Traffic
  <2>2. \A f \in kset' : \E g \in kset : f.id = g.id
    BY <2>1 DEF TypeOK, KernelEntry
  <2>3. QED
    BY <2>1, <2>2 DEF IInv, Locking, Numbering, UniqueClient, NoGhostAccess,
                      KernelFirst, Starting, Stopping, MembersAt
<1>15. CASE Tick \/ UNCHANGED vars
  BY <1>15 DEF Tick, vars, IInv, Locking, Numbering, UniqueClient,
               NoGhostAccess, KernelFirst, Starting, Stopping, MembersAt
<1>16. CASE PollVisit
  BY <1>8, <1>16 DEF PollVisit
<1>17. QED
  BY <1>1, <1>2, <1>3, <1>4, <1>5, <1>6, <1>7, <1>9, <1>10, <1>11, <1>12,
     <1>13, <1>14, <1>15, <1>16 DEF Next

LEMMA SafetyInvariant == Spec => []IInv
<1>1. Init => IInv
  <2> SUFFICES ASSUME Init PROVE IInv
    OBVIOUS
  <2>1. pc["main"] = "idle" /\ pc["poll"] = "wait"
    BY RestType DEF Init
  <2>2. QED
    BY <2>1, TypeInit DEF Init, IInv, Locking, Numbering, UniqueClient,
                          NoGhostAccess, KernelFirst, Starting, Stopping,
                          Threads
<1>2. QED
  BY <1>1, SafetyStep, PTL DEF Spec

(* No run of the daemon, with or without a working backup table, gives an  *)
(* address a second member.                                                *)
THEOREM OneMemberPerClient == Spec => []UniqueClient
<1>1. IInv => UniqueClient
  BY DEF IInv
<1>2. QED
  BY <1>1, SafetyInvariant, PTL

(* Nor does the kernel ever let an address through that has no member.     *)
THEOREM NoAccessWithoutMember == Spec => []NoGhostAccess
<1>1. IInv => NoGhostAccess
  BY DEF IInv
<1>2. QED
  BY <1>1, SafetyInvariant, PTL

-----------------------------------------------------------------------------
(* With a database that executes every statement. *)


ServesAt(t, i) == Starting /\ t = "main" /\ i = req["main"].id
StopsAt(t, i) == Stopping(t) /\ i = req[t].id

(* One row to an address; a row has its member while the daemon runs, and  *)
(* is gone when its stop goes on to the kernel.                            *)
RowsHaveMembers ==
    /\ \A r, q \in db : r.id = q.id => r = q
    /\ up => \A r \in db : \E m \in members : SessionOf(m) = r
    /\ \A t \in Threads : Stopping(t) => \A r \in db : r.id # req[t].id

(* A member without its row is being started or stopped by the thread that *)
(* holds the lock.                                                         *)
MembersHaveRows ==
    \A m \in members :
        \/ SessionOf(m) \in db
        \/ \E t \in Threads : ServesAt(t, m.id) \/ StopsAt(t, m.id)

(* One entry to an address, with the MAC of the member there. *)
EntriesMatch ==
    /\ \A e, f \in kset : e.id = f.id => e = f
    /\ \A e \in kset, m \in members : e.id = m.id => e.mac = m.mac

(* A member of the set's range without its entry has it still to come, or  *)
(* has lost it to a stop.                                                  *)
MembersHaveEntries ==
    \A m \in members :
        \/ m.id \notin Pool
        \/ \E e \in kset : e.id = m.id
        \/ pc["main"] = "startKernel" /\ m.id = req["main"].id
        \/ \E t \in Threads : pc[t] = "stopMem" /\ m.id = req[t].id

GrantsAreRows == granted = {r.sess : r \in db}

RInv == /\ RowsHaveMembers /\ MembersHaveRows
        /\ EntriesMatch /\ MembersHaveEntries /\ GrantsAreRows
-----------------------------------------------------------------------------
(* Steps that leave the sessions where they are. *)
LEMMA RecordWalk ==
    ASSUME IInv, RInv, UNCHANGED <<up, members, kset, db, granted>>,
           pc'["main"] = pc["main"], req'["main"] = req["main"],
           pc["poll"] \notin {"stopKernel", "stopMem"},
           pc'["poll"] \notin {"stopKernel", "stopMem"}
    PROVE  RInv'
<1>1. RowsHaveMembers'
  BY DEF RInv, RowsHaveMembers, Stopping, Threads
<1>2. MembersHaveRows'
  BY DEF RInv, MembersHaveRows, ServesAt, StopsAt, Starting, Stopping, Threads
<1>3. EntriesMatch' /\ GrantsAreRows'
  BY DEF RInv, EntriesMatch, GrantsAreRows
<1>4. MembersHaveEntries'
  BY DEF RInv, MembersHaveEntries, Threads
<1>5. QED
  BY <1>1, <1>2, <1>3, <1>4 DEF RInv

(* The row of a start in progress is new to its address. *)
LEMMA StartHasNoRow ==
    ASSUME IInv, RInv, Starting
    PROVE  \A r \in db : r.id # req["main"].id
<1> SUFFICES ASSUME NEW r \in db, r.id = req["main"].id PROVE FALSE
  OBVIOUS
<1>1. PICK m \in members : SessionOf(m) = req["main"]
  BY DEF IInv, Numbering
<1>2. up
  BY <1>1 DEF IInv, Locking
<1>3. PICK n \in members : SessionOf(n) = r
  BY <1>2 DEF RInv, RowsHaveMembers
<1>4. m.id = n.id
  BY <1>1, <1>3 DEF SessionOf
<1>5. m = n
  BY <1>4 DEF IInv, UniqueClient
<1>6. QED
  BY <1>1, <1>3, <1>5 DEF IInv, Numbering

(* At rest, a session and its member carry the same number; no other       *)
(* member carries it.                                                      *)
LEMMA SessAtRow ==
    ASSUME IInv, RInv, up, NEW i, NEW r \in db
    PROVE  r.sess \in SessAt(i) <=> r.id = i
<1>1. PICK m \in members : SessionOf(m) = r
  BY DEF RInv, RowsHaveMembers
<1>2. m.id = r.id /\ m.sess = r.sess
  BY <1>1 DEF SessionOf
<1>3. ASSUME r.id = i PROVE r.sess \in SessAt(i)
  BY <1>2, <1>3 DEF SessAt, MembersAt
<1>4. ASSUME r.sess \in SessAt(i) PROVE r.id = i
  <2>1. PICK n \in members : n.id = i /\ n.sess = r.sess
    BY <1>4 DEF SessAt, MembersAt
  <2>2. n = m
    BY <1>2, <2>1 DEF IInv, UniqueClient
  <2>3. QED
    BY <1>2, <2>1, <2>2
<1>5. QED
  BY <1>3, <1>4

(* A thread takes the lock and deletes the rows of an address. *)
LEMMA RecordStop ==
    ASSUME DbReliable, IInv, RInv, TypeOK', NEW t \in Threads, NEW i \in Ids,
           up, holder = "none", req'[t].id = i,
           pc' = [pc EXCEPT ![t] = "stopKernel"],
           \A u \in Threads \ {t} : req'[u] = req[u],
           SqlDelete(SessAt(i)), granted' = granted \ SessAt(i),
           UNCHANGED <<up, members, kset>>
    PROVE  RInv'
<1>1. /\ pc["main"] = "idle" /\ ~Starting /\ \A u \in Threads : ~Stopping(u)
  BY DEF IInv, Locking, Starting, Stopping, Threads, TypeOK
<1>2. /\ ~Starting' /\ Stopping(t)' /\ \A u \in Threads \ {t} : ~Stopping(u)'
      /\ pc'["main"] # "startKernel"
      /\ \A u \in Threads : pc'[u] # "stopMem"
  <2>1. pc'[t] = "stopKernel" /\ \A u \in Threads \ {t} : pc'[u] = pc[u]
    BY DEF IInv, TypeOK
  <2>2. pc'["main"] \in {"idle", "stopKernel"}
    BY <1>1, <2>1 DEF Threads
  <2>3. \A u \in Threads \ {t} : ~Stopping(u)'
    BY <1>1, <2>1 DEF Stopping
  <2>4. \A u \in Threads : pc[u] # "stopMem"
    BY <1>1 DEF Stopping
  <2>5. QED
    BY <1>1, <2>1, <2>2, <2>3, <2>4 DEF Starting, Stopping, Threads
<1>3. db' = {r \in db : r.id # i}
  BY SessAtRow DEF SqlDelete
<1>4. RowsHaveMembers'
  BY <1>2, <1>3 DEF RInv, RowsHaveMembers
<1>5. MembersHaveRows'
  <2>1. \A m \in members : SessionOf(m) \in db /\ SessionOf(m).id = m.id
    BY <1>1 DEF RInv, MembersHaveRows, ServesAt, StopsAt, SessionOf
  <2>2. QED
    BY <1>2, <1>3, <2>1 DEF MembersHaveRows, StopsAt
<1>6. EntriesMatch'
  BY DEF RInv, EntriesMatch
<1>7. MembersHaveEntries'
  BY <1>1 DEF RInv, MembersHaveEntries, Stopping, Threads
<1>8. GrantsAreRows'
  <2>1. granted' = {r.sess : r \in db} \ SessAt(i)
    BY DEF RInv, GrantsAreRows
  <2>2. \A r \in db : r.sess \in SessAt(i) <=> r.id = i
    BY SessAtRow
  <2>3. QED
    BY <1>3, <2>1, <2>2 DEF GrantsAreRows
<1>9. QED
  BY <1>4, <1>5, <1>6, <1>7, <1>8 DEF RInv

(* The process is gone: rows and grants remain as they were, or none do.   *)
LEMMA RecordDie ==
    ASSUME RInv, Die, kset' \subseteq kset,
                      \/ UNCHANGED <<db, granted>>
                      \/ db' = {} /\ granted' = {}
    PROVE  RInv'
<1>1. /\ up' = FALSE /\ members' = {}
      /\ \A t \in Threads : ~Stopping(t)'
  BY RestType DEF Die, Stopping, Threads
<1>2. RowsHaveMembers' /\ GrantsAreRows'
  BY <1>1 DEF RInv, RowsHaveMembers, GrantsAreRows
<1>3. MembersHaveRows' /\ EntriesMatch' /\ MembersHaveEntries'
  BY <1>1 DEF RInv, MembersHaveRows, EntriesMatch, MembersHaveEntries
<1>4. QED
  BY <1>2, <1>3 DEF RInv

LEMMA RecordStep ==
    ASSUME DbReliable, IInv, RInv, [Next]_vars PROVE RInv'
<1>0. IInv' /\ TypeOK /\ TypeOK'
  BY SafetyStep, TypeStep DEF IInv
<1> USE <1>0 DEF walk, environment
<1>1. ASSUME NEW i \in Ids, NEW mac \in Macs, NEW limit \in TimeLimits,
             RpcStart(i, mac, limit)
      PROVE  RInv'
  <2> DEFINE s == [id |-> i, mac |-> mac, sess |-> lastSess + 1,
                   limit |-> IF limit = 0 THEN 0 ELSE now + limit]
             n == [id |-> s.id, mac |-> s.mac, sess |-> s.sess,
                   limit |-> s.limit, rank |-> s.sess]
  <2>1. /\ up /\ MembersAt(i) = {} /\ holder = "none"
        /\ pc' = [pc EXCEPT !["main"] = "startKernel"]
        /\ req' = [req EXCEPT !["main"] = s]
        /\ members' = members \cup {n}
        /\ UNCHANGED <<up, kset, db, granted>>
    BY <1>1 DEF RpcStart, Known, Enter, Goto
  <2>2. n.id = i /\ s.id = i
    OBVIOUS
  <2> HIDE DEF s, n
  <2>3. /\ pc'["main"] = "startKernel" /\ req'["main"] = s
        /\ pc["main"] = "idle" /\ ~Starting
        /\ \A t \in Threads : ~Stopping(t) /\ ~Stopping(t)'
    BY <2>1 DEF IInv, Locking, Starting, Stopping, Threads, TypeOK
  <2>4. RowsHaveMembers'
    BY <2>1, <2>3 DEF RInv, RowsHaveMembers
  <2>5. MembersHaveRows'
    <3>1. \A m \in members : SessionOf(m) \in db
      BY <2>3 DEF RInv, MembersHaveRows, ServesAt, StopsAt
    <3>2. ServesAt("main", i)'
      BY <2>2, <2>3 DEF ServesAt, Starting
    <3>3. QED
      BY <2>1, <2>2, <3>1, <3>2 DEF MembersHaveRows, Threads
  <2>6. EntriesMatch'
    BY <2>1, <2>2 DEF RInv, EntriesMatch, IInv, NoGhostAccess
  <2>7. MembersHaveEntries'
    <3>1. \A m \in members : m.id \notin Pool \/ \E e \in kset : e.id = m.id
      BY <2>3 DEF RInv, MembersHaveEntries, Stopping
    <3>2. QED
      BY <2>1, <2>2, <2>3, <3>1 DEF MembersHaveEntries
  <2>8. GrantsAreRows'
    BY <2>1 DEF RInv, GrantsAreRows
  <2>9. QED
    BY <2>4, <2>5, <2>6, <2>7, <2>8 DEF RInv
<1>2. CASE StartKernel
  <2>1. /\ pc["main"] = "startKernel" /\ pc'["main"] = "startDb"
        /\ pc'["poll"] = pc["poll"]
        /\ kset' = KernelAdd(kset, req["main"].id, req["main"].mac)
        /\ UNCHANGED <<up, holder, req, members, db, granted>>
    BY <1>2 DEF StartKernel, Goto, TypeOK, Threads, Labels
  <2>2. PICK n \in members : SessionOf(n) = req["main"]
    BY <2>1 DEF IInv, Numbering, Starting
  <2>3. n.id = req["main"].id /\ n.mac = req["main"].mac
    BY <2>2 DEF SessionOf
  <2>4. \A t \in Threads : ~Stopping(t) /\ ~Stopping(t)'
    BY <2>1 DEF IInv, Locking, Stopping, Threads
  <2>5. RowsHaveMembers' /\ GrantsAreRows'
    BY <2>1, <2>4 DEF RInv, RowsHaveMembers, GrantsAreRows
  <2>6. MembersHaveRows'
    BY <2>1, <2>4 DEF RInv, MembersHaveRows, ServesAt, StopsAt, Starting
  <2> DEFINE d == [id |-> req["main"].id, mac |-> req["main"].mac, ts |-> now]
  <2>7. d.id = req["main"].id /\ d.mac = req["main"].mac
    OBVIOUS
  <2>8. \/ kset' = kset /\ (d.id \notin Pool \/ \E e \in kset : e.id = d.id)
        \/ kset' = kset \cup {d} /\ \A e \in kset : e.id # d.id
    BY <2>1 DEF KernelAdd
  <2> HIDE DEF d
  <2>9. EntriesMatch'
    BY <2>1, <2>3, <2>7, <2>8 DEF RInv, EntriesMatch, IInv, UniqueClient
  <2>10. MembersHaveEntries'
    BY <2>1, <2>4, <2>7, <2>8 DEF RInv, MembersHaveEntries, Stopping
  <2>11. QED
    BY <2>5, <2>6, <2>9, <2>10 DEF RInv
<1>3. CASE StartDb
  <2>1. /\ pc["main"] = "startDb" /\ pc'["main"] = "idle"
        /\ pc'["poll"] = pc["poll"]
        /\ SqlInsert(req["main"])
        /\ granted' = granted \cup {req["main"].sess}
        /\ UNCHANGED <<up, members, kset>>
    BY <1>3 DEF StartDb, Leave, Goto, TypeOK, Threads, Labels
  <2>2. Starting /\ \A t \in Threads : ~Stopping(t) /\ ~Stopping(t)'
    BY <2>1 DEF IInv, Locking, Starting, Stopping, Threads
  <2>3. \A r \in db : r.id # req["main"].id
    BY <2>2, StartHasNoRow
  <2>4. db' = db \cup {req["main"]}
    BY <2>1, <2>3 DEF SqlInsert
  <2>5. PICK n \in members : SessionOf(n) = req["main"]
    BY <2>2 DEF IInv, Numbering
  <2>6. RowsHaveMembers'
    BY <2>1, <2>2, <2>3, <2>4, <2>5 DEF RInv, RowsHaveMembers
  <2>7. MembersHaveRows'
    <3>1. ASSUME NEW m \in members, m.id = req["main"].id
          PROVE  SessionOf(m) = req["main"]
      <4>1. n.id = req["main"].id
        BY <2>5 DEF SessionOf
      <4>2. QED
        BY <2>5, <3>1, <4>1 DEF IInv, UniqueClient
    <3>2. QED
      BY <2>1, <2>2, <2>4, <3>1 DEF RInv, MembersHaveRows, ServesAt, StopsAt
  <2>8. EntriesMatch'
    BY <2>1 DEF RInv, EntriesMatch
  <2>9. MembersHaveEntries'
    BY <2>1, <2>2 DEF RInv, MembersHaveEntries, Stopping
  <2>10. GrantsAreRows'
    BY <2>1, <2>4 DEF RInv, GrantsAreRows
  <2>11. QED
    BY <2>6, <2>7, <2>8, <2>9, <2>10 DEF RInv
<1>4. ASSUME NEW i \in Ids, NEW mac \in Macs, RpcStop(i, mac)
      PROVE  RInv'
  <2>1. req' = [req EXCEPT !["main"] = StopReq(i, mac)]
    BY <1>4 DEF RpcStop
  <2>2. req'["main"].id = i /\ req'["poll"] = req["poll"]
    BY <2>1 DEF StopReq, TypeOK, Threads
  <2>3. QED
    BY <1>4, <2>2, RecordStop DEF RpcStop, Enter, Goto, Threads
<1>5. ASSUME NEW t \in Threads, StopKernel(t) PROVE RInv'
  <2>1. /\ pc[t] = "stopKernel" /\ pc'[t] = "stopMem"
        /\ \A u \in Threads \ {t} : pc'[u] = pc[u]
        /\ kset' = KernelDel(kset, req[t].id)
        /\ UNCHANGED <<up, holder, req, members, db, granted>>
    BY <1>5 DEF StopKernel, Goto, TypeOK, Threads, Labels
  <2>2. Stopping(t) /\ \A u \in Threads \ {t} : ~Stopping(u)
    BY <2>1 DEF IInv, Locking, Stopping, Threads
  <2>3. ~Starting /\ ~Starting' /\ \A u \in Threads : Stopping(u)' <=> Stopping(u)
    BY <2>1, <2>2 DEF IInv, Locking, Starting, Stopping, Threads
  <2>4. RowsHaveMembers' /\ GrantsAreRows'
    BY <2>1, <2>3 DEF RInv, RowsHaveMembers, GrantsAreRows
  <2>5. MembersHaveRows'
    BY <2>1, <2>3 DEF RInv, MembersHaveRows, ServesAt, StopsAt
  <2>6. EntriesMatch'
    BY <2>1 DEF RInv, EntriesMatch, KernelDel
  <2>7. MembersHaveEntries'
    BY <2>1, <2>2, <2>3
       DEF RInv, MembersHaveEntries, KernelDel, Starting, Stopping
  <2>8. QED
    BY <2>4, <2>5, <2>6, <2>7 DEF RInv
<1>6. ASSUME NEW t \in Threads, StopMem(t) PROVE RInv'
  <2>1. /\ pc[t] = "stopMem" /\ pc'[t] = (IF t = "main" THEN "idle" ELSE "walk")
        /\ \A u \in Threads \ {t} : pc'[u] = pc[u]
        /\ members' = members \ MembersAt(req[t].id)
        /\ UNCHANGED <<up, kset, db, granted>>
    BY <1>6 DEF StopMem, Leave, Goto, TypeOK, Threads, Labels
  <2>2. Stopping(t) /\ ~Starting /\ \A u \in Threads \ {t} : ~Stopping(u)
    BY <2>1 DEF IInv, Locking, Starting, Stopping, Threads
  <2>3. \A u \in Threads : ~Stopping(u)'
    BY <2>1, <2>2 DEF Stopping
  <2>4. \A m \in members' : m \in members /\ m.id # req[t].id
    BY <2>1 DEF MembersAt
  <2>5. RowsHaveMembers'
    <3>1. ASSUME NEW r \in db, up PROVE \E m \in members' : SessionOf(m) = r
      <4>1. PICK m \in members : SessionOf(m) = r
        BY <3>1 DEF RInv, RowsHaveMembers
      <4>2. m.id # req[t].id
        BY <2>2, <4>1 DEF RInv, RowsHaveMembers, SessionOf
      <4>3. QED
        BY <2>1, <4>1, <4>2 DEF MembersAt
    <3>2. QED
      BY <2>1, <2>3, <3>1 DEF RInv, RowsHaveMembers
  <2>6. MembersHaveRows'
    BY <2>1, <2>2, <2>4 DEF RInv, MembersHaveRows, ServesAt, StopsAt
  <2>7. EntriesMatch'
    BY <2>1, <2>4 DEF RInv, EntriesMatch
  <2>8. MembersHaveEntries'
    BY <2>1, <2>2, <2>4 DEF RInv, MembersHaveEntries, Starting, Stopping
  <2>9. GrantsAreRows'
    BY <2>1 DEF RInv, GrantsAreRows
  <2>10. QED
    BY <2>5, <2>6, <2>7, <2>8, <2>9 DEF RInv
<1>7. CASE Polling \/ PollSnapshot \/ PollSnapshotFails \/ PollFirst
              \/ PollDone \/ PollReport
  <2>1. /\ UNCHANGED <<up, req, members, kset, db, granted>>
        /\ pc'["main"] = pc["main"]
        /\ pc["poll"] \notin {"stopKernel", "stopMem"}
        /\ pc'["poll"] \notin {"stopKernel", "stopMem"}
    BY <1>7 DEF Polling, PollSnapshot, PollSnapshotFails, PollFirst, PollDone,
                PollReport, Goto, TypeOK, Threads
  <2>2. QED
    BY <2>1, RecordWalk
<1>8. ASSUME NEW m \in members, pc["poll"] = "walk", Visit(m),
             UNCHANGED <<up, members, kset, db, granted>>
      PROVE  RInv'
  BY <1>8, VisitType, RecordWalk
<1>9. CASE Crash \/ ShutdownUnread
  BY <1>9, RecordDie DEF Crash, ShutdownUnread
<1>10. CASE PollVisitFreed
  <2>1. ASSUME pc["poll"] = "walk", NEW i \in Ids, NEW over, Judge(i, over),
               UNCHANGED <<up, members, kset, db, granted>>
        PROVE  RInv'
    BY <2>1, JudgeType, RecordWalk
  <2>2. QED
    BY <1>8, <1>9, <1>10, <2>1 DEF PollVisitFreed
<1>11. CASE PollStop
  <2>1. up /\ req["poll"].id \in Ids
    BY <1>11 DEF PollStop, Enter, IInv, Locking, TypeOK, Threads, Request
  <2>2. QED
    BY <1>11, <2>1, RecordStop DEF PollStop, Enter, Goto, Threads
<1>12. CASE Shutdown
  <2>1. Die /\ kset' = {} /\ granted' = {} /\ up
    BY <1>12 DEF Shutdown, Die
  <2>2. db' = {r \in db : r.sess \notin {m.sess : m \in members}}
    BY <1>12 DEF Shutdown, SqlDelete
  <2>3. \A r \in db : \E m \in members : m.sess = r.sess
    BY <2>1 DEF RInv, RowsHaveMembers, SessionOf
  <2>4. db' = {}
    BY <2>2, <2>3
  <2>5. QED
    BY <2>1, <2>4, RecordDie
<1>13. CASE Restart
  <2>1. /\ ~up /\ up' = TRUE
        /\ UNCHANGED <<holder, pc, req, db, granted>>
    BY <1>13 DEF Restart
  <2>2. PICK first \in [SavedIds -> db], last \in [SavedIds -> db],
             rank \in [SavedIds -> {r.sess : r \in db}] :
               Restore(first, last, rank)
    BY <1>13 DEF Restart
  <2>3. \A r \in db : r.id \in SavedIds
    BY DEF SavedIds
  <2>4. \A i \in SavedIds : /\ first[i] \in db /\ first[i].id = i
                            /\ last[i] \in db /\ last[i].id = i
    BY <2>2 DEF Restore
  <2>5. \A r \in db : first[r.id] = r /\ last[r.id] = r
    BY <2>3, <2>4 DEF RInv, RowsHaveMembers
  <2> DEFINE M(i) == [id |-> i, mac |-> last[i].mac, sess |-> last[i].sess,
                      limit |-> last[i].limit, rank |-> rank[i]]
             E(i) == [id |-> i, mac |-> first[i].mac, ts |-> now]
  <2>6. members' = {M(i) : i \in SavedIds}
        /\ kset' = {E(i) : i \in SavedIds \cap Pool}
    BY <2>2 DEF Restore
  <2>7. ASSUME NEW i \in SavedIds
        PROVE  M(i).id = i /\ SessionOf(M(i)) = last[i] /\ M(i).mac = last[i].mac
    BY <2>4 DEF SessionOf, TypeOK, Session
  <2>8. ASSUME NEW i \in SavedIds
        PROVE  E(i).id = i /\ E(i).mac = last[i].mac
    BY <2>4, <2>5
  <2> HIDE DEF M, E
  <2>9. \A t \in Threads : ~Stopping(t)'
    BY <2>1 DEF IInv, Locking, Stopping, Threads
  <2>10. RowsHaveMembers'
    BY <2>1, <2>3, <2>5, <2>6, <2>7, <2>9 DEF RInv, RowsHaveMembers
  <2>11. MembersHaveRows'
    BY <2>1, <2>4, <2>6, <2>7 DEF MembersHaveRows
  <2>12. EntriesMatch'
    BY <2>6, <2>7, <2>8 DEF EntriesMatch
  <2>13. MembersHaveEntries'
    BY <2>6, <2>7, <2>8 DEF MembersHaveEntries
  <2>14. GrantsAreRows'
    BY <2>1 DEF RInv, GrantsAreRows
  <2>15. QED
    BY <2>10, <2>11, <2>12, <2>13, <2>14 DEF RInv
<1>14. ASSUME NEW e \in kset, Traffic(e) PROVE RInv'
  <2> DEFINE f == [e EXCEPT !.ts = now]
  <2>1. /\ kset' = (kset \ {e}) \cup {f}
        /\ UNCHANGED <<up, pc, req, members, db, granted>>
    BY <1>14 DEF Traffic
  <2>2. f.id = e.id /\ f.mac = e.mac
    BY DEF TypeOK, KernelEntry
  <2> HIDE DEF f
  <2>3. EntriesMatch' /\ MembersHaveEntries'
    BY <2>1, <2>2 DEF RInv, EntriesMatch, MembersHaveEntries
  <2>4. RowsHaveMembers' /\ MembersHaveRows' /\ GrantsAreRows'
    BY <2>1 DEF RInv, RowsHaveMembers, MembersHaveRows, GrantsAreRows,
                ServesAt, StopsAt, Starting, Stopping
  <2>5. QED
    BY <2>3, <2>4 DEF RInv
<1>15. CASE Tick \/ UNCHANGED vars
  BY <1>15 DEF Tick, vars, RInv, RowsHaveMembers, MembersHaveRows,
               EntriesMatch, MembersHaveEntries, GrantsAreRows, ServesAt,
               StopsAt, Starting, Stopping
<1>16. CASE PollVisit
  BY <1>8, <1>16 DEF PollVisit
<1>17. QED
  BY <1>1, <1>2, <1>3, <1>4, <1>5, <1>6, <1>7, <1>9, <1>10, <1>11, <1>12,
     <1>13, <1>14, <1>15, <1>16 DEF Next

LEMMA RecordInvariant ==
    ASSUME DbReliable PROVE Spec => [](IInv /\ RInv)
<1>1. Init => RInv
  <2> SUFFICES ASSUME Init PROVE RInv
    OBVIOUS
  <2>1. \A t \in Threads : ~Stopping(t)
    BY RestType DEF Init, Stopping, Threads
  <2>2. QED
    BY <2>1 DEF Init, RInv, RowsHaveMembers, MembersHaveRows, EntriesMatch,
                MembersHaveEntries, GrantsAreRows
<1>2. IInv /\ RInv /\ [Next]_vars => RInv'
  BY RecordStep
<1>3. QED
  BY <1>1, <1>2, SafetyInvariant, PTL DEF Spec

LEMMA RestHolds ==
    ASSUME IInv, holder = "none"
    PROVE  ~Starting /\ \A t \in Threads : ~Stopping(t)
BY DEF IInv, Locking, Starting, Stopping, Threads

(* While the database works, the kernel lets through exactly the members,  *)
(* with their MACs, whenever nobody holds the lock.                        *)
THEOREM KernelServesMembers ==
    ASSUME DbReliable PROVE Spec => []KernelMirrorsMembers
<1>1. ASSUME IInv, RInv PROVE KernelMirrorsMembers
  <2> SUFFICES ASSUME up, holder = "none"
               PROVE  {<<e.id, e.mac>> : e \in kset} =
                        {<<m.id, m.mac>> : m \in {n \in members : n.id \in Pool}}
    BY DEF KernelMirrorsMembers, Quiescent
  <2>1. \A e \in kset :
            \E m \in members : m.id = e.id /\ m.mac = e.mac /\ m.id \in Pool
    BY <1>1 DEF IInv, TypeOK, KernelEntry, NoGhostAccess, MembersAt,
                RInv, EntriesMatch
  <2>2. \A m \in members :
            m.id \in Pool => \E e \in kset : e.id = m.id /\ e.mac = m.mac
    BY <1>1, RestHolds DEF RInv, MembersHaveEntries, EntriesMatch, Starting,
                           Stopping
  <2>3. QED
    BY <2>1, <2>2
<1>2. IInv /\ RInv => KernelMirrorsMembers
  BY <1>1
<1>3. QED
  BY <1>2, RecordInvariant, PTL

(* While the database works, the sessions served at rest are those greeted *)
(* and not stopped since, whatever crashes lie between.                    *)
THEOREM GreetedStay ==
    ASSUME DbReliable PROVE Spec => []GreetedAreServed
<1>1. ASSUME IInv, RInv PROVE GreetedAreServed
  <2> SUFFICES ASSUME up, holder = "none"
               PROVE  granted = {m.sess : m \in members}
    BY DEF GreetedAreServed, Quiescent
  <2>1. \A r \in db : \E m \in members : m.sess = r.sess
    BY <1>1 DEF RInv, RowsHaveMembers, SessionOf
  <2>2. \A m \in members : \E r \in db : r.sess = m.sess
    <3>1. \A m \in members : SessionOf(m) \in db
      BY <1>1, RestHolds DEF RInv, MembersHaveRows, ServesAt, StopsAt
    <3>2. \A m \in members : SessionOf(m).sess = m.sess
      BY DEF SessionOf
    <3>3. QED
      BY <3>1, <3>2
  <2>3. QED
    BY <1>1, <2>1, <2>2 DEF RInv, GrantsAreRows
<1>2. IInv /\ RInv => GreetedAreServed
  BY <1>1
<1>3. QED
  BY <1>2, RecordInvariant, PTL
-----------------------------------------------------------------------------
(* The refinement. *)

served == {SessionOf(m) : m \in members}

(* Deleting the rows of an address forgets one session, or none.           *)
LEMMA DeletionForgets ==
    ASSUME DbReliable, IInv, RInv, up, holder = "none", NEW i,
           SqlDelete(SessAt(i)), UNCHANGED <<up, members>>
    PROVE  [Table!Next]_(Table!vars)
<1>1. db' = {r \in db : r.id # i}
  BY SessAtRow DEF SqlDelete
<1>2. served' = served
  BY DEF served
<1>3. CASE \A r \in db : r.id # i
  <2>1. db' = db
    BY <1>1, <1>3
  <2>2. QED
    BY <1>2, <2>1 DEF Table!vars, served
<1>4. ASSUME NEW r \in db, r.id = i PROVE [Table!Next]_(Table!vars)
  <2>1. db' = db \ {r}
    BY <1>1, <1>4 DEF RInv, RowsHaveMembers
  <2>2. r \in Session
    BY DEF IInv, TypeOK
  <2>3. Table!Forget(r)
    BY <1>2, <2>1 DEF Table!Forget, served
  <2>4. QED
    BY <2>2, <2>3 DEF Table!Next
<1>5. QED
  BY <1>3, <1>4

LEMMA TableStep ==
    ASSUME DbReliable, IInv, RInv, [Next]_vars
    PROVE  [Table!Next]_(Table!vars)
<1>0. TypeOK
  BY DEF IInv
<1> USE DEF walk, environment
<1>1. ASSUME UNCHANGED <<up, members, db>> PROVE [Table!Next]_(Table!vars)
  BY <1>1 DEF Table!vars
<1>2. ASSUME NEW i \in Ids, NEW mac \in Macs, NEW limit \in TimeLimits,
             RpcStart(i, mac, limit)
      PROVE  [Table!Next]_(Table!vars)
  <2> DEFINE s == [id |-> i, mac |-> mac, sess |-> lastSess + 1,
                   limit |-> IF limit = 0 THEN 0 ELSE now + limit]
             n == [id |-> s.id, mac |-> s.mac, sess |-> s.sess,
                   limit |-> s.limit, rank |-> s.sess]
  <2>1. /\ up /\ MembersAt(i) = {} /\ lastSess < MaxSessions
        /\ members' = members \cup {n}
        /\ UNCHANGED <<up, db>>
    BY <1>2 DEF RpcStart, Known
  <2>2. s \in Session
    BY <1>0, <2>1, ConstantsAssumption
       DEF Session, SessionIds, Limits, TypeOK
  <2>3. SessionOf(n) = s /\ s.id = i
    BY DEF SessionOf
  <2> HIDE DEF s, n
  <2>4. served' = served \cup {s}
    BY <2>1, <2>3 DEF served
  <2>5. \A o \in served : o.id # s.id
    <3>1. \A m \in members : SessionOf(m).id = m.id /\ m.id # i
      BY <2>1 DEF SessionOf, MembersAt
    <3>2. QED
      BY <2>3, <3>1 DEF served
  <2>6. Table!Admit(s)
    BY <2>1, <2>4, <2>5 DEF Table!Admit, served
  <2>7. QED
    BY <2>2, <2>6 DEF Table!Next
<1>3. CASE StartDb
  <2>1. Starting /\ SqlInsert(req["main"]) /\ UNCHANGED <<up, members>>
    BY <1>3 DEF StartDb, Leave, Starting
  <2>2. db' = db \cup {req["main"]}
    BY <2>1, StartHasNoRow DEF SqlInsert
  <2>3. req["main"] \in served
    BY <2>1 DEF IInv, Numbering, served
  <2>4. Table!Record(req["main"])
    BY <2>1, <2>2, <2>3 DEF Table!Record, served
  <2>5. req["main"] \in Session
    BY <1>0, <2>1 DEF TypeOK
  <2>6. QED
    BY <2>4, <2>5 DEF Table!Next
<1>4. ASSUME NEW i \in Ids, NEW mac \in Macs, RpcStop(i, mac)
      PROVE  [Table!Next]_(Table!vars)
  BY <1>4, DeletionForgets DEF RpcStop, Enter
<1>5. CASE PollStop
  <2>1. up
    BY <1>5 DEF PollStop, Enter, IInv, Locking
  <2>2. QED
    BY <1>5, <2>1, DeletionForgets DEF PollStop, Enter
<1>6. ASSUME NEW t \in Threads, StopMem(t) PROVE [Table!Next]_(Table!vars)
  <2>1. /\ Stopping(t) /\ members' = members \ MembersAt(req[t].id)
        /\ UNCHANGED <<up, db>>
    BY <1>6 DEF StopMem, Leave, Stopping
  <2>2. CASE MembersAt(req[t].id) = {}
    BY <1>1, <2>1, <2>2
  <2>3. ASSUME NEW m \in MembersAt(req[t].id)
        PROVE  [Table!Next]_(Table!vars)
    <3>1. m \in members /\ m.id = req[t].id
      BY <2>3 DEF MembersAt
    <3>2. members' = members \ {m}
      BY <2>1, <3>1 DEF IInv, UniqueClient, MembersAt
    <3>3. ASSUME NEW n \in members, SessionOf(n) = SessionOf(m) PROVE n = m
      <4>1. n.id = m.id
        BY <3>3 DEF SessionOf
      <4>2. QED
        BY <3>1, <4>1 DEF IInv, UniqueClient
    <3>4. served' = served \ {SessionOf(m)}
      BY <3>1, <3>2, <3>3 DEF served
    <3>5. SessionOf(m) \notin db
      BY <2>1, <3>1 DEF RInv, RowsHaveMembers, SessionOf
    <3>6. SessionOf(m) \in Session
      BY <1>0, <3>1 DEF TypeOK, Member, Session, SessionOf
    <3>7. Table!Dismiss(SessionOf(m))
      BY <2>1, <3>4, <3>5 DEF Table!Dismiss, served
    <3>8. QED
      BY <3>6, <3>7 DEF Table!Next
  <2>4. QED
    BY <2>2, <2>3
<1>7. CASE Crash \/ ShutdownUnread
  <2>1. /\ up /\ ~up' /\ up' = FALSE /\ members' = {} /\ db' = db
    BY <1>7 DEF Crash, ShutdownUnread, Die
  <2>2. served' = {}
    BY <2>1 DEF served
  <2>3. Table!Crash
    BY <2>1, <2>2 DEF Table!Crash, served
  <2>4. QED
    BY <2>3 DEF Table!Next
<1>8. CASE Shutdown
  <2>1. /\ up /\ up' = FALSE /\ members' = {}
        /\ db' = {r \in db : r.sess \notin {m.sess : m \in members}}
    BY <1>8 DEF Shutdown, Die, SqlDelete
  <2>2. \A r \in db : \E m \in members : m.sess = r.sess
    BY <2>1 DEF RInv, RowsHaveMembers, SessionOf
  <2>3. db' = {} /\ served' = {}
    BY <2>1, <2>2 DEF served
  <2>4. Table!CloseAll
    BY <2>1, <2>3 DEF Table!CloseAll, served
  <2>5. QED
    BY <2>4 DEF Table!Next
<1>9. CASE Restart
  <2>1. ~up /\ up' = TRUE /\ db' = db /\ holder' = holder
        /\ UNCHANGED <<pc, req>>
    BY <1>9 DEF Restart
  <2>2. IInv' /\ RInv'
    BY SafetyStep, RecordStep
  <2>3. holder' = "none"
    BY <2>1 DEF IInv, Locking
  <2>4. ~Starting' /\ \A t \in Threads : ~Stopping(t)'
    BY <2>2, <2>3 DEF IInv, Locking, Starting, Stopping, Threads
  <2>5. \A m \in members' : SessionOf(m) \in db'
    BY <2>2, <2>4 DEF RInv, MembersHaveRows, ServesAt, StopsAt
  <2>6. \A r \in db' : \E m \in members' : SessionOf(m) = r
    BY <2>1, <2>2 DEF RInv, RowsHaveMembers
  <2>7. served' = db
    BY <2>1, <2>5, <2>6 DEF served
  <2>8. Table!Recover
    BY <2>1, <2>7 DEF Table!Recover, served
  <2>9. QED
    BY <2>8 DEF Table!Next
<1>10. CASE StartKernel \/ Polling \/ PollSnapshot \/ PollSnapshotFails
               \/ PollFirst \/ PollVisit \/ PollDone \/ PollReport \/ Tick
  BY <1>1, <1>10 DEF StartKernel, Polling, PollSnapshot, PollSnapshotFails,
     PollFirst, PollVisit, PollDone, PollReport, Tick
<1>11. CASE PollVisitFreed
  BY <1>1, <1>7, <1>11 DEF PollVisitFreed
<1>12. ASSUME NEW t \in Threads, StopKernel(t)
       PROVE  [Table!Next]_(Table!vars)
  BY <1>1, <1>12 DEF StopKernel
<1>13. ASSUME NEW e \in kset, Traffic(e) PROVE [Table!Next]_(Table!vars)
  BY <1>1, <1>13 DEF Traffic
<1>14. CASE UNCHANGED vars
  BY <1>1, <1>14 DEF vars
<1>15. QED
  BY <1>2, <1>3, <1>4, <1>5, <1>6, <1>7, <1>8, <1>9, <1>10, <1>11, <1>12,
     <1>13, <1>14 DEF Next

(* While the database works, the two threads, their lock and the order of  *)
(* the tasks implement SessionTable: whatever is recorded is being served, *)
(* and a restart brings back what was recorded, no more and no less.       *)
THEOREM DaemonImplementsTable ==
    ASSUME DbReliable PROVE Spec => ImplementsTable
<1>1. Init => Table!Init
  BY DEF Init, Table!Init
<1>2. IInv /\ RInv /\ [Next]_vars => [Table!Next]_(Table!vars)
  BY TableStep
<1>3. QED
  BY <1>1, <1>2, RecordInvariant, PTL DEF Spec, ImplementsTable, Table!Spec
=============================================================================
