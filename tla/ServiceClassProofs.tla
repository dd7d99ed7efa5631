--------------------------- MODULE ServiceClassProofs ---------------------------
(***************************************************************************)
(* Proofs about ServiceClass, for any clients, classes, networks, width of *)
(* an address, plans and bounds.                                           *)
(***************************************************************************)
EXTENDS ServiceClass, ListLemmas

FilesOf == [config : plan.configs, readable : BOOLEAN]
ClassesOf == [cfg : plan.configs, dummy : plan.configs, flag : Flags]

Bounds == plan \in Plans /\ reloads \in 0 .. MaxReloads /\ downs \in 0 .. MaxDowns

(* Only configurations of the plan are ever in a file or in the list.      *)
Lists ==
    /\ at \in Phases
    /\ k \in Nat \ {0}
    /\ files \in Seq(FilesOf)
    /\ list \in Seq(ClassesOf)

SessionTypes ==
    /\ members \in [Clients -> Member]
    /\ rows \subseteq Row
    /\ to \subseteq Clients \X Addrs
    /\ from \subseteq Addrs \X Clients

(* Rows wait for their restore only while the daemon starts, before which  *)
(* nobody is a member.                                                     *)
Waiting ==
    /\ todo \subseteq rows
    /\ at # "restore" => todo = {}
    /\ at \in {"down", "failed", "bootread"} => members = NoMembers

(* The kernel leads an address of a class to one client.                   *)
OneClient == \A p, q \in from : p[1] = q[1] => p = q

(* A member's address is that of its slot in a class of its name, and it   *)
(* leads to that member.                                                   *)
Led ==
    NamesKept /\ ~plan.refuses =>
        \A c \in Clients : InClass(c) =>
            /\ <<members[c].addr, c>> \in from
            /\ \E cfg \in plan.configs :
                  /\ cfg.name = members[c].class
                  /\ members[c].addr = Address(cfg, members[c].slot)

IInv == Bounds /\ Lists /\ SessionTypes /\ Waiting /\ SlotsApart
        /\ OneClient /\ Led

-----------------------------------------------------------------------------
(* Numbers and lists. *)

LEMMA PlanConfigs ==
    ASSUME plan \in Plans, NEW cfg \in plan.configs
    PROVE  /\ cfg \in Config /\ cfg.name \in Names /\ cfg.base \in Addrs
           /\ cfg.prefix \in 0 .. Width
<1>1. cfg \in Config
  BY ServiceClassAssumption DEF Plan
<1>2. QED
  BY <1>1, ServiceClassAssumption DEF Config

LEMMA NetSizeType ==
    ASSUME NEW p \in 0 .. Width
    PROVE  NetSize(p) \in Addrs
<1>1. 2 ^ Width \in Nat \ {0} /\ Width \in Nat /\ Width - p \in 0 .. Width
  BY ServiceClassAssumption
<1>2. 2 ^ (Width - p) \in Nat
  BY <1>1, ServiceClassAssumption
<1> DEFINE w == 2 ^ Width
           v == 2 ^ (Width - p)
<1>3. NetSize(p) = IF p = 0 THEN 0 ELSE (v + w - 2) % w
  BY DEF NetSize
<1>4. w \in Nat \ {0} /\ v \in Nat /\ Addrs = 0 .. w - 1
  BY <1>1, <1>2 DEF Addrs
<1> HIDE DEF w, v
<1>5. QED
  BY <1>3, <1>4

LEMMA AddressType ==
    ASSUME plan \in Plans, NEW cfg \in plan.configs, NEW s \in Addrs
    PROVE  Address(cfg, s) \in Addrs
<1> DEFINE w == 2 ^ Width
<1>1. w \in Nat \ {0} /\ Addrs = 0 .. w - 1
  BY ServiceClassAssumption DEF Addrs
<1>2. cfg.base \in Addrs
  BY PlanConfigs
<1>3. Address(cfg, s) = (cfg.base + s) % w
  BY DEF Address
<1> HIDE DEF w
<1>4. QED
  BY <1>1, <1>2, <1>3, SMTT(20)

LEMMA DrawnType ==
    ASSUME plan \in Plans, NEW cfg \in plan.configs
    PROVE  Drawn(cfg) \subseteq Addrs
<1> DEFINE w == 2 ^ Width
<1>1. w \in Nat \ {0} /\ Addrs = 0 .. w - 1
  BY ServiceClassAssumption DEF Addrs
<1>2. SizeOf(cfg) \in Addrs
  BY PlanConfigs, NetSizeType DEF SizeOf
<1> HIDE DEF w
<1>3. QED
  BY <1>1, <1>2 DEF Drawn

(* The class found under a name is in the plan and has that name.          *)
ClassOf(name) == list[Min(ByName(name))].cfg

LEMMA FoundClass ==
    ASSUME Lists, NEW name, ByName(name) # {}
    PROVE  /\ Min(ByName(name)) \in DOMAIN list
           /\ ClassOf(name) \in plan.configs
           /\ ClassOf(name).name = name
           /\ name # NoClass
<1>1. ByName(name) \subseteq Nat
  BY DEF ByName, Lists
<1>2. Min(ByName(name)) \in ByName(name)
  BY <1>1, MinExists
<1>3. Min(ByName(name)) \in DOMAIN list
  BY <1>2 DEF ByName
<1>4. list[Min(ByName(name))] \in ClassesOf
  BY <1>3 DEF Lists
<1>5. QED
  BY <1>2, <1>3, <1>4 DEF ByName, ClassesOf, ClassOf

-----------------------------------------------------------------------------
(* A session begins. *)

(* It gets the slot asked for or one that is drawn, or it gets none.       *)
LEMMA StartSessCases ==
    ASSUME IInv, NEW c \in Clients, NEW mac \in Macs, NEW name, NEW slot \in Addrs,
           StartSess(c, mac, name, slot)
    PROVE  /\ Saved(c, mac)
           /\ \/ /\ NotMapped(c)
                 /\ slot # 0 /\ ByName(name) # {} =>
                       ~CanMap(c, ClassOf(name), slot)
              \/ /\ ByName(name) # {}
                 /\ \E s \in Addrs :
                       /\ Mapped(c, ClassOf(name), s)
                       /\ CanMap(c, ClassOf(name), s)
                       /\ IF slot = 0 THEN s \in Drawn(ClassOf(name)) ELSE s = slot
<1>1. Saved(c, mac)
  BY DEF StartSess
<1>2. CASE ByName(name) = {}
  BY <1>1, <1>2 DEF StartSess
<1>3. CASE ByName(name) # {}
  <2>1. ClassOf(name) \in plan.configs /\ plan \in Plans
    BY <1>3, FoundClass DEF IInv, Bounds
  <2>2. PICK s \in IF slot = 0 THEN Drawn(ClassOf(name)) ELSE {slot} :
            IF CanMap(c, ClassOf(name), s) THEN Mapped(c, ClassOf(name), s)
            ELSE NotMapped(c)
    BY <1>3 DEF StartSess, ClassOf
  <2>3. s \in Addrs
    BY <2>1, <2>2, DrawnType
  <2>4. QED
    BY <1>1, <1>3, <2>2, <2>3
<1>4. QED
  BY <1>2, <1>3

LEMMA StartSessInv ==
    ASSUME IInv, NEW c \in Clients, NEW mac \in Macs, NEW name, NEW slot \in Addrs,
           StartSess(c, mac, name, slot), plan' = plan,
           slot # 0 => \E r \in rows : r.client = c /\ r.mac = mac
    PROVE  SessionTypes' /\ SlotsApart' /\ OneClient' /\ Led' /\ rows \subseteq rows'
           /\ \A d \in Clients \ {c} : members'[d] = members[d]
<1>1. /\ members \in [Clients -> Member] /\ rows \subseteq Row /\ plan \in Plans
      /\ to \subseteq Clients \X Addrs /\ from \subseteq Addrs \X Clients
  BY DEF IInv, SessionTypes, Bounds
<1>2. 0 \in Addrs
  <2>1. 2 ^ Width \in Nat \ {0}
    BY ServiceClassAssumption
  <2>2. QED
    BY <2>1 DEF Addrs
<1> DEFINE row == [client |-> c, mac |-> mac, class |-> members'[c].class,
                   slot |-> members'[c].slot]
<1>3. Saved(c, mac)
  BY StartSessCases
<1>4. \/ rows' = rows
      \/ rows' = rows \cup {row} /\ \A r \in rows : ~(r.client = c /\ r.mac = mac)
  BY <1>3 DEF Saved
<1>5. CASE NotMapped(c)
  <2>1. [Offline EXCEPT !.on = TRUE] \in Member
    BY <1>2 DEF Offline, Member, Names
  <2>2. /\ members' \in [Clients -> Member]
        /\ members'[c] = [Offline EXCEPT !.on = TRUE]
        /\ \A d \in Clients \ {c} : members'[d] = members[d]
        /\ UNCHANGED kernel
    BY <1>1, <1>5, <2>1 DEF NotMapped
  <2>3. members'[c].class = NoClass /\ members'[c].slot = 0
    BY <2>2 DEF Offline
  <2>4. row \in Row
    BY <1>2, <2>3 DEF Row, Names
  <2>5. SessionTypes'
    BY <1>1, <1>4, <2>2, <2>4 DEF SessionTypes, kernel
  <2>6. SlotsApart'
    BY <1>4, <2>3 DEF SlotsApart, IInv
  <2>7. OneClient'
    BY <2>2 DEF OneClient, kernel, IInv
  <2>8. Led'
    <3>1. \A d \in Clients :
              members'[d].class # NoClass =>
                  members[d].class # NoClass /\ members'[d] = members[d]
      BY <2>2, <2>3
    <3>2. from' = from
      BY <2>2 DEF kernel
    <3>3. Led
      BY DEF IInv
    <3>4. QED
      BY <3>1, <3>2, <3>3 DEF Led, NamesKept, NumbersApart, InClass, Address
  <2>9. QED
    BY <1>4, <2>2, <2>5, <2>6, <2>7, <2>8
<1>6. CASE \E cfg \in plan.configs : \E s \in Addrs :
              /\ Mapped(c, cfg, s) /\ CanMap(c, cfg, s)
              /\ slot = 0 => s \in Drawn(cfg)
  <2>1. PICK cfg \in plan.configs, s \in Addrs :
            /\ Mapped(c, cfg, s) /\ CanMap(c, cfg, s)
            /\ slot = 0 => s \in Drawn(cfg)
    BY <1>6
  <2> DEFINE a == Address(cfg, s)
             m == [on |-> TRUE, class |-> cfg.name, slot |-> s, addr |-> a]
  <2>2. a \in Addrs /\ cfg.name \in Names
    BY <1>1, AddressType, PlanConfigs
  <2>3. /\ to' \in Added(to, c, a)
        /\ from' \in Added(from, a, c)
        /\ members' = [members EXCEPT ![c] = m]
        /\ ~HasKey(from, a)
        /\ s # 0
    BY <2>1 DEF Mapped, CanMap
  <2> HIDE DEF a
  <2>4. m \in Member
    BY <2>2 DEF Member
  <2>5. /\ members' \in [Clients -> Member]
        /\ members'[c].class = cfg.name /\ members'[c].slot = s
        /\ members'[c].addr = a
        /\ \A d \in Clients \ {c} : members'[d] = members[d]
    BY <1>1, <2>3, <2>4
  <2> HIDE DEF m
  <2>6. row \in Row
    BY <2>2, <2>5 DEF Row
  <2>7. from' = from \/ from' = from \cup {<<a, c>>}
    BY <2>3 DEF Added
  <2>8. ~plan.refuses => from' = from \cup {<<a, c>>}
    BY <2>3 DEF Added
  <2>9. SessionTypes'
    BY <1>1, <1>4, <2>2, <2>3, <2>5, <2>6, <2>7 DEF SessionTypes, Added
  <2>10. SlotsApart'
    <3>1. plan.reliable => rows' = rows \/ ~Taken(cfg.name, s)
      BY <1>4, <2>1, <2>3 DEF Drawn
    <3>2. SlotsApart
      BY DEF IInv
    <3>3. QED
      BY <1>4, <2>5, <3>1, <3>2 DEF SlotsApart, Taken
  <2>11. OneClient'
    BY <1>1, <2>3, <2>7 DEF OneClient, HasKey, IInv
  <2>12. Led'
    BY <2>1, <2>5, <2>8 DEF Led, NamesKept, NumbersApart, InClass, Address, a, IInv
  <2>13. QED
    BY <1>4, <2>5, <2>9, <2>10, <2>11, <2>12
<1>7. QED
  <2>1. ByName(name) # {} => ClassOf(name) \in plan.configs
    BY FoundClass DEF IInv
  <2>2. QED
    BY <1>5, <1>6, <2>1, StartSessCases

-----------------------------------------------------------------------------
(* The steps. *)

LEMMA InitInv == Init => IInv
<1> SUFFICES ASSUME Init PROVE IInv
  OBVIOUS
<1>1. 0 \in Addrs
  <2>1. 2 ^ Width \in Nat \ {0}
    BY ServiceClassAssumption
  <2>2. QED
    BY <2>1 DEF Addrs
<1>2. SessionTypes
  BY <1>1 DEF Init, SessionTypes, NoMembers, Offline, Member, Names
<1>3. Bounds /\ Lists /\ Waiting
  BY ServiceClassAssumption DEF Init, Bounds, Lists, Waiting, Phases
<1>4. SlotsApart /\ OneClient
  BY DEF Init, SlotsApart, OneClient
<1>5. Led
  BY DEF Init, Led, InClass, NoMembers, Offline
<1>6. QED
  BY <1>2, <1>3, <1>4, <1>5 DEF IInv

(* What leaves the sessions and the plan alone.                            *)
LEMMA ListsOnly ==
    ASSUME IInv, UNCHANGED <<sessions, plan>>, Bounds', Lists', at # "restore",
           at' # "restore",
           at' \in {"down", "failed", "bootread"} =>
               at \in {"down", "failed", "bootread"}
    PROVE  IInv'
<1>1. SessionTypes' /\ OneClient' /\ SlotsApart'
  BY DEF IInv, sessions, SessionTypes, OneClient, SlotsApart
<1>2. Led'
  BY DEF IInv, sessions, Led, NamesKept, NumbersApart, InClass, Address
<1>3. Waiting'
  BY DEF IInv, sessions, Waiting
<1>4. QED
  BY <1>1, <1>2, <1>3 DEF IInv

(* A file that is read leaves the list alone, adds a class, or marks the   *)
(* first one of that number or name.                                       *)
ReadFile == files[k].config
ReadDies == files[k].readable /\ NameMissing(ReadFile)
NewClass(c) == [cfg |-> c, dummy |-> c, flag |-> "INIT"]
MarkedClass(s, c) ==
    [s EXCEPT !.dummy = c,
              !.flag = IF s.cfg.name = c.name THEN "RELOAD" ELSE "RESET"]

LEMMA RegisterCases ==
    ASSUME IInv, register_serviceclass, ~ReadDies
    PROVE  LET c == ReadFile
               old == serviceclass_exists(c.id, c.name)
           IN  /\ k \in DOMAIN files /\ c \in plan.configs
               /\ k' = k + 1 /\ UNCHANGED <<files, at, sessions, bounds>>
               /\ \/ ~files[k].readable /\ list' = list
                  \/ /\ files[k].readable /\ old = {}
                     /\ list' = Append(list, NewClass(c))
                  \/ /\ files[k].readable
                     /\ \E i \in old :
                           list' = [list EXCEPT ![i] = MarkedClass(list[i], c)]
<1> DEFINE c == ReadFile
           old == serviceclass_exists(c.id, c.name)
<1>1. /\ k \in DOMAIN files /\ list \in Seq(ClassesOf) /\ files \in Seq(FilesOf)
  <2>1. k \in Nat \ {0} /\ list \in Seq(ClassesOf) /\ files \in Seq(FilesOf)
    BY Zenon DEF IInv, Lists
  <2>2. k <= Len(files)
    BY Zenon DEF register_serviceclass
  <2>3. QED
    BY <2>1, <2>2
<1>2. c \in plan.configs
  <2>1. files[k] \in FilesOf
    BY <1>1
  <2>2. QED
    BY <2>1 DEF FilesOf, ReadFile
<1>3. /\ k' = k + 1 /\ UNCHANGED <<files, at, sessions, bounds>>
      /\ list' = IF files[k].readable THEN Registered(c) ELSE list
  BY Zenon DEF register_serviceclass, ReadDies, ReadFile, sessions, kernel
<1>4. CASE ~files[k].readable
  BY <1>1, <1>2, <1>3, <1>4
<1>5. CASE files[k].readable /\ old = {}
  <2>1. list' = Append(list, NewClass(c))
    BY <1>3, <1>5 DEF Registered, NewClass
  <2>2. QED
    BY <1>1, <1>2, <1>3, <1>5, <2>1
<1>6. CASE files[k].readable /\ old # {}
  <2>1. list' = [list EXCEPT ![Min(old)].dummy = c,
                             ![Min(old)].flag =
                                 IF list[Min(old)].cfg.name = c.name
                                 THEN "RELOAD" ELSE "RESET"]
    BY <1>3, <1>6, Zenon DEF Registered
  <2>2. Min(old) \in old
    <3>1. old \subseteq Nat
      BY <1>1 DEF serviceclass_exists, ByName
    <3>2. QED
      BY <1>6, <3>1, MinExists
  <2>3. Min(old) \in DOMAIN list
    BY <2>2 DEF serviceclass_exists, ByName
  <2> HIDE DEF old, c
  <2>4. list' = [list EXCEPT ![Min(old)] = MarkedClass(list[Min(old)], c)]
    BY <1>1, <2>1, <2>3 DEF MarkedClass
  <2>5. \E i \in old : list' = [list EXCEPT ![i] = MarkedClass(list[i], c)]
    BY <2>2, <2>4
  <2>6. QED
    BY <1>1, <1>2, <1>3, <1>6, <2>5 DEF old, c
<1>7. QED
  BY <1>4, <1>5, <1>6

LEMMA ReloadInv == ASSUME IInv, serviceclass_reload PROVE IInv'
<1> DEFINE L == [i \in DOMAIN list |-> Reloaded(list[i])]
<1>1. ASSUME NEW i \in DOMAIN list PROVE L[i] \in ClassesOf
  <2>1. list[i] \in ClassesOf
    BY DEF IInv, Lists
  <2>2. QED
    BY <2>1 DEF Reloaded, ClassesOf, Flags
<1>2. L = [i \in DOMAIN list |-> L[i]]
  OBVIOUS
<1>3. list' = L
  BY DEF serviceclass_reload
<1> HIDE DEF L
<1>4. list' \in Seq(ClassesOf)
  BY <1>1, <1>2, <1>3, ReplacedSeq DEF IInv, Lists
<1>5. Bounds' /\ Lists'
  BY <1>4 DEF serviceclass_reload, GoTo, Phases, Reloading, IInv, Bounds, Lists,
              bounds, FilesOf, ClassesOf
<1>6. QED
  BY <1>5, ListsOnly DEF serviceclass_reload, GoTo, bounds

LEMMA UnusedInv == ASSUME IInv, serviceclass_unused_cleanup PROVE IInv'
<1>1. list \in Seq(ClassesOf) /\ at \in Phases /\ k \in Nat \ {0}
  BY DEF IInv, Lists
<1>2. list' \in Seq(ClassesOf) /\ at' \in {"serve", "unused"} /\ k' \in Nat \ {0}
  <2>1. CASE Unused = {}
    BY <1>1, <2>1 DEF serviceclass_unused_cleanup, GoTo
  <2>2. CASE Unused # {}
    <3> DEFINE u == Min(Unused)
               same == {i \in DOMAIN list : list[i].cfg.id = list[u].cfg.id}
    <3>1. u \in DOMAIN list
      <4>1. Unused \subseteq Nat
        BY <1>1 DEF Unused
      <4>2. QED
        BY <2>2, <4>1, MinExists DEF Unused
    <3>2. Min(same) \in DOMAIN list
      <4>1. same \subseteq Nat /\ same # {}
        BY <1>1, <3>1
      <4>2. QED
        BY <4>1, MinExists
    <3>3. list' = RemoveAt(list, Min(same)) /\ UNCHANGED <<at, k>>
      BY <2>2 DEF serviceclass_unused_cleanup, unregister_serviceclass
    <3> HIDE DEF same
    <3>4. list' \in Seq(ClassesOf)
      BY <1>1, <3>2, <3>3, RemoveAtSeq
    <3>5. QED
      BY <1>1, <3>3, <3>4 DEF serviceclass_unused_cleanup
  <2>3. QED
    BY <2>1, <2>2
<1>3. Bounds' /\ Lists'
  BY <1>2 DEF serviceclass_unused_cleanup, Phases, Reloading, IInv, Bounds, Lists,
              bounds, FilesOf, ClassesOf
<1>4. QED
  BY <1>2, <1>3, ListsOnly DEF serviceclass_unused_cleanup, bounds

LEMMA DirectoryType ==
    ASSUME plan \in Plans, NEW dir \in Directories
    PROVE  dir \in Seq(FilesOf)
<1>1. PICK n \in 0 .. MaxFiles : dir \in [1 .. n -> FilesOf]
  BY DEF Directories, FilesOf
<1>2. n \in Nat
  BY ServiceClassAssumption
<1>3. QED
  BY <1>1, <1>2

LEMMA DirectoryInv ==
    ASSUME IInv, NEW dir \in Directories, Boot(dir) \/ Hangup(dir)
    PROVE  IInv'
<1>1. files' = dir /\ UNCHANGED <<plan, list, sessions, downs>>
  BY DEF Boot, Hangup, bounds
<1>2. /\ at' \in {"bootread", "read"} /\ k' = 1
      /\ at' = "bootread" => at \in {"down", "failed"}
      /\ at # "restore"
  BY DEF Boot, Hangup, GoTo
<1>3. dir \in Seq(FilesOf)
  BY DirectoryType DEF IInv, Bounds
<1>4. reloads' \in 0 .. MaxReloads
  BY ServiceClassAssumption DEF Boot, Hangup, bounds, IInv, Bounds
<1>5. Bounds' /\ Lists'
  BY <1>1, <1>2, <1>3, <1>4 DEF Phases, Reloading, IInv, Bounds, Lists, FilesOf,
                                ClassesOf
<1>6. QED
  BY <1>1, <1>2, <1>5, ListsOnly

(* Nobody is a member, and the rows are what they were or fewer.           *)
LEMMA Emptied ==
    ASSUME IInv, Bounds', Lists', plan' = plan, members' = NoMembers,
           rows' \subseteq rows, todo' \subseteq rows',
           at' # "restore" => todo' = {}, to' \subseteq to, from' \subseteq from
    PROVE  IInv'
<1>1. SessionTypes'
  <2>1. 0 \in Addrs
    <3>1. 2 ^ Width \in Nat \ {0}
      BY ServiceClassAssumption
    <3>2. QED
      BY <3>1 DEF Addrs
  <2>2. NoMembers \in [Clients -> Member]
    BY <2>1 DEF NoMembers, Offline, Member, Names
  <2>3. QED
    BY <2>2 DEF IInv, SessionTypes
<1>2. Waiting'
  BY DEF Waiting, NoMembers
<1>3. SlotsApart' /\ OneClient'
  BY DEF IInv, SlotsApart, OneClient
<1>4. Led'
  BY DEF Led, InClass, NoMembers, Offline
<1>5. QED
  BY <1>1, <1>2, <1>3, <1>4 DEF IInv

LEMMA StartserviceInv == ASSUME IInv, startservice PROVE IInv'
<1> DEFINE L == [i \in DOMAIN list |-> [list[i] EXCEPT !.flag = "DONE"]]
<1>1. ASSUME NEW i \in DOMAIN list PROVE L[i] \in ClassesOf
  <2>1. list[i] \in ClassesOf
    BY DEF IInv, Lists
  <2>2. QED
    BY <2>1 DEF ClassesOf, Flags
<1>2. L = [i \in DOMAIN list |-> L[i]]
  OBVIOUS
<1>3. list' = L
  BY DEF startservice
<1> HIDE DEF L
<1>4. list' \in Seq(ClassesOf)
  BY <1>1, <1>2, <1>3, ReplacedSeq DEF IInv, Lists
<1>5. Bounds' /\ Lists'
  BY <1>4 DEF startservice, GoTo, Phases, IInv, Bounds, Lists, bounds, FilesOf,
              ClassesOf
<1>6. members' = NoMembers /\ rows' = rows /\ todo' \subseteq rows
  BY DEF startservice, IInv, Waiting
<1>7. /\ at' = "restore" /\ plan' = plan
      /\ to' \subseteq to /\ from' \subseteq from
  BY DEF startservice, GoTo, bounds
<1>8. QED
  BY <1>5, <1>6, <1>7, Emptied

LEMMA DieInv ==
    ASSUME IInv, NEW phase \in {"down", "failed"}, Die(phase), plan' = plan,
           files' = files, reloads' = reloads, downs' \in 0 .. MaxDowns,
           rows' \subseteq rows, to' \subseteq to, from' \subseteq from
    PROVE  IInv'
<1>1. /\ at' = phase /\ k' = 1 /\ list' = <<>> /\ members' = NoMembers
      /\ todo' = {}
  BY DEF Die, GoTo
<1>2. Bounds' /\ Lists'
  BY <1>1 DEF Phases, IInv, Bounds, Lists, FilesOf, ClassesOf
<1>3. QED
  BY <1>1, <1>2, Emptied

LEMMA RegisterReads ==
    ASSUME IInv, register_serviceclass, ~ReadDies PROVE IInv'
<1> DEFINE c == ReadFile
           old == serviceclass_exists(c.id, c.name)
<1>1. /\ k \in Nat /\ list \in Seq(ClassesOf)
      /\ at \in {"read", "bootread"} /\ at' = at
  BY DEF IInv, Lists, register_serviceclass, ReadDies, ReadFile
<1>2. /\ c \in plan.configs
      /\ k' = k + 1 /\ UNCHANGED <<files, at, sessions, bounds>>
      /\ \/ list' = list
         \/ list' = Append(list, NewClass(c))
         \/ \E i \in old : list' = [list EXCEPT ![i] = MarkedClass(list[i], c)]
  BY RegisterCases
<1>3. list' \in Seq(ClassesOf)
  <2>1. CASE list' = Append(list, NewClass(c))
    <3>1. NewClass(c) \in ClassesOf
      BY <1>2 DEF ClassesOf, Flags, NewClass
    <3>2. QED
      BY <1>1, <2>1, <3>1
  <2>2. CASE \E i \in old : list' = [list EXCEPT ![i] = MarkedClass(list[i], c)]
    <3>1. PICK i \in old : list' = [list EXCEPT ![i] = MarkedClass(list[i], c)]
      BY <2>2
    <3>2. i \in DOMAIN list
      BY DEF serviceclass_exists, ByName
    <3>6. c \in plan.configs
      BY <1>2
    <3> HIDE DEF old, c
    <3>3. list[i] \in ClassesOf
      BY <1>1, <3>2
    <3>4. MarkedClass(list[i], c) \in ClassesOf
      BY <3>3, <3>6 DEF ClassesOf, Flags, MarkedClass
    <3>5. QED
      BY <1>1, <3>1, <3>2, <3>4, ExceptAtSeq
  <2>3. QED
    BY <1>1, <1>2, <2>1, <2>2
<1>4. Bounds' /\ Lists'
  BY <1>1, <1>2, <1>3 DEF IInv, Bounds, Lists, bounds, FilesOf, ClassesOf
<1>5. QED
  BY <1>1, <1>2, <1>4, ListsOnly DEF bounds

LEMMA ReadDiesCase ==
    ASSUME register_serviceclass, ReadDies
    PROVE  Die("failed") /\ UNCHANGED <<files, rows, kernel, bounds>>
BY DEF register_serviceclass, ReadDies, ReadFile

LEMMA RegisterInv == ASSUME IInv, register_serviceclass PROVE IInv'
<1>1. CASE ReadDies
  BY <1>1, ReadDiesCase, DieInv DEF kernel, bounds, IInv, Bounds
<1>2. QED
  BY <1>1, RegisterReads

LEMMA DownInv == ASSUME IInv, Crash \/ Terminate PROVE IInv'
<1>1. downs' \in 0 .. MaxDowns
  BY ServiceClassAssumption DEF IInv, Bounds, Crash, Terminate
<1>2. rows' \subseteq rows
  BY DEF Crash, Terminate
<1>3. QED
  BY <1>1, <1>2, DieInv DEF Crash, Terminate, kernel

LoginDies(name) == Strays(name) \/ Divides(name, 0)

LEMMA LoginInv ==
    ASSUME IInv, NEW c \in Clients, NEW mac \in Macs, NEW name \in ClassNames,
           Login(c, mac, name)
    PROVE  IInv'
<1>1. UNCHANGED <<files, bounds>> /\ at = "serve"
  BY DEF Login
<1>2. CASE LoginDies(name)
  BY <1>1, <1>2, DieInv DEF Login, LoginDies, bounds, kernel, IInv, Bounds
<1>3. CASE ~LoginDies(name)
  <2>1. StartSess(c, mac, name, 0) /\ UNCHANGED <<at, k, list, todo>>
    BY <1>3 DEF Login, LoginDies
  <2>2. 0 \in Addrs
    <3>1. 2 ^ Width \in Nat \ {0}
      BY ServiceClassAssumption
    <3>2. QED
      BY <3>1 DEF Addrs
  <2>3. SessionTypes' /\ SlotsApart' /\ OneClient' /\ Led' /\ rows \subseteq rows'
    BY <1>1, <2>1, <2>2, StartSessInv DEF bounds
  <2>4. Waiting'
    BY <1>1, <2>1, <2>3 DEF IInv, Waiting
  <2>5. Bounds' /\ Lists'
    BY <1>1, <2>1 DEF bounds, IInv, Bounds, Lists, FilesOf, ClassesOf
  <2>6. QED
    BY <2>3, <2>4, <2>5 DEF IInv
<1>4. QED
  BY <1>2, <1>3

(* A row is restored, or the process ends at it.                           *)
RestoreDies(r) == Strays(r.class) \/ Divides(r.class, r.slot)
RestoreOf(r) ==
    /\ todo' = todo \ {r}
    /\ StartSess(r.client, r.mac, r.class, r.slot)
    /\ UNCHANGED <<at, k, list>>

LEMMA RestoreCases ==
    ASSUME IInv, Restore
    PROVE  /\ at = "restore" /\ UNCHANGED <<files, bounds>>
           /\ \/ Die("failed") /\ UNCHANGED <<rows, kernel>>
              \/ \E r \in todo : /\ r \in rows /\ r.client \in Clients /\ r.mac \in Macs
                                 /\ r.slot \in Addrs /\ RestoreOf(r)
<1>1. PICK r \in todo : IF RestoreDies(r) THEN Die("failed") /\ UNCHANGED <<rows, kernel>>
                        ELSE RestoreOf(r)
  BY DEF Restore, RestoreDies, RestoreOf
<1>2. r \in rows /\ r \in Row
  BY DEF IInv, Waiting, SessionTypes
<1>3. r.client \in Clients /\ r.mac \in Macs /\ r.slot \in Addrs
  BY <1>2 DEF Row
<1>4. at = "restore" /\ UNCHANGED <<files, bounds>>
  BY DEF Restore
<1>5. QED
  BY <1>1, <1>2, <1>3, <1>4

LEMMA RestoreInv == ASSUME IInv, Restore PROVE IInv'
<1>1. at = "restore" /\ UNCHANGED <<files, bounds>>
  BY RestoreCases
<1>2. CASE Die("failed") /\ UNCHANGED <<rows, kernel>>
  BY <1>1, <1>2, DieInv DEF kernel, bounds, IInv, Bounds
<1>3. CASE \E r \in todo : /\ r \in rows /\ r.client \in Clients /\ r.mac \in Macs
                           /\ r.slot \in Addrs /\ RestoreOf(r)
  <2>1. PICK r \in todo : /\ r \in rows /\ r.client \in Clients /\ r.mac \in Macs
                          /\ r.slot \in Addrs /\ RestoreOf(r)
    BY <1>3
  <2>2. /\ todo' = todo \ {r} /\ UNCHANGED <<at, k, list>>
        /\ StartSess(r.client, r.mac, r.class, r.slot)
    BY <2>1 DEF RestoreOf
  <2>3. SessionTypes' /\ SlotsApart' /\ OneClient' /\ Led' /\ rows \subseteq rows'
    BY <1>1, <2>1, <2>2, StartSessInv DEF bounds
  <2>4. Waiting'
    BY <1>1, <2>2, <2>3 DEF IInv, Waiting
  <2>5. Bounds' /\ Lists'
    BY <1>1, <2>2 DEF bounds, IInv, Bounds, Lists, FilesOf, ClassesOf
  <2>6. QED
    BY <2>3, <2>4, <2>5 DEF IInv
<1>4. QED
  BY <1>2, <1>3, RestoreCases

LEMMA RestoredInv == ASSUME IInv, Restored PROVE IInv'
<1>1. /\ at' = "serve" /\ k' = 1 /\ todo = {}
      /\ UNCHANGED <<files, list, sessions, bounds>>
  BY DEF Restored, GoTo
<1>2. SessionTypes' /\ OneClient' /\ SlotsApart'
  BY <1>1 DEF IInv, sessions, bounds, SessionTypes, OneClient, SlotsApart
<1>3. Led'
  BY <1>1 DEF IInv, sessions, bounds, Led, NamesKept, NumbersApart, InClass, Address
<1>4. Waiting'
  BY <1>1 DEF IInv, sessions, Waiting
<1>5. Bounds' /\ Lists'
  BY <1>1 DEF bounds, Phases, IInv, Bounds, Lists, FilesOf, ClassesOf
<1>6. QED
  BY <1>2, <1>3, <1>4, <1>5 DEF IInv

(* The end of a session, unless the process ends at the look-up.           *)
StopDies(c) == members[c].class # NoClass /\ Strays(members[c].class)

LEMMA StopCases ==
    ASSUME NEW c \in Clients, Stop(c)
    PROVE  /\ at \in {"serve"} \cup Reloading /\ UNCHANGED <<files, bounds>>
           /\ rows' \in RowsLeft(c) /\ rows' \subseteq rows
           /\ IF StopDies(c) THEN Die("failed") /\ UNCHANGED kernel
              ELSE /\ members' = [members EXCEPT ![c] = Offline]
                   /\ UNCHANGED <<at, k, list, todo>>
                   /\ LET name == members[c].class
                          slot == members[c].slot
                      IN  IF name # NoClass /\ ByName(name) # {} /\ slot # 0
                                /\ slot <= SizeOf(ClassOf(name))
                          THEN Unmap(c, ClassOf(name), slot) ELSE UNCHANGED kernel
<1>1. rows' \in RowsLeft(c) /\ rows' \subseteq rows
  BY DEF Stop, RowsLeft
<1>2. QED
  BY <1>1 DEF Stop, StopDies, ClassOf

(* The address is computed again; if names keep their class it is the one  *)
(* the session was given.                                                  *)
LEMMA StopOne == ASSUME IInv, NEW c \in Clients, Stop(c), ~StopDies(c) PROVE IInv'
<1> DEFINE name == members[c].class
           slot == members[c].slot
           cfg == ClassOf(name)
           a == Address(cfg, slot)
           known == name # NoClass /\ ByName(name) # {} /\ slot # 0
<1>1. /\ at \in {"serve"} \cup Reloading /\ UNCHANGED <<files, at, k, list, todo, bounds>>
      /\ members' = [members EXCEPT ![c] = Offline]
      /\ rows' \subseteq rows
      /\ IF known /\ slot <= SizeOf(cfg) THEN Unmap(c, cfg, slot)
         ELSE UNCHANGED kernel
  BY StopCases
<1>2. /\ members \in [Clients -> Member] /\ rows \subseteq Row /\ plan \in Plans
      /\ to \subseteq Clients \X Addrs /\ from \subseteq Addrs \X Clients
  BY DEF IInv, SessionTypes, Bounds
<1>3. known => cfg \in plan.configs /\ cfg.name = name
  BY FoundClass DEF IInv
<1> HIDE DEF cfg
<1>4. Unmap(c, cfg, slot) => /\ to' \in Deleted(to, c, a)
                             /\ from' = from \/ from' \in Deleted(from, a, c)
  BY DEF Unmap
<1>5. to' \subseteq to /\ from' \subseteq from
  BY <1>1, <1>4 DEF Deleted, kernel
<1>6. /\ members' \in [Clients -> Member] /\ ~InClass(c)'
      /\ \A d \in Clients \ {c} : members'[d] = members[d]
  <2>1. 0 \in Addrs
    <3>1. 2 ^ Width \in Nat \ {0}
      BY ServiceClassAssumption
    <3>2. QED
      BY <3>1 DEF Addrs
  <2>2. Offline \in Member /\ Offline.class = NoClass
    BY <2>1 DEF Offline, Member, Names
  <2>3. QED
    BY <1>1, <1>2, <2>2 DEF InClass
<1>7. SessionTypes'
  BY <1>1, <1>2, <1>5, <1>6 DEF SessionTypes
<1>8. SlotsApart' /\ OneClient'
  BY <1>1, <1>5 DEF IInv, SlotsApart, OneClient, bounds
<1>9. Led'
  <2> SUFFICES ASSUME NamesKept, ~plan.refuses,
                      NEW d \in Clients, InClass(d)'
               PROVE  /\ <<members'[d].addr, d>> \in from'
                      /\ \E e \in plan.configs :
                            /\ e.name = members'[d].class
                            /\ members'[d].addr = Address(e, members'[d].slot)
    BY <1>1 DEF Led, NamesKept, NumbersApart, bounds, Address
  <2>1. d # c /\ members'[d] = members[d] /\ InClass(d)
    BY <1>6 DEF InClass
  <2>2. /\ <<members[d].addr, d>> \in from
        /\ \E e \in plan.configs :
              /\ e.name = members[d].class
              /\ members[d].addr = Address(e, members[d].slot)
    BY <2>1 DEF IInv, Led
  <2>3. <<members[d].addr, d>> \in from'
    <3>1. CASE known /\ slot <= SizeOf(cfg)
      <4>1. InClass(c)
        BY <3>1 DEF InClass
      <4>2. PICK e \in plan.configs :
                e.name = name /\ members[c].addr = Address(e, slot)
        BY <4>1 DEF IInv, Led
      <4>3. e = cfg
        BY <1>3, <3>1, <4>2 DEF NamesKept
      <4>4. <<a, c>> \in from
        BY <4>1, <4>2, <4>3 DEF IInv, Led
      <4> HIDE DEF a
      <4>5. from' = from \/ from' = from \ {<<a, c>>}
        BY <1>1, <1>4, <3>1, <4>4 DEF Deleted
      <4>6. QED
        BY <2>1, <2>2, <4>5
    <3>2. CASE ~(known /\ slot <= SizeOf(cfg))
      <4>1. UNCHANGED kernel
        BY <1>1, <3>2
      <4>2. QED
        BY <2>2, <4>1 DEF kernel
    <3>3. QED
      BY <3>1, <3>2
  <2>4. QED
    BY <2>1, <2>2, <2>3
<1>10. Waiting'
  BY <1>1 DEF IInv, Waiting, Reloading
<1>11. Bounds' /\ Lists'
  BY <1>1 DEF bounds, IInv, Bounds, Lists, FilesOf, ClassesOf
<1>12. QED
  BY <1>7, <1>8, <1>9, <1>10, <1>11 DEF IInv

LEMMA StopInv == ASSUME IInv, NEW c \in Clients, Stop(c) PROVE IInv'
<1>1. CASE StopDies(c)
  BY <1>1, StopCases, DieInv DEF kernel, bounds, IInv, Bounds
<1>2. QED
  BY <1>1, StopOne

LEMMA StutterInv == ASSUME IInv, UNCHANGED vars PROVE IInv'
<1>1. SessionTypes' /\ OneClient' /\ SlotsApart' /\ Waiting'
  BY DEF IInv, vars, SessionTypes, OneClient, SlotsApart, Waiting
<1>2. Led'
  BY DEF IInv, vars, Led, NamesKept, NumbersApart, InClass, Address
<1>3. Bounds' /\ Lists'
  BY DEF IInv, vars, Bounds, Lists, FilesOf, ClassesOf
<1>4. QED
  BY <1>1, <1>2, <1>3 DEF IInv

LEMMA StepInv == IInv /\ [Next]_vars => IInv'
<1> SUFFICES ASSUME IInv, [Next]_vars PROVE IInv'
  OBVIOUS
<1>1. CASE register_serviceclass
  BY <1>1, RegisterInv
<1>2. CASE serviceclass_reload
  BY <1>2, ReloadInv
<1>3. CASE serviceclass_unused_cleanup
  BY <1>3, UnusedInv
<1>4. CASE startservice
  BY <1>4, StartserviceInv
<1>5. CASE Restore
  BY <1>5, RestoreInv
<1>6. CASE Restored
  BY <1>6, RestoredInv
<1>7. CASE \E dir \in Directories : Boot(dir) \/ Hangup(dir)
  BY <1>7, DirectoryInv
<1>8. CASE Crash \/ Terminate
  BY <1>8, DownInv
<1>9. CASE \E c \in Clients, mac \in Macs, name \in ClassNames : Login(c, mac, name)
  BY <1>9, LoginInv
<1>10. CASE \E c \in Clients : Stop(c)
  BY <1>10, StopInv
<1>11. CASE UNCHANGED vars
  BY <1>11, StutterInv
<1>12. QED
  BY <1>1, <1>2, <1>3, <1>4, <1>5, <1>6, <1>7, <1>8, <1>9, <1>10, <1>11 DEF Next

LEMMA Invariant == Spec => []IInv
<1>1. QED
  BY InitInv, StepInv, PTL DEF Spec

-----------------------------------------------------------------------------

(* What the code does to the list of classes, the sessions, the rows and   *)
(* the kernel's set keeps every variable of its type.                      *)
THEOREM TypeCorrect == Spec => []TypeOK
<1>1. IInv => TypeOK
  <2> SUFFICES ASSUME IInv PROVE TypeOK
    OBVIOUS
  <2>1. FilesOf \subseteq File /\ ClassesOf \subseteq Class
    <3>1. plan.configs \subseteq Config
      BY PlanConfigs DEF IInv, Bounds
    <3>2. QED
      BY <3>1 DEF FilesOf, ClassesOf, File, Class
  <2>2. files \in Seq(File) /\ list \in Seq(Class)
    BY <2>1 DEF IInv, Lists
  <2>3. QED
    BY <2>2 DEF IInv, Bounds, Lists, SessionTypes, Waiting, TypeOK
<1>2. QED
  BY <1>1, Invariant, PTL

(* Two rows never reserve one slot of a class while SQL works, whatever    *)
(* _sc_get_slot_id draws and whatever is reloaded, stopped or restored.    *)
THEOREM SlotsAreApart == Spec => []SlotsApart
<1>1. IInv => SlotsApart
  BY DEF IInv
<1>2. QED
  BY <1>1, Invariant, PTL

(* No two sessions are translated into one address, if a class of one name *)
(* keeps its number and network and the kernel has room: the entry of the  *)
(* address, which the session's start adds and only its stop deletes,      *)
(* leads to one client.                                                    *)
THEOREM AddressesAreApart == Spec => []AddressesApart
<1>1. IInv => AddressesApart
  <2> SUFFICES ASSUME IInv, NamesKept, ~plan.refuses,
                      NEW c \in Clients, NEW d \in Clients,
                      InClass(c), InClass(d), members[c].addr = members[d].addr
               PROVE  c = d
    BY DEF AddressesApart
  <2>1. <<members[c].addr, c>> \in from /\ <<members[d].addr, d>> \in from
    BY DEF IInv, Led
  <2>2. <<members[c].addr, c>> = <<members[d].addr, d>>
    BY <2>1 DEF IInv, OneClient
  <2>3. QED
    BY <2>2
<1>2. QED
  BY <1>1, Invariant, PTL

-----------------------------------------------------------------------------
(* The size of a network is 0 only of two addresses, or without a mask. *)

LEMMA PowersGrow == ASSUME NEW q \in 0 .. Width PROVE 2 ^ q <= 2 ^ Width
<1> DEFINE S == {d \in 0 .. Width : ~(2 ^ (Width - d) <= 2 ^ Width)}
<1>1. Width \in Nat /\ \A p \in 0 .. Width : 2 ^ p \in Nat \ {0}
  BY ServiceClassAssumption
<1>2. SUFFICES ASSUME ~(2 ^ q <= 2 ^ Width) PROVE FALSE
  OBVIOUS
<1>3. Width - q \in S
  <2>1. Width - q \in 0 .. Width /\ Width - (Width - q) = q
    BY <1>1
  <2>2. QED
    BY <1>2, <2>1
<1>4. PICK m \in S : \A d \in S : m <= d
  <2>1. S \subseteq Nat
    BY <1>1
  <2> HIDE DEF S
  <2>2. QED
    BY <1>3, <2>1, MinExists
<1>5. PICK r \in 0 .. Width : r = Width - m
  BY <1>1
<1>6. ~(2 ^ r <= 2 ^ Width) /\ r # Width
  <2>1. ~(2 ^ r <= 2 ^ Width)
    BY <1>5
  <2>2. 2 ^ Width \in Nat
    BY <1>1
  <2>3. QED
    BY <2>1, <2>2
<1>7. r + 1 \in 1 .. Width /\ (r + 1) - 1 = r
  BY <1>1, <1>6
<1>8. 2 ^ (r + 1) = 2 * 2 ^ r
  BY <1>7, ServiceClassAssumption
<1>9. 2 ^ (r + 1) \in Nat /\ 2 ^ r \in Nat /\ 2 ^ Width \in Nat
  BY <1>1, <1>7
<1>10. ~(2 ^ (r + 1) <= 2 ^ Width)
  BY <1>6, <1>8, <1>9
<1>11. m - 1 \in 0 .. Width /\ Width - (m - 1) = r + 1
  BY <1>1, <1>5, <1>7
<1>12. m - 1 \in S
  BY <1>10, <1>11
<1>13. QED
  BY <1>4, <1>11, <1>12

LEMMA NoRoom ==
    ASSUME NEW p \in 0 .. Width, NetSize(p) = 0
    PROVE  p \in {0, Width - 1}
<1> SUFFICES ASSUME p # 0 PROVE p = Width - 1
  OBVIOUS
<1>1. Width \in Nat \ {0} /\ p \in 1 .. Width
  BY ServiceClassAssumption
<1>2. PICK q \in 0 .. Width : q = Width - p
  BY <1>1
<1>3. PICK v, w : v = 2 ^ q /\ w = 2 ^ Width
  OBVIOUS
<1>4. v \in Nat \ {0} /\ w \in Nat \ {0} /\ v <= w
  BY <1>3, PowersGrow, ServiceClassAssumption
<1>5. (v + w - 2) % w = 0
  BY <1>2, <1>3 DEF NetSize
<1>6. w >= 2
  <2>1. PICK x : x = 2 ^ (Width - 1)
    OBVIOUS
  <2>2. w = 2 * x /\ x \in Nat \ {0}
    BY <1>1, <1>3, <2>1, ServiceClassAssumption
  <2>3. QED
    BY <2>2
<1>7. CASE q = 0
  <2>1. v = 1
    BY <1>3, <1>7, ServiceClassAssumption
  <2>2. v + w - 2 = w - 1 /\ (w - 1) % w = w - 1
    BY <1>4, <2>1
  <2>3. QED
    BY <1>4, <1>5, <1>6, <2>2
<1>8. CASE q >= 2
  <2>1. PICK x, y : x = 2 ^ (q - 1) /\ y = 2 ^ ((q - 1) - 1)
    OBVIOUS
  <2>2. q \in 1 .. Width /\ q - 1 \in 1 .. Width /\ (q - 1) - 1 \in 0 .. Width
    BY <1>1, <1>8
  <2>3. v = 2 * x /\ x = 2 * y /\ y \in Nat \ {0}
    BY <1>3, <2>1, <2>2, ServiceClassAssumption
  <2>4. PICK z \in Nat : z = v - 2 /\ z > 0 /\ z < w
    BY <1>4, <2>3
  <2>5. (z + w) % w = z
    BY <1>4, <2>4
  <2>6. QED
    BY <1>4, <1>5, <2>4, <2>5
<1>9. QED
  BY <1>1, <1>2, <1>7, <1>8

(* A look-up fails only at a class without a name, or at one that was      *)
(* found and has no room.                                                  *)
HasReason ==
    \E c \in plan.configs : c.prefix \in {0, Width - 1} \/ c.name = NoClass

LEMMA ReasonOfName ==
    ASSUME IInv, NEW i \in Nameless PROVE HasReason
<1>1. i \in DOMAIN list /\ list[i].cfg.name = NoClass
  BY DEF Nameless
<1>2. list[i] \in ClassesOf
  BY <1>1 DEF IInv, Lists
<1>3. list[i].cfg \in plan.configs
  BY <1>2 DEF ClassesOf
<1>4. QED
  BY <1>1, <1>3 DEF HasReason

LEMMA ReasonOfSize ==
    ASSUME IInv, NEW name, NEW slot, Divides(name, slot) PROVE HasReason
<1>1. ByName(name) # {} /\ SizeOf(ClassOf(name)) = 0
  BY DEF Divides, ClassOf
<1>2. ClassOf(name) \in plan.configs /\ plan \in Plans
  BY <1>1, FoundClass DEF IInv, Bounds
<1>3. PICK cfg \in plan.configs : cfg = ClassOf(name)
  BY <1>2
<1>4. cfg.prefix \in 0 .. Width /\ NetSize(cfg.prefix) = 0
  BY <1>1, <1>2, <1>3, PlanConfigs DEF SizeOf
<1>5. cfg.prefix \in {0, Width - 1}
  BY <1>4, NoRoom
<1>6. QED
  BY <1>5 DEF HasReason

LEMMA ReasonOfFile ==
    ASSUME IInv, register_serviceclass, ReadDies PROVE HasReason
<1>1. k \in DOMAIN files
  <2>1. k \in Nat \ {0} /\ files \in Seq(FilesOf)
    BY Zenon DEF IInv, Lists
  <2>2. k <= Len(files)
    BY Zenon DEF register_serviceclass
  <2>3. QED
    BY <2>1, <2>2
<1>2. files[k] \in FilesOf
  BY <1>1 DEF IInv, Lists
<1>3. ReadFile \in plan.configs
  BY <1>2 DEF FilesOf, ReadFile
<1>4. ReadFile.name = NoClass \/ Nameless # {}
  BY DEF ReadDies, NameMissing
<1>5. QED
  BY <1>3, <1>4, ReasonOfName DEF HasReason

(* A login, the end of a session, a restart or a reload ends the process   *)
(* only where some class of the plan has no room or no name.               *)
THEOREM FailuresHaveReasons == Spec => []FailsForAReason
<1>1. Init => FailsForAReason
  BY DEF Init, FailsForAReason
<1>2. ASSUME IInv, FailsForAReason, [Next]_vars, at' = "failed" PROVE HasReason
  <2>1. CASE at = "failed"
    BY <1>2, <2>1 DEF FailsForAReason, HasReason
  <2>2. CASE at # "failed"
    <3>1. CASE register_serviceclass
      <4>1. ReadDies
        BY <1>2, <2>2, <3>1 DEF register_serviceclass, ReadDies, ReadFile
      <4>2. QED
        BY <1>2, <3>1, <4>1, ReasonOfFile
    <3>2. CASE \E c \in Clients, mac \in Macs, name \in ClassNames : Login(c, mac, name)
      <4>1. PICK c \in Clients, mac \in Macs, name \in ClassNames : Login(c, mac, name)
        BY <3>2
      <4>2. Strays(name) \/ Divides(name, 0)
        BY <1>2, <2>2, <4>1 DEF Login
      <4>3. QED
        BY <1>2, <4>2, ReasonOfName, ReasonOfSize DEF Strays
    <3>3. CASE Restore
      <4>1. PICK r \in todo : RestoreDies(r)
        BY <1>2, <2>2, <3>3 DEF Restore, RestoreDies
      <4>2. QED
        BY <1>2, <4>1, ReasonOfName, ReasonOfSize DEF Strays, RestoreDies
    <3>4. CASE \E c \in Clients : Stop(c)
      <4>1. PICK c \in Clients : Stop(c)
        BY <3>4
      <4>2. StopDies(c)
        BY <1>2, <2>2, <4>1, StopCases
      <4>3. QED
        BY <1>2, <4>2, ReasonOfName DEF Strays, StopDies
    <3>5. QED
      BY <1>2, <2>2, <3>1, <3>2, <3>3, <3>4 DEF Next, vars, serviceclass_reload,
            serviceclass_unused_cleanup, startservice, Restored, Boot, Hangup,
            Crash, Terminate, Die, GoTo
  <2>3. QED
    BY <2>1, <2>2
<1>3. [Next]_vars => plan' = plan
  BY DEF Next, vars, register_serviceclass, serviceclass_reload,
         serviceclass_unused_cleanup, startservice, Restore, Restored, Boot, Hangup,
         Crash, Terminate, Login, Stop, bounds
<1>4. IInv /\ FailsForAReason /\ [Next]_vars => FailsForAReason'
  BY <1>2, <1>3 DEF FailsForAReason, HasReason
<1>5. QED
  BY <1>1, <1>4, Invariant, PTL DEF Spec

-----------------------------------------------------------------------------
(***************************************************************************)
(* What the list of classes is at every point of a reload, and from it:    *)
(* the classes served are those of the files, the kernel translates the    *)
(* sessions there are, and the rows are those sessions.                    *)
(***************************************************************************)


FilesDiffer ==
    \A i, j \in DOMAIN files : files[i].config.name = files[j].config.name => i = j

NamesDiffer ==
    \A i, j \in DOMAIN list : list[i].cfg.name = list[j].cfg.name => i = j

(* While files are read, the classes not DONE are those of the files read. *)
Marked(i) == list[i].flag # "DONE"
HasRead(j) == j < k /\ files[j].readable
Marking ==
    /\ \A i \in DOMAIN list : /\ list[i].flag \in {"DONE", "INIT", "RELOAD"}
                              /\ list[i].flag = "INIT" => list[i].dummy = list[i].cfg
    /\ \A i \in DOMAIN list : Marked(i) =>
          \E j \in DOMAIN files : HasRead(j) /\ files[j].config = list[i].dummy
    /\ \A j \in DOMAIN files : HasRead(j) =>
          \E i \in DOMAIN list : Marked(i) /\ list[i].dummy = files[j].config

(* The classes that are DONE are those of the readable files.              *)
FromFiles ==
    /\ \A i \in DOMAIN list : list[i].flag = "DONE" =>
          \E j \in DOMAIN files : files[j].readable /\ files[j].config = list[i].cfg
    /\ \A j \in DOMAIN files : files[j].readable =>
          \E i \in DOMAIN list : list[i].flag = "DONE" /\ list[i].cfg = files[j].config

Flagged(flags) == \A i \in DOMAIN list : list[i].flag \in flags

InOrder ==
    /\ NamesDiffer
    /\ \A i \in DOMAIN list : list[i].dummy.name = list[i].cfg.name
    /\ at \in {"read", "bootread"} => Marking
    /\ at = "bootread" => Flagged({"INIT"})
    /\ at = "unused" => FromFiles /\ Flagged({"DONE", "NONE"})
    /\ at \in {"restore", "serve"} => FromFiles /\ Flagged({"DONE"})

ListInv ==
    /\ FilesDiffer
    /\ at \in {"down", "failed"} => list = <<>>
    /\ NumbersApart => InOrder

-----------------------------------------------------------------------------

LEMMA InPlan ==
    ASSUME IInv, NEW i \in DOMAIN list
    PROVE  list[i].cfg \in plan.configs /\ list[i].dummy \in plan.configs
<1>1. list[i] \in ClassesOf
  BY DEF IInv, Lists
<1>2. QED
  BY <1>1 DEF ClassesOf

LEMMA ListSame ==
    ASSUME ListInv, UNCHANGED <<plan, files, at, k, list>> PROVE ListInv'
BY DEF ListInv, FilesDiffer, NumbersApart, InOrder, NamesDiffer, Marking, Marked,
       HasRead, FromFiles, Flagged

LEMMA ListGone ==
    ASSUME ListInv, UNCHANGED files, list' = <<>>, at' \in {"down", "failed"}
    PROVE  ListInv'
<1>1. DOMAIN list' = {}
  OBVIOUS
<1>2. QED
  BY <1>1 DEF ListInv, FilesDiffer, InOrder, NamesDiffer

LEMMA DirectoryDiffers ==
    ASSUME NEW dir \in Directories, files' = dir PROVE FilesDiffer'
BY DEF Directories, FilesDiffer

LEMMA BootList ==
    ASSUME IInv, ListInv, NEW dir \in Directories, Boot(dir) PROVE ListInv'
<1>1. /\ files' = dir /\ list' = <<>> /\ at' = "bootread" /\ k' = 1
  BY DEF Boot, GoTo, ListInv
<1>2. DOMAIN list' = {} /\ DOMAIN files' \subseteq Nat \ {0}
  <2>1. dir \in Seq(FilesOf)
    BY DirectoryType DEF IInv, Bounds
  <2>2. QED
    BY <1>1, <2>1
<1>3. Marking'
  BY <1>1, <1>2 DEF Marking, HasRead
<1>4. QED
  BY <1>1, <1>2, <1>3, DirectoryDiffers DEF ListInv, InOrder, NamesDiffer, Flagged

LEMMA HangupList ==
    ASSUME IInv, ListInv, NEW dir \in Directories, Hangup(dir) PROVE ListInv'
<1>1. /\ files' = dir /\ list' = list /\ at' = "read" /\ k' = 1 /\ plan' = plan
      /\ at = "serve"
  BY DEF Hangup, GoTo, sessions
<1>2. DOMAIN files' \subseteq Nat \ {0}
  <2>1. dir \in Seq(FilesOf)
    BY DirectoryType DEF IInv, Bounds
  <2>2. QED
    BY <1>1, <2>1
<1>3. ASSUME NumbersApart PROVE InOrder'
  <2>1. InOrder /\ Flagged({"DONE"})
    BY <1>1, <1>3 DEF ListInv, InOrder
  <2>2. Marking'
    BY <1>1, <1>2, <2>1 DEF Marking, HasRead, Marked, Flagged
  <2>3. QED
    BY <1>1, <2>1, <2>2 DEF InOrder, NamesDiffer
<1>4. QED
  BY <1>1, <1>3, DirectoryDiffers DEF ListInv, NumbersApart

(* The class a file marks has the file's name, and was not marked before.  *)
LEMMA FreshName ==
    ASSUME IInv, register_serviceclass, ~ReadDies, files[k].readable,
           NEW i \in DOMAIN list, list[i].cfg.name = ReadFile.name
    PROVE  ReadFile.name # NoClass
<1>1. list # <<>>
  OBVIOUS
<1>2. QED
  BY <1>1 DEF ReadDies, NameMissing

LEMMA RegisterReadsList ==
    ASSUME IInv, ListInv, register_serviceclass, ~ReadDies PROVE ListInv'
<1> DEFINE c == ReadFile
           old == serviceclass_exists(c.id, c.name)
<1>1. /\ k \in DOMAIN files /\ c \in plan.configs /\ c = files[k].config
      /\ k' = k + 1 /\ UNCHANGED <<files, at, plan>>
      /\ \/ ~files[k].readable /\ list' = list
         \/ files[k].readable /\ old = {} /\ list' = Append(list, NewClass(c))
         \/ /\ files[k].readable
            /\ \E i \in old : list' = [list EXCEPT ![i] = MarkedClass(list[i], c)]
  BY RegisterCases DEF bounds, ReadFile
<1>2. /\ k \in Nat /\ list \in Seq(ClassesOf) /\ at \in {"read", "bootread"}
      /\ DOMAIN files \subseteq Nat
  <2>1. k \in Nat \ {0} /\ list \in Seq(ClassesOf) /\ files \in Seq(FilesOf)
    BY Zenon DEF IInv, Lists
  <2>2. at \in {"read", "bootread"}
    BY Zenon DEF register_serviceclass
  <2>3. QED
    BY <2>1, <2>2
<1>3. ASSUME NEW i \in DOMAIN list
      PROVE  i \in old <=> \/ list[i].cfg.id = c.id
                           \/ c.name # NoClass /\ list[i].cfg.name = c.name
  BY DEF serviceclass_exists, ByName
<1> HIDE DEF c, old
<1>4. \A j \in DOMAIN files :
          HasRead(j)' <=> HasRead(j) \/ (j = k /\ files[k].readable)
  BY <1>1, <1>2 DEF HasRead
<1>5. ASSUME NumbersApart PROVE InOrder'
  <2>1. /\ NamesDiffer /\ Marking
        /\ \A i \in DOMAIN list : list[i].dummy.name = list[i].cfg.name
        /\ at = "bootread" => Flagged({"INIT"})
    BY <1>2, <1>5 DEF ListInv, InOrder
  <2>2. \A i \in DOMAIN list : i \in old => list[i].cfg.name = c.name
    BY <1>1, <1>3, <1>5, InPlan DEF NumbersApart
  <2>3. CASE ~files[k].readable /\ list' = list
    <3>1. \A j \in DOMAIN files : HasRead(j)' <=> HasRead(j)
      BY <1>4, <2>3
    <3>2. Marking'
      BY <1>1, <2>1, <2>3, <3>1 DEF Marking, Marked
    <3>3. QED
      BY <1>1, <1>2, <2>1, <2>3, <3>2 DEF InOrder, NamesDiffer, Flagged
  <2>4. CASE files[k].readable /\ old = {} /\ list' = Append(list, NewClass(c))
    <3> DEFINE n == Len(list) + 1
    <3>1. /\ DOMAIN list' = DOMAIN list \cup {n} /\ n \notin DOMAIN list
          /\ \A i \in DOMAIN list : list'[i] = list[i]
          /\ list'[n] = NewClass(c)
      BY <1>2, <2>4
    <3> HIDE DEF n
    <3>2. list'[n].cfg = c /\ list'[n].dummy = c /\ list'[n].flag = "INIT"
      BY <3>1 DEF NewClass
    <3>3. NamesDiffer'
      <4>1. \A i \in DOMAIN list : list[i].cfg.name # c.name
        BY <1>3, <2>4, FreshName DEF c
      <4>2. QED
        BY <2>1, <3>1, <3>2, <4>1 DEF NamesDiffer
    <3>4. Marking'
      <4>1. \A i \in DOMAIN list' :
               /\ list'[i].flag \in {"DONE", "INIT", "RELOAD"}
               /\ list'[i].flag = "INIT" => list'[i].dummy = list'[i].cfg
        BY <2>1, <3>1, <3>2 DEF Marking
      <4>2. ASSUME NEW i \in DOMAIN list', list'[i].flag # "DONE"
            PROVE  \E j \in DOMAIN files :
                      HasRead(j)' /\ files[j].config = list'[i].dummy
        <5>1. CASE i = n
          BY <1>1, <1>4, <2>4, <3>2, <5>1
        <5>2. CASE i # n
          BY <1>4, <2>1, <3>1, <4>2, <5>2 DEF Marking, Marked
        <5>3. QED
          BY <5>1, <5>2
      <4>3. ASSUME NEW j \in DOMAIN files, HasRead(j)'
            PROVE  \E i \in DOMAIN list' :
                      list'[i].flag # "DONE" /\ list'[i].dummy = files[j].config
        <5>1. CASE j = k
          BY <1>1, <3>1, <3>2, <5>1
        <5>2. CASE j # k
          <6>1. PICK i \in DOMAIN list : Marked(i) /\ list[i].dummy = files[j].config
            BY <1>4, <2>1, <4>3, <5>2 DEF Marking
          <6>2. QED
            BY <3>1, <6>1 DEF Marked
        <5>3. QED
          BY <5>1, <5>2
      <4>4. QED
        BY <1>1, <4>1, <4>2, <4>3 DEF Marking, Marked
    <3>5. \A i \in DOMAIN list' : list'[i].dummy.name = list'[i].cfg.name
      BY <2>1, <3>1, <3>2
    <3>6. at = "bootread" => Flagged({"INIT"})'
      BY <2>1, <3>1, <3>2 DEF Flagged
    <3>7. QED
      BY <1>1, <1>2, <3>3, <3>4, <3>5, <3>6 DEF InOrder
  <2>5. CASE /\ files[k].readable
             /\ \E i \in old : list' = [list EXCEPT ![i] = MarkedClass(list[i], c)]
    <3>1. PICK n \in old : list' = [list EXCEPT ![n] = MarkedClass(list[n], c)]
      BY <2>5
    <3>2. n \in DOMAIN list
      BY DEF old, serviceclass_exists, ByName
    <3>3. /\ DOMAIN list' = DOMAIN list
          /\ \A i \in DOMAIN list \ {n} : list'[i] = list[i]
          /\ list'[n] = MarkedClass(list[n], c)
      BY <1>2, <3>1, <3>2
    <3>4. /\ list'[n].cfg = list[n].cfg /\ list'[n].dummy = c
          /\ list'[n].flag = "RELOAD" /\ c.name = list[n].cfg.name
      <4>1. c.name = list[n].cfg.name
        BY <2>2, <3>2
      <4>2. list[n] \in ClassesOf
        BY <1>2, <3>2
      <4>3. QED
        BY <3>3, <4>1, <4>2 DEF MarkedClass, ClassesOf
    <3>5. list[n].flag = "DONE"
      <4>1. ASSUME Marked(n) PROVE FALSE
        <5>1. PICK j \in DOMAIN files : HasRead(j) /\ files[j].config = list[n].dummy
          BY <2>1, <3>2, <4>1 DEF Marking
        <5>2. files[j].config.name = files[k].config.name
          BY <1>1, <2>1, <3>2, <3>4, <5>1
        <5>3. j = k
          BY <1>1, <5>2 DEF ListInv, FilesDiffer
        <5>4. QED
          BY <1>2, <5>1, <5>3 DEF HasRead
      <4>2. QED
        BY <4>1 DEF Marked
    <3>6. NamesDiffer'
      BY <2>1, <3>2, <3>3, <3>4 DEF NamesDiffer
    <3>7. Marking'
      <4>1. \A i \in DOMAIN list' :
               /\ list'[i].flag \in {"DONE", "INIT", "RELOAD"}
               /\ list'[i].flag = "INIT" => list'[i].dummy = list'[i].cfg
        BY <2>1, <3>3, <3>4 DEF Marking
      <4>2. ASSUME NEW i \in DOMAIN list', list'[i].flag # "DONE"
            PROVE  \E j \in DOMAIN files :
                      HasRead(j)' /\ files[j].config = list'[i].dummy
        <5>1. CASE i = n
          BY <1>1, <1>4, <2>5, <3>4, <5>1
        <5>2. CASE i # n
          BY <1>4, <2>1, <3>3, <4>2, <5>2 DEF Marking, Marked
        <5>3. QED
          BY <5>1, <5>2
      <4>3. ASSUME NEW j \in DOMAIN files, HasRead(j)'
            PROVE  \E i \in DOMAIN list' :
                      list'[i].flag # "DONE" /\ list'[i].dummy = files[j].config
        <5>1. CASE j = k
          BY <1>1, <3>2, <3>3, <3>4, <5>1
        <5>2. CASE j # k
          <6>1. PICK i \in DOMAIN list : Marked(i) /\ list[i].dummy = files[j].config
            BY <1>4, <2>1, <4>3, <5>2 DEF Marking
          <6>2. QED
            BY <3>3, <3>5, <6>1 DEF Marked
        <5>3. QED
          BY <5>1, <5>2
      <4>4. QED
        BY <1>1, <4>1, <4>2, <4>3 DEF Marking, Marked
    <3>8. \A i \in DOMAIN list' : list'[i].dummy.name = list'[i].cfg.name
      BY <2>1, <3>3, <3>4
    <3>9. at # "bootread"
      BY <2>1, <3>2, <3>5 DEF Flagged
    <3>10. QED
      BY <1>1, <1>2, <3>6, <3>7, <3>8, <3>9 DEF InOrder
  <2>6. QED
    BY <1>1, <2>3, <2>4, <2>5
<1>6. QED
  BY <1>1, <1>2, <1>5 DEF ListInv, FilesDiffer, NumbersApart

LEMMA RegisterList ==
    ASSUME IInv, ListInv, register_serviceclass PROVE ListInv'
<1>1. CASE ReadDies
  BY <1>1, ReadDiesCase, ListGone DEF Die, GoTo
<1>2. QED
  BY <1>1, RegisterReadsList

(* Every file has been read: what is marked is what the files say.         *)
LEMMA AllRead ==
    ASSUME IInv, NumbersApart, ListInv, at \in {"read", "bootread"}, k > Len(files)
    PROVE  /\ NamesDiffer
           /\ \A i \in DOMAIN list :
                 /\ list[i].flag \in {"DONE", "INIT", "RELOAD"}
                 /\ list[i].flag = "INIT" => list[i].dummy = list[i].cfg
                 /\ list[i].dummy.name = list[i].cfg.name
           /\ \A i \in DOMAIN list : list[i].flag # "DONE" =>
                 \E j \in DOMAIN files :
                    files[j].readable /\ files[j].config = list[i].dummy
           /\ \A j \in DOMAIN files : files[j].readable =>
                 \E i \in DOMAIN list :
                    list[i].flag # "DONE" /\ list[i].dummy = files[j].config
<1>1. \A j \in DOMAIN files : HasRead(j) <=> files[j].readable
  <2>1. files \in Seq(FilesOf) /\ k \in Nat
    BY DEF IInv, Lists
  <2>2. \A j \in DOMAIN files : j < k
    BY <2>1
  <2>3. QED
    BY <2>2 DEF HasRead
<1>2. /\ NamesDiffer /\ Marking
      /\ \A i \in DOMAIN list : list[i].dummy.name = list[i].cfg.name
  BY DEF ListInv, InOrder
<1>3. QED
  BY <1>1, <1>2 DEF Marking, Marked

LEMMA ReloadedFields ==
    ASSUME NEW s \in ClassesOf
    PROVE  /\ Reloaded(s).dummy = s.dummy
           /\ s.flag = "DONE" => Reloaded(s).flag = "NONE" /\ Reloaded(s).cfg = s.cfg
           /\ s.flag # "DONE" =>
                 /\ Reloaded(s).flag = "DONE"
                 /\ s.flag = "RELOAD" \/ s.dummy = s.cfg => Reloaded(s).cfg = s.dummy
<1>1. s = [cfg |-> s.cfg, dummy |-> s.dummy, flag |-> s.flag]
  BY DEF ClassesOf
<1>2. CASE s.flag = "DONE"
  BY <1>1, <1>2 DEF Reloaded
<1>3. CASE s.flag # "DONE"
  BY <1>1, <1>3 DEF Reloaded
<1>4. QED
  BY <1>2, <1>3

LEMMA ReloadList ==
    ASSUME IInv, ListInv, serviceclass_reload PROVE ListInv'
<1>1. /\ at = "read" /\ k > Len(files) /\ at' = "unused"
      /\ UNCHANGED <<files, plan>>
      /\ list' = [i \in DOMAIN list |-> Reloaded(list[i])]
  BY DEF serviceclass_reload, GoTo, bounds
<1>2. DOMAIN list' = DOMAIN list /\ \A i \in DOMAIN list : list'[i] = Reloaded(list[i])
  BY <1>1
<1>3. ASSUME NumbersApart PROVE InOrder'
  <2>1. ASSUME NEW i \in DOMAIN list, list[i].flag = "DONE"
        PROVE  /\ list'[i].flag = "NONE" /\ list'[i].cfg = list[i].cfg
               /\ list'[i].dummy = list[i].dummy
    <3>1. list[i] \in ClassesOf
      BY DEF IInv, Lists
    <3>2. QED
      BY <1>2, <2>1, <3>1, ReloadedFields
  <2>2. ASSUME NEW i \in DOMAIN list, list[i].flag # "DONE"
        PROVE  /\ list'[i].flag = "DONE" /\ list'[i].cfg = list[i].dummy
               /\ list'[i].dummy = list[i].dummy
    <3>1. list[i] \in ClassesOf
      BY DEF IInv, Lists
    <3>2. list[i].flag = "RELOAD" \/ list[i].dummy = list[i].cfg
      BY <1>1, <1>3, <2>2, AllRead
    <3>3. QED
      BY <1>2, <2>2, <3>1, <3>2, ReloadedFields
  <2>3. \A i \in DOMAIN list : /\ list[i].dummy.name = list[i].cfg.name
                               /\ list'[i].cfg.name = list[i].cfg.name
                               /\ list'[i].dummy = list[i].dummy
    BY <1>1, <1>3, <2>1, <2>2, AllRead
  <2>4. NamesDiffer'
    BY <1>1, <1>2, <1>3, <2>3, AllRead DEF NamesDiffer
  <2>5. FromFiles'
    <3>1. ASSUME NEW i \in DOMAIN list', list'[i].flag = "DONE"
          PROVE  \E j \in DOMAIN files :
                    files[j].readable /\ files[j].config = list'[i].cfg
      BY <1>1, <1>2, <1>3, <2>1, <2>2, <3>1, AllRead
    <3>2. ASSUME NEW j \in DOMAIN files, files[j].readable
          PROVE  \E i \in DOMAIN list' :
                    list'[i].flag = "DONE" /\ list'[i].cfg = files[j].config
      BY <1>1, <1>2, <1>3, <2>2, <3>2, AllRead
    <3>3. QED
      BY <1>1, <3>1, <3>2 DEF FromFiles
  <2>6. Flagged({"DONE", "NONE"})'
    BY <1>2, <2>1, <2>2 DEF Flagged
  <2>7. QED
    BY <1>1, <1>2, <2>3, <2>4, <2>5, <2>6 DEF InOrder
<1>4. QED
  BY <1>1, <1>3 DEF ListInv, FilesDiffer, NumbersApart

(* The class removed is the first that no file named: numbers name classes. *)
LEMMA UnusedList ==
    ASSUME IInv, ListInv, serviceclass_unused_cleanup PROVE ListInv'
<1>1. at = "unused" /\ UNCHANGED <<files, plan>> /\ list \in Seq(ClassesOf)
  BY DEF serviceclass_unused_cleanup, bounds, IInv, Lists
<1>2. CASE Unused = {}
  <2>1. list' = list /\ at' = "serve"
    BY <1>2 DEF serviceclass_unused_cleanup, GoTo
  <2>2. Flagged({"DONE", "NONE"}) => Flagged({"DONE"})
    BY <1>2 DEF Flagged, Unused
  <2>3. QED
    BY <1>1, <2>1, <2>2 DEF ListInv, FilesDiffer, NumbersApart, InOrder, NamesDiffer,
                            FromFiles, Flagged
<1>3. CASE Unused # {}
  <2> DEFINE u == Min(Unused)
             same == {i \in DOMAIN list : list[i].cfg.id = list[u].cfg.id}
             n == Min(same)
  <2>1. u \in Unused
    <3>1. Unused \subseteq Nat
      BY <1>1 DEF Unused
    <3>2. QED
      BY <1>3, <3>1, MinExists
  <2>2. n \in same
    <3>1. u \in DOMAIN list
      BY <2>1 DEF Unused
    <3> HIDE DEF u
    <3>2. u \in same /\ same \subseteq Nat
      BY <1>1, <3>1
    <3>3. QED
      BY <3>2, MinExists
  <2>3. list' = RemoveAt(list, n) /\ at' = at
    BY <1>3 DEF serviceclass_unused_cleanup, unregister_serviceclass
  <2>4. ASSUME NumbersApart PROVE n = u
    <3>1. u \in DOMAIN list
      BY <2>1 DEF Unused
    <3> HIDE DEF u
    <3>2. n \in DOMAIN list /\ list[n].cfg.id = list[u].cfg.id
      BY <2>2
    <3> HIDE DEF n
    <3>3. list[n].cfg.name = list[u].cfg.name
      BY <2>4, <3>1, <3>2, InPlan DEF NumbersApart
    <3>4. NamesDiffer
      BY <2>4 DEF ListInv, InOrder
    <3>5. QED
      BY <3>1, <3>2, <3>3, <3>4 DEF NamesDiffer
  <2>5. n \in DOMAIN list /\ u \in DOMAIN list /\ list[u].flag = "NONE"
    BY <2>1, <2>2 DEF Unused
  <2> HIDE DEF u, n
  <2> DEFINE old(j) == IF j < n THEN j ELSE j + 1
  <2>6. /\ DOMAIN list' = 1 .. Len(list) - 1 /\ Len(list) \in Nat
        /\ DOMAIN list = 1 .. Len(list)
        /\ \A j \in DOMAIN list' : list'[j] = list[old(j)]
    <3>1. /\ Len(list') = Len(list) - 1 /\ list' \in Seq(ClassesOf)
          /\ \A j \in 1 .. Len(list) - 1 :
                list'[j] = IF j < n THEN list[j] ELSE list[j + 1]
      BY <1>1, <2>3, <2>5, RemoveAtSeq
    <3>2. QED
      BY <1>1, <3>1
  <2>7. \A j \in DOMAIN list' : old(j) \in DOMAIN list \ {n}
    BY <2>5, <2>6
  <2>8. \A i, j \in DOMAIN list' : old(i) = old(j) => i = j
    BY <2>5, <2>6
  <2>9. \A i \in DOMAIN list \ {n} : \E j \in DOMAIN list' : old(j) = i
    <3> SUFFICES ASSUME NEW i \in DOMAIN list \ {n}
                 PROVE  \E j \in DOMAIN list' : old(j) = i
      OBVIOUS
    <3> DEFINE j == IF i < n THEN i ELSE i - 1
    <3>1. j \in DOMAIN list' /\ old(j) = i
      BY <2>5, <2>6
    <3>2. QED
      BY <3>1
  <2> HIDE DEF old
  <2>10. ASSUME NumbersApart PROVE InOrder'
    <3>1. /\ NamesDiffer /\ FromFiles /\ Flagged({"DONE", "NONE"})
          /\ \A i \in DOMAIN list : list[i].dummy.name = list[i].cfg.name
      BY <1>1, <2>10 DEF ListInv, InOrder
    <3>2. NamesDiffer'
      BY <2>6, <2>7, <2>8, <3>1 DEF NamesDiffer
    <3>3. FromFiles'
      <4>1. ASSUME NEW i \in DOMAIN list', list'[i].flag = "DONE"
            PROVE  \E j \in DOMAIN files :
                      files[j].readable /\ files[j].config = list'[i].cfg
        BY <2>6, <2>7, <3>1, <4>1 DEF FromFiles
      <4>2. ASSUME NEW j \in DOMAIN files, files[j].readable
            PROVE  \E i \in DOMAIN list' :
                      list'[i].flag = "DONE" /\ list'[i].cfg = files[j].config
        <5>1. PICK i \in DOMAIN list : list[i].flag = "DONE" /\ list[i].cfg = files[j].config
          BY <3>1, <4>2 DEF FromFiles
        <5>2. i # n
          BY <2>4, <2>5, <2>10, <5>1
        <5>3. QED
          BY <2>6, <2>9, <5>1, <5>2
      <4>3. QED
        BY <1>1, <4>1, <4>2 DEF FromFiles
    <3>4. Flagged({"DONE", "NONE"})'
      BY <2>6, <2>7, <3>1 DEF Flagged
    <3>5. \A i \in DOMAIN list' : list'[i].dummy.name = list'[i].cfg.name
      BY <2>6, <2>7, <3>1
    <3>6. QED
      BY <1>1, <2>3, <3>2, <3>3, <3>4, <3>5 DEF InOrder
  <2>11. QED
    BY <1>1, <2>3, <2>10 DEF ListInv, FilesDiffer, NumbersApart
<1>4. QED
  BY <1>2, <1>3

LEMMA StartserviceList ==
    ASSUME IInv, ListInv, startservice PROVE ListInv'
<1>1. /\ at = "bootread" /\ k > Len(files) /\ at' = "restore"
      /\ UNCHANGED <<files, plan>>
      /\ list' = [i \in DOMAIN list |-> [list[i] EXCEPT !.flag = "DONE"]]
  BY DEF startservice, GoTo, bounds
<1>2. ASSUME NEW i \in DOMAIN list
      PROVE  /\ list'[i].flag = "DONE" /\ list'[i].cfg = list[i].cfg
             /\ list'[i].dummy = list[i].dummy
  <2>1. list[i] \in ClassesOf
    BY DEF IInv, Lists
  <2>2. QED
    BY <1>1, <2>1 DEF ClassesOf
<1>3. DOMAIN list' = DOMAIN list
  BY <1>1
<1>4. ASSUME NumbersApart PROVE InOrder'
  <2>1. \A i \in DOMAIN list : list[i].flag = "INIT" /\ list[i].dummy = list[i].cfg
    BY <1>1, <1>4, AllRead DEF ListInv, InOrder, Flagged
  <2>2. FromFiles'
    <3>1. ASSUME NEW i \in DOMAIN list'
          PROVE  \E j \in DOMAIN files :
                    files[j].readable /\ files[j].config = list'[i].cfg
      BY <1>1, <1>2, <1>3, <1>4, <2>1, AllRead
    <3>2. ASSUME NEW j \in DOMAIN files, files[j].readable
          PROVE  \E i \in DOMAIN list' :
                    list'[i].flag = "DONE" /\ list'[i].cfg = files[j].config
      <4>1. PICK i \in DOMAIN list : list[i].dummy = files[j].config
        BY <1>1, <1>4, <3>2, AllRead
      <4>2. QED
        BY <1>2, <1>3, <2>1, <4>1
    <3>3. QED
      BY <1>1, <3>1, <3>2 DEF FromFiles
  <2>3. NamesDiffer' /\ \A i \in DOMAIN list' : list'[i].dummy.name = list'[i].cfg.name
    BY <1>1, <1>2, <1>3, <1>4, AllRead DEF NamesDiffer
  <2>4. Flagged({"DONE"})'
    BY <1>2, <1>3 DEF Flagged
  <2>5. QED
    BY <1>1, <2>2, <2>3, <2>4 DEF InOrder
<1>5. QED
  BY <1>1, <1>4 DEF ListInv, FilesDiffer, NumbersApart

LEMMA InitList == Init => ListInv
<1> SUFFICES ASSUME Init PROVE ListInv
  OBVIOUS
<1>1. DOMAIN files = {} /\ DOMAIN list = {} /\ list = <<>> /\ at = "down"
  BY DEF Init
<1>2. QED
  BY <1>1 DEF ListInv, FilesDiffer, InOrder, NamesDiffer

LEMMA StepList == IInv /\ ListInv /\ [Next]_vars => ListInv'
<1> SUFFICES ASSUME IInv, ListInv, [Next]_vars PROVE ListInv'
  OBVIOUS
<1>1. CASE register_serviceclass
  BY <1>1, RegisterList
<1>2. CASE serviceclass_reload
  BY <1>2, ReloadList
<1>3. CASE serviceclass_unused_cleanup
  BY <1>3, UnusedList
<1>4. CASE startservice
  BY <1>4, StartserviceList
<1>5. CASE Restore
  <2>1. UNCHANGED <<files, plan>>
    BY <1>5, RestoreCases DEF bounds
  <2>2. CASE Die("failed")
    BY <2>1, <2>2, ListGone DEF Die, GoTo
  <2>3. CASE ~Die("failed")
    BY <1>5, <2>1, <2>3, RestoreCases, ListSame DEF RestoreOf
  <2>4. QED
    BY <2>2, <2>3
<1>6. CASE Restored
  <2>1. at = "restore" /\ at' = "serve" /\ UNCHANGED <<plan, files, list>>
    BY <1>6 DEF Restored, GoTo, bounds
  <2>2. QED
    BY <2>1 DEF ListInv, FilesDiffer, NumbersApart, InOrder, NamesDiffer, FromFiles,
                Flagged
<1>7. CASE \E dir \in Directories : Boot(dir) \/ Hangup(dir)
  BY <1>7, BootList, HangupList
<1>8. CASE Crash \/ Terminate
  BY <1>8, ListGone DEF Crash, Terminate, Die, GoTo
<1>9. CASE \E c \in Clients, mac \in Macs, name \in ClassNames : Login(c, mac, name)
  <2>1. PICK c \in Clients, mac \in Macs, name \in ClassNames : Login(c, mac, name)
    BY <1>9
  <2>2. CASE LoginDies(name)
    BY <2>1, <2>2, ListGone DEF Login, LoginDies, Die, GoTo
  <2>3. CASE ~LoginDies(name)
    BY <2>1, <2>3, ListSame DEF Login, LoginDies, bounds
  <2>4. QED
    BY <2>2, <2>3
<1>10. CASE \E c \in Clients : Stop(c)
  <2>1. PICK c \in Clients : Stop(c)
    BY <1>10
  <2>2. CASE StopDies(c)
    BY <2>1, <2>2, StopCases, ListGone DEF Die, GoTo
  <2>3. CASE ~StopDies(c)
    BY <2>1, <2>3, StopCases, ListSame DEF bounds
  <2>4. QED
    BY <2>2, <2>3
<1>11. CASE UNCHANGED vars
  BY <1>11, ListSame DEF vars
<1>12. QED
  BY <1>1, <1>2, <1>3, <1>4, <1>5, <1>6, <1>7, <1>8, <1>9, <1>10, <1>11 DEF Next

LEMMA ListInvariant == Spec => [](IInv /\ ListInv)
<1>1. QED
  BY InitInv, InitList, StepInv, StepList, PTL DEF Spec

(* After a start or a reload the classes are those of the readable files:  *)
(* in every order of reading, marking, adding and removing, over any       *)
(* number of reloads, if no two names share a number.                      *)
THEOREM ClassesAreConfigured == Spec => []ConfiguredAreServed
<1>1. IInv /\ ListInv => ConfiguredAreServed
  <2> SUFFICES ASSUME ListInv, NumbersApart, at = "serve"
               PROVE  {list[i].cfg : i \in DOMAIN list} = Wanted(files)
    BY DEF ConfiguredAreServed
  <2>1. FromFiles /\ Flagged({"DONE"})
    BY DEF ListInv, InOrder
  <2>2. QED
    BY <2>1 DEF FromFiles, Flagged, Wanted
<1>2. QED
  BY <1>1, ListInvariant, PTL

-----------------------------------------------------------------------------
(* The kernel's mapping. *)

Offliners == \A c \in Clients : ~members[c].on => ~InClass(c)

Running == {"restore", "serve", "read", "unused"}

(* With a working database a client has one row, which waits for its       *)
(* restore or is that of a session.                                        *)
OneRow == \A r, s \in rows : r.client = s.client => r = s
TodoOff == \A r \in todo : ~members[r.client].on
RowsOn == at \in Running => \A r \in rows \ todo : members[r.client].on
SessionOrder == Offliners /\ (plan.reliable => OneRow /\ TodoOff /\ RowsOn)

(* Every class is one of the directory's, so none will go.                 *)
Kept ==
    \A i \in DOMAIN list :
        \E j \in DOMAIN files : files[j].readable /\ files[j].config = list[i].cfg

(* A member's class is in the list, with its slot.                         *)
Placed(c) ==
    \E i \in DOMAIN list : /\ list[i].cfg.name = members[c].class
                           /\ members[c].slot # 0
                           /\ members[c].slot <= SizeOf(list[i].cfg)
AllPlaced == \A c \in Clients : InClass(c) => Placed(c)

(* The kernel has both entries of who is in a class, and no other.         *)
Served ==
    \A c \in Clients : InClass(c) =>
        <<c, members[c].addr>> \in to /\ <<members[c].addr, c>> \in from

Translated ==
    \A c \in Clients, a \in Addrs :
        /\ <<c, a>> \in to <=> InClass(c) /\ members[c].addr = a
        /\ <<a, c>> \in from <=> InClass(c) /\ members[c].addr = a

Undisturbed == NamesKept /\ ~plan.removes /\ ~plan.refuses

KernelInv ==
    /\ SessionOrder
    /\ Undisturbed /\ at \in Running =>
        Kept /\ AllPlaced /\ Served /\ (plan.reliable => Translated)

LEMMA UndisturbedSame == ASSUME plan' = plan PROVE Undisturbed' <=> Undisturbed
BY DEF Undisturbed, NamesKept, NumbersApart

LEMMA MemberTypes ==
    ASSUME IInv, NEW c \in Clients
    PROVE  members[c].slot \in Addrs /\ members[c].addr \in Addrs
BY DEF IInv, SessionTypes, Member

(* A session begins; with a working database its client is not served.     *)
LEMMA StartSessKernel ==
    ASSUME IInv, KernelInv, NEW c \in Clients, NEW mac \in Macs, NEW name,
           NEW slot \in Addrs, StartSess(c, mac, name, slot),
           UNCHANGED <<plan, files, at, k, list>>, at \in Running,
           todo' \subseteq todo,
           plan.reliable =>
               /\ ~members[c].on
               /\ \A r \in todo' : r.client # c
               /\ \A r \in rows : r.client = c => r.mac = mac
               /\ \A r \in todo \ todo' : r.client = c
    PROVE  KernelInv'
<1>1. /\ members \in [Clients -> Member] /\ rows \subseteq Row /\ plan \in Plans
      /\ to \subseteq Clients \X Addrs /\ from \subseteq Addrs \X Clients
      /\ todo \subseteq rows
  BY DEF IInv, SessionTypes, Bounds, Waiting
<1>2. SessionOrder /\ (plan.reliable => ~InClass(c))
  BY DEF KernelInv, SessionOrder, Offliners
<1>3. plan.reliable => OneRow'
  <2>1. Saved(c, mac)
    BY StartSessCases
  <2>2. QED
    BY <1>2, <2>1 DEF Saved, OneRow, SessionOrder
<1>11. rows' = rows \/ \E r \in rows' : rows' = rows \cup {r} /\ r.client = c
  <2>1. Saved(c, mac)
    BY StartSessCases
  <2>2. QED
    BY <2>1 DEF Saved
<1>12. ASSUME members'[c].on, \A d \in Clients \ {c} : members'[d] = members[d]
       PROVE  plan.reliable => TodoOff' /\ RowsOn'
  <2> SUFFICES ASSUME plan.reliable PROVE TodoOff' /\ RowsOn'
    OBVIOUS
  <2>1. TodoOff'
    BY <1>1, <1>2, <1>12 DEF SessionOrder, TodoOff, Row
  <2>2. \A r \in rows : r.client \in Clients
    BY <1>1 DEF Row
  <2>3. ASSUME NEW r \in rows' \ todo' PROVE members'[r.client].on
    <3>1. CASE r.client = c
      BY <1>12, <3>1
    <3>2. CASE r.client # c
      <4>1. r \in rows \ todo
        BY <1>11, <2>3, <3>2
      <4>2. members[r.client].on
        BY <1>2, <4>1 DEF SessionOrder, RowsOn
      <4>3. QED
        BY <1>12, <2>2, <3>2, <4>1, <4>2
    <3>3. QED
      BY <3>1, <3>2
  <2>4. QED
    BY <2>1, <2>3 DEF RowsOn
<1>4. CASE NotMapped(c)
  <2>1. /\ members'[c] = [Offline EXCEPT !.on = TRUE] /\ members'[c].on
        /\ \A d \in Clients \ {c} : members'[d] = members[d]
        /\ UNCHANGED kernel
    BY <1>1, <1>4 DEF NotMapped, Offline
  <2>2. ~InClass(c)'
    BY <2>1 DEF InClass, Offline
  <2>3. \A d \in Clients : InClass(d)' => InClass(d) /\ members'[d] = members[d]
    BY <2>1, <2>2 DEF InClass
  <2>4. plan.reliable =>
            \A d \in Clients : InClass(d) => InClass(d)' /\ members'[d] = members[d]
    BY <1>2, <2>1 DEF InClass
  <2>5. SessionOrder'
    BY <1>2, <1>3, <1>12, <2>1, <2>2 DEF SessionOrder, Offliners, InClass
  <2>6. Undisturbed => Kept' /\ AllPlaced' /\ Served' /\ (plan.reliable => Translated')
    <3> SUFFICES ASSUME Undisturbed
                 PROVE  Kept' /\ AllPlaced' /\ Served' /\ (plan.reliable => Translated')
      OBVIOUS
    <3>1. Kept /\ AllPlaced /\ Served /\ (plan.reliable => Translated)
      BY DEF KernelInv
    <3>2. Kept'
      BY <3>1 DEF Kept
    <3>3. AllPlaced'
      BY <2>3, <3>1 DEF AllPlaced, Placed, SizeOf
    <3>4. ASSUME plan.reliable PROVE Translated'
      <4>1. to' = to /\ from' = from /\ Translated
        BY <2>1, <3>1, <3>4 DEF kernel
      <4>2. ASSUME NEW d \in Clients, NEW b \in Addrs
            PROVE  /\ <<d, b>> \in to' <=> InClass(d)' /\ members'[d].addr = b
                   /\ <<b, d>> \in from' <=> InClass(d)' /\ members'[d].addr = b
        BY <2>3, <2>4, <3>4, <4>1 DEF Translated
      <4>3. QED
        BY <4>2 DEF Translated
    <3>5. Served'
      BY <2>1, <2>3, <3>1 DEF Served, kernel
    <3>6. QED
      BY <3>2, <3>3, <3>4, <3>5
  <2>7. QED
    BY <2>5, <2>6, UndisturbedSame DEF KernelInv
<1>5. CASE /\ ByName(name) # {}
           /\ \E s \in Addrs : Mapped(c, ClassOf(name), s) /\ CanMap(c, ClassOf(name), s)
  <2> DEFINE cfg == ClassOf(name)
  <2>1. PICK s \in Addrs : Mapped(c, cfg, s) /\ CanMap(c, cfg, s)
    BY <1>5
  <2>2. /\ cfg \in plan.configs /\ cfg.name = name /\ name # NoClass
        /\ \E i \in DOMAIN list : list[i].cfg = cfg
    <3>1. /\ Min(ByName(name)) \in DOMAIN list
          /\ ClassOf(name) \in plan.configs /\ ClassOf(name).name = name
          /\ name # NoClass
      BY <1>5, FoundClass DEF IInv
    <3>2. QED
      BY <3>1 DEF ClassOf
  <2> HIDE DEF cfg
  <2> DEFINE a == Address(cfg, s)
             m == [on |-> TRUE, class |-> cfg.name, slot |-> s, addr |-> a]
  <2>3. a \in Addrs /\ cfg.name # NoClass
    BY <1>1, <2>2, AddressType
  <2>4. /\ to' \in Added(to, c, a) /\ from' \in Added(from, a, c)
        /\ members' = [members EXCEPT ![c] = m]
        /\ s # 0 /\ s <= SizeOf(cfg)
        /\ ~HasKey(to, c) /\ ~HasKey(from, a)
    BY <2>1 DEF Mapped, CanMap
  <2> HIDE DEF a
  <2>5. /\ members'[c].on /\ members'[c].class = cfg.name /\ members'[c].slot = s
        /\ members'[c].addr = a
        /\ \A d \in Clients \ {c} : members'[d] = members[d]
    BY <1>1, <2>4
  <2>6. InClass(c)' /\ \A d \in Clients \ {c} : InClass(d)' <=> InClass(d)
    BY <2>3, <2>5 DEF InClass
  <2> HIDE DEF m
  <2>7. SessionOrder'
    BY <1>2, <1>3, <1>12, <2>5, <2>6 DEF SessionOrder, Offliners
  <2>8. Undisturbed => Kept' /\ AllPlaced' /\ Served' /\ (plan.reliable => Translated')
    <3> SUFFICES ASSUME Undisturbed
                 PROVE  Kept' /\ AllPlaced' /\ Served' /\ (plan.reliable => Translated')
      OBVIOUS
    <3>1. Kept /\ AllPlaced /\ Served /\ (plan.reliable => Translated)
      BY DEF KernelInv
    <3>2. Kept'
      BY <3>1 DEF Kept
    <3>3. to' = to \cup {<<c, a>>} /\ from' = from \cup {<<a, c>>}
      BY <2>4 DEF Added, Undisturbed
    <3>4. AllPlaced'
      BY <2>2, <2>4, <2>5, <2>6, <3>1 DEF AllPlaced, Placed, SizeOf
    <3>5. ASSUME plan.reliable PROVE Translated'
      <4>1. ASSUME NEW d \in Clients, NEW b \in Addrs
            PROVE  /\ <<d, b>> \in to' <=> InClass(d)' /\ members'[d].addr = b
                   /\ <<b, d>> \in from' <=> InClass(d)' /\ members'[d].addr = b
        <5>1. CASE d = c
          BY <1>2, <2>5, <2>6, <3>1, <3>3, <3>5, <5>1 DEF Translated
        <5>2. CASE d # c
          BY <2>5, <2>6, <3>1, <3>3, <3>5, <5>2 DEF Translated
        <5>3. QED
          BY <5>1, <5>2
      <4>2. QED
        BY <4>1 DEF Translated
    <3>6. Served'
      <4>1. ASSUME NEW d \in Clients, InClass(d)'
            PROVE  <<d, members'[d].addr>> \in to' /\ <<members'[d].addr, d>> \in from'
        <5>1. CASE d = c
          BY <2>5, <3>3, <5>1
        <5>2. CASE d # c
          BY <2>5, <2>6, <3>1, <3>3, <4>1, <5>2 DEF Served
        <5>3. QED
          BY <5>1, <5>2
      <4>2. QED
        BY <4>1 DEF Served
    <3>7. QED
      BY <3>2, <3>4, <3>5, <3>6
  <2>9. QED
    BY <2>7, <2>8, UndisturbedSame DEF KernelInv
<1>6. QED
  BY <1>4, <1>5, StartSessCases

(* Only the list, the files and the phase change.                          *)
LEMMA KernelSame ==
    ASSUME KernelInv, UNCHANGED <<plan, sessions>>, at' \in Running => at \in Running,
           Undisturbed /\ at' \in Running => Kept' /\ AllPlaced'
    PROVE  KernelInv'
<1>1. SessionOrder'
  BY DEF KernelInv, sessions, SessionOrder, Offliners, OneRow, TodoOff, RowsOn, InClass
<1>2. Undisturbed /\ at \in Running => Served' /\ (plan.reliable => Translated')
  BY DEF KernelInv, sessions, Served, Translated, InClass
<1>3. QED
  BY <1>1, <1>2, UndisturbedSame DEF KernelInv

LEMMA KernelGone ==
    ASSUME IInv, KernelInv, members' = NoMembers, rows' \subseteq rows,
           todo' \subseteq rows', at' \notin Running, plan' = plan
    PROVE  KernelInv'
<1>1. rows' \subseteq Row
  BY DEF IInv, SessionTypes
<1>2. \A c \in Clients : ~members'[c].on /\ members'[c].class = NoClass
  BY DEF NoMembers, Offline
<1>3. QED
  BY <1>1, <1>2 DEF KernelInv, SessionOrder, Offliners, OneRow, TodoOff, RowsOn, InClass,
                    Row

LEMMA RegisterReadsKernel ==
    ASSUME IInv, KernelInv, register_serviceclass, ~ReadDies PROVE KernelInv'
<1>1. at \in {"read", "bootread"} /\ UNCHANGED <<at, files, plan, sessions>>
  BY RegisterCases DEF register_serviceclass, bounds
<1>2. ASSUME Undisturbed, at \in Running PROVE Kept' /\ AllPlaced'
  <2>1. Kept /\ AllPlaced
    BY <1>2 DEF KernelInv
  <2>2. \/ list' = list
        \/ files[k].readable /\ list' = Append(list, NewClass(files[k].config))
        \/ \E i \in DOMAIN list : list' = [list EXCEPT ![i] = MarkedClass(list[i], ReadFile)]
    BY RegisterCases DEF serviceclass_exists, ByName, ReadFile
  <2>3. k \in DOMAIN files /\ list \in Seq(ClassesOf)
    BY RegisterCases DEF IInv, Lists
  <2>4. \A i \in DOMAIN list : i \in DOMAIN list' /\ list'[i].cfg = list[i].cfg
    <3>1. CASE list' = list
      BY <3>1
    <3>2. CASE list' = Append(list, NewClass(files[k].config))
      BY <2>3, <3>2
    <3>3. CASE \E i \in DOMAIN list : list' = [list EXCEPT ![i] = MarkedClass(list[i], ReadFile)]
      <4>1. PICK n \in DOMAIN list : list' = [list EXCEPT ![n] = MarkedClass(list[n], ReadFile)]
        BY <3>3
      <4>2. MarkedClass(list[n], ReadFile).cfg = list[n].cfg
        <5>1. list[n] \in ClassesOf
          BY <2>3
        <5>2. QED
          BY <5>1 DEF MarkedClass, ClassesOf
      <4>3. QED
        BY <2>3, <4>1, <4>2
    <3>4. QED
      BY <2>2, <3>1, <3>2, <3>3
  <2>5. \A i \in DOMAIN list' :
            i \in DOMAIN list \/ (files[k].readable /\ list'[i].cfg = files[k].config)
    <3>1. CASE list' = list
      BY <3>1
    <3>2. CASE files[k].readable /\ list' = Append(list, NewClass(files[k].config))
      BY <2>3, <3>2 DEF NewClass
    <3>3. CASE \E i \in DOMAIN list : list' = [list EXCEPT ![i] = MarkedClass(list[i], ReadFile)]
      BY <2>3, <3>3
    <3>4. QED
      BY <2>2, <3>1, <3>2, <3>3
  <2>6. Kept'
    BY <1>1, <2>1, <2>3, <2>4, <2>5 DEF Kept
  <2>7. AllPlaced'
    BY <1>1, <2>1, <2>4 DEF AllPlaced, Placed, InClass, sessions, SizeOf
  <2>8. QED
    BY <2>6, <2>7
<1>3. QED
  BY <1>1, <1>2, KernelSame

LEMMA RegisterKernel ==
    ASSUME IInv, KernelInv, register_serviceclass PROVE KernelInv'
<1>1. CASE ReadDies
  BY <1>1, ReadDiesCase, KernelGone DEF Die, GoTo, Running, bounds
<1>2. QED
  BY <1>1, RegisterReadsKernel

LEMMA ReloadKernel ==
    ASSUME IInv, ListInv, KernelInv, serviceclass_reload PROVE KernelInv'
<1>1. /\ at = "read" /\ k > Len(files) /\ UNCHANGED <<files, plan, sessions>>
      /\ list' = [i \in DOMAIN list |-> Reloaded(list[i])]
  BY DEF serviceclass_reload, bounds
<1>2. ASSUME Undisturbed PROVE Kept' /\ AllPlaced'
  <2>1. Kept /\ AllPlaced
    BY <1>1, <1>2 DEF KernelInv, Running
  <2>2. ASSUME NEW i \in DOMAIN list PROVE list'[i].cfg = list[i].cfg
    <3>1. list[i].dummy = list[i].cfg
      BY <1>1, <1>2, AllRead, InPlan DEF Undisturbed, NamesKept
    <3>2. list[i] \in ClassesOf
      BY DEF IInv, Lists
    <3>3. QED
      BY <1>1, <3>1, <3>2, ReloadedFields
  <2>3. DOMAIN list' = DOMAIN list
    BY <1>1
  <2>4. QED
    BY <1>1, <2>1, <2>2, <2>3 DEF Kept, AllPlaced, Placed, InClass, sessions, SizeOf
<1>3. QED
  BY <1>1, <1>2, KernelSame DEF Running

LEMMA UnusedKernel ==
    ASSUME IInv, ListInv, KernelInv, serviceclass_unused_cleanup PROVE KernelInv'
<1>1. at = "unused" /\ UNCHANGED <<files, plan, sessions>>
  BY DEF serviceclass_unused_cleanup, bounds
<1>2. ASSUME Undisturbed PROVE Kept' /\ AllPlaced'
  <2>1. Kept /\ AllPlaced
    BY <1>1, <1>2 DEF KernelInv, Running
  <2>2. Unused = {}
    <3> SUFFICES ASSUME NEW i \in DOMAIN list, list[i].flag = "NONE" PROVE FALSE
      BY DEF Unused
    <3>1. NamesDiffer /\ FromFiles
      BY <1>1, <1>2 DEF ListInv, InOrder, Undisturbed, NamesKept
    <3>2. PICK n \in DOMAIN list : list[n].flag = "DONE" /\ list[n].cfg = list[i].cfg
      BY <2>1, <3>1 DEF Kept, FromFiles
    <3>3. QED
      BY <3>1, <3>2 DEF NamesDiffer
  <2>3. list' = list
    BY <2>2 DEF serviceclass_unused_cleanup
  <2>4. QED
    BY <1>1, <2>1, <2>3 DEF Kept, AllPlaced, Placed, InClass, sessions, SizeOf
<1>3. QED
  BY <1>1, <1>2, KernelSame DEF Running

LEMMA DirectoryKernel ==
    ASSUME IInv, KernelInv, NEW dir \in Directories, Boot(dir) \/ Hangup(dir)
    PROVE  KernelInv'
<1>1. CASE Boot(dir)
  BY <1>1, KernelSame DEF Boot, GoTo, Running, bounds
<1>2. CASE Hangup(dir)
  <2>1. at = "serve" /\ at' = "read" /\ files' = dir /\ UNCHANGED <<list, plan, sessions>>
    BY <1>2 DEF Hangup, GoTo
  <2>2. ASSUME Undisturbed PROVE Kept' /\ AllPlaced'
    <3>1. Kept /\ AllPlaced
      BY <2>1, <2>2 DEF KernelInv, Running
    <3>2. Wanted(files) \subseteq Wanted(dir)
      BY <2>2 DEF Directories, Undisturbed
    <3>3. QED
      BY <2>1, <3>1, <3>2 DEF Kept, Wanted, AllPlaced, Placed, InClass, sessions, SizeOf
  <2>3. QED
    BY <2>1, <2>2, KernelSame DEF Running
<1>3. QED
  BY <1>1, <1>2

LEMMA StartserviceKernel ==
    ASSUME IInv, ListInv', KernelInv, startservice PROVE KernelInv'
<1>1. /\ at' = "restore" /\ members' = NoMembers /\ rows' = rows
      /\ to' = {} /\ from' = {} /\ todo' \subseteq rows /\ plan' = plan
  BY DEF startservice, GoTo, bounds, IInv, Waiting
<1>2. \A c \in Clients : ~members'[c].on /\ members'[c].class = NoClass
  BY <1>1 DEF NoMembers, Offline
<1>3. rows \subseteq Row
  BY DEF IInv, SessionTypes
<1>8. plan.reliable => todo' = rows
  BY DEF startservice
<1>4. SessionOrder'
  BY <1>1, <1>2, <1>3, <1>8 DEF KernelInv, SessionOrder, Offliners, OneRow, TodoOff,
                                RowsOn, InClass, Row
<1>5. AllPlaced' /\ Served' /\ Translated'
  BY <1>1, <1>2 DEF AllPlaced, Served, Translated, InClass
<1>6. Undisturbed' => Kept'
  BY <1>1 DEF ListInv, InOrder, FromFiles, Flagged, Kept, Undisturbed, NamesKept
<1>7. QED
  BY <1>4, <1>5, <1>6 DEF KernelInv

(* Both entries go: the class is the one of the start, so is the address.  *)
LEMMA StopOneKernel ==
    ASSUME IInv, KernelInv, NEW c \in Clients, Stop(c), ~StopDies(c) PROVE KernelInv'
<1> DEFINE name == members[c].class
           slot == members[c].slot
           cfg == ClassOf(name)
           a == Address(cfg, slot)
<1>1. /\ UNCHANGED <<plan, files, at, k, list, todo>> /\ todo = {}
      /\ members' = [members EXCEPT ![c] = Offline] /\ rows' \subseteq rows
      /\ plan.reliable => \A r \in rows' : r.client # c
      /\ at \in Running
      /\ IF (name # NoClass /\ ByName(name) # {} /\ slot # 0) /\ slot <= SizeOf(cfg)
         THEN Unmap(c, cfg, slot) ELSE UNCHANGED kernel
  <2>1. at \in {"serve"} \cup Reloading
    BY StopCases
  <2>2. at \in {"serve", "read", "unused"}
    BY <2>1 DEF Reloading
  <2>3. plan.reliable => \A r \in rows' : r.client # c
    BY StopCases DEF RowsLeft
  <2>4. QED
    BY <2>2, <2>3, StopCases DEF bounds, Running, IInv, Waiting
<1>2. /\ members \in [Clients -> Member] /\ rows \subseteq Row
      /\ to \subseteq Clients \X Addrs /\ from \subseteq Addrs \X Clients
  BY DEF IInv, SessionTypes
<1>3. /\ ~members'[c].on /\ ~InClass(c)'
      /\ \A d \in Clients \ {c} : members'[d] = members[d]
      /\ \A d \in Clients \ {c} : InClass(d)' <=> InClass(d)
  BY <1>1, <1>2 DEF InClass, Offline
<1>4. SessionOrder'
  <2>1. Offliners'
    BY <1>1, <1>3 DEF KernelInv, SessionOrder, Offliners, InClass
  <2>2. ASSUME plan.reliable PROVE OneRow' /\ TodoOff' /\ RowsOn'
    <3>1. OneRow /\ RowsOn
      BY <2>2 DEF KernelInv, SessionOrder
    <3>2. \A r \in rows : r.client \in Clients
      BY <1>2 DEF Row
    <3>3. QED
      BY <1>1, <1>3, <2>2, <3>1, <3>2 DEF OneRow, TodoOff, RowsOn
  <2>3. QED
    BY <1>1, <2>1, <2>2 DEF SessionOrder
<1>5. ASSUME Undisturbed
      PROVE  Kept' /\ AllPlaced' /\ Served' /\ (plan.reliable => Translated')
  <2>1. Kept /\ AllPlaced /\ Served /\ (plan.reliable => Translated)
    BY <1>1, <1>5 DEF KernelInv
  <2>2. Kept'
    BY <1>1, <2>1 DEF Kept
  <2>3. AllPlaced'
    BY <1>1, <1>3, <2>1 DEF AllPlaced, Placed, SizeOf
  <2>4. IF InClass(c) THEN /\ to' = to \ {<<c, members[c].addr>>}
                           /\ from' = from \ {<<members[c].addr, c>>}
        ELSE UNCHANGED kernel
    <3>1. CASE InClass(c)
      <4>1. PICK i \in DOMAIN list :
               list[i].cfg.name = name /\ slot # 0 /\ slot <= SizeOf(list[i].cfg)
        BY <2>1, <3>1 DEF AllPlaced, Placed
      <4>2. name # NoClass /\ ByName(name) # {}
        BY <3>1, <4>1 DEF InClass, ByName
      <4>3. cfg \in plan.configs /\ cfg.name = name /\ list[i].cfg \in plan.configs
        BY <4>2, FoundClass, InPlan DEF IInv
      <4>4. cfg = list[i].cfg
        BY <1>5, <4>1, <4>3 DEF Undisturbed, NamesKept
      <4>5. PICK e \in plan.configs : e.name = name /\ members[c].addr = Address(e, slot)
        BY <1>5, <3>1 DEF Undisturbed, IInv, Led
      <4>6. e = cfg
        BY <1>5, <4>3, <4>5 DEF Undisturbed, NamesKept
      <4> HIDE DEF cfg
      <4>7. a = members[c].addr
        BY <4>5, <4>6
      <4>8. Unmap(c, cfg, slot)
        BY <1>1, <4>1, <4>2, <4>4
      <4>9. <<c, a>> \in to /\ <<a, c>> \in from
        BY <2>1, <3>1, <4>7 DEF Served
      <4> HIDE DEF a
      <4>10. to' \in Deleted(to, c, a)
             /\ (to' # to => from' \in Deleted(from, a, c))
        BY <4>8 DEF Unmap, a
      <4>11. to' = to \ {<<c, a>>} /\ to' # to
        BY <4>9, <4>10 DEF Deleted
      <4>12. from' = from \ {<<a, c>>}
        BY <4>9, <4>10, <4>11 DEF Deleted
      <4>13. QED
        BY <3>1, <4>7, <4>11, <4>12
    <3>2. CASE ~InClass(c)
      BY <1>1, <3>2 DEF InClass
    <3>3. QED
      BY <3>1, <3>2
  <2>8. Served'
    <3>1. ASSUME NEW d \in Clients, InClass(d)'
          PROVE  <<d, members'[d].addr>> \in to' /\ <<members'[d].addr, d>> \in from'
      <4>1. d # c /\ InClass(d) /\ members'[d] = members[d]
        BY <1>3, <3>1
      <4>2. QED
        BY <2>1, <2>4, <4>1 DEF Served, kernel
    <3>2. QED
      BY <3>1 DEF Served
  <2>5. ASSUME plan.reliable, NEW d \in Clients, NEW b \in Addrs
        PROVE  /\ <<d, b>> \in to' <=> InClass(d)' /\ members'[d].addr = b
               /\ <<b, d>> \in from' <=> InClass(d)' /\ members'[d].addr = b
    <3>1. CASE d = c
      BY <1>3, <2>1, <2>4, <2>5, <3>1 DEF Translated, kernel
    <3>2. CASE d # c
      BY <1>3, <2>1, <2>4, <2>5, <3>2 DEF Translated, kernel
    <3>3. QED
      BY <3>1, <3>2
  <2>6. plan.reliable => Translated'
    BY <2>5 DEF Translated
  <2>7. QED
    BY <2>2, <2>3, <2>6, <2>8
<1>6. QED
  BY <1>4, <1>5, UndisturbedSame, <1>1 DEF KernelInv

LEMMA StopKernel ==
    ASSUME IInv, KernelInv, NEW c \in Clients, Stop(c) PROVE KernelInv'
<1>1. CASE StopDies(c)
  BY <1>1, StopCases, KernelGone DEF Die, GoTo, Running, bounds
<1>2. QED
  BY <1>1, StopOneKernel

LEMMA LoginKernel ==
    ASSUME IInv, KernelInv, NEW c \in Clients, NEW mac \in Macs, NEW name \in ClassNames,
           Login(c, mac, name)
    PROVE  KernelInv'
<1>1. at = "serve" /\ ~members[c].on /\ todo = {} /\ UNCHANGED <<files, plan>>
  BY DEF Login, bounds, IInv, Waiting
<1>2. CASE LoginDies(name)
  BY <1>1, <1>2, KernelGone DEF Login, LoginDies, Die, GoTo, Running
<1>3. CASE ~LoginDies(name)
  <2>1. StartSess(c, mac, name, 0) /\ UNCHANGED <<at, k, list, todo>>
    BY <1>3 DEF Login, LoginDies
  <2>2. 0 \in Addrs
    <3>1. 2 ^ Width \in Nat \ {0}
      BY ServiceClassAssumption
    <3>2. QED
      BY <3>1 DEF Addrs
  <2>3. plan.reliable => \A r \in rows : r.client # c
    BY <1>1 DEF KernelInv, SessionOrder, RowsOn, Running
  <2>4. QED
    BY <1>1, <2>1, <2>2, <2>3, StartSessKernel DEF Running
<1>4. QED
  BY <1>2, <1>3

LEMMA RestoreKernel == ASSUME IInv, KernelInv, Restore PROVE KernelInv'
<1>1. at = "restore" /\ UNCHANGED <<plan, files>>
  BY RestoreCases DEF bounds
<1>2. CASE Die("failed") /\ UNCHANGED <<rows, kernel>>
  BY <1>1, <1>2, KernelGone DEF Die, GoTo, Running
<1>3. CASE \E r \in todo : /\ r \in rows /\ r.client \in Clients /\ r.mac \in Macs
                           /\ r.slot \in Addrs /\ RestoreOf(r)
  <2>1. PICK r \in todo : /\ r \in rows /\ r.client \in Clients /\ r.mac \in Macs
                          /\ r.slot \in Addrs /\ RestoreOf(r)
    BY <1>3
  <2>2. /\ todo' = todo \ {r} /\ UNCHANGED <<at, k, list>>
        /\ StartSess(r.client, r.mac, r.class, r.slot)
    BY <2>1 DEF RestoreOf
  <2>3. todo \subseteq rows
    BY DEF IInv, Waiting
  <2>4. plan.reliable => OneRow /\ TodoOff
    BY DEF KernelInv, SessionOrder
  <2>5. plan.reliable =>
            /\ ~members[r.client].on
            /\ \A s \in todo' : s.client # r.client
            /\ \A s \in rows : s.client = r.client => s.mac = r.mac
            /\ \A s \in todo \ todo' : s.client = r.client
    BY <2>1, <2>2, <2>3, <2>4 DEF OneRow, TodoOff
  <2>6. QED
    BY <1>1, <2>1, <2>2, <2>5, StartSessKernel DEF Running
<1>4. QED
  BY <1>2, <1>3, RestoreCases

LEMMA InitKernel == Init => KernelInv
BY DEF Init, KernelInv, SessionOrder, Offliners, OneRow, TodoOff, RowsOn, Running,
       InClass, NoMembers, Offline

LEMMA StepKernel == IInv /\ ListInv /\ KernelInv /\ ListInv' /\ [Next]_vars => KernelInv'
<1> SUFFICES ASSUME IInv, ListInv, KernelInv, ListInv', [Next]_vars PROVE KernelInv'
  OBVIOUS
<1>1. CASE register_serviceclass
  BY <1>1, RegisterKernel
<1>2. CASE serviceclass_reload
  BY <1>2, ReloadKernel
<1>3. CASE serviceclass_unused_cleanup
  BY <1>3, UnusedKernel
<1>4. CASE startservice
  BY <1>4, StartserviceKernel
<1>5. CASE Restore
  BY <1>5, RestoreKernel
<1>6. CASE Restored
  <2>1. at = "restore" /\ UNCHANGED <<plan, sessions, files, list>>
    BY <1>6 DEF Restored, bounds
  <2>2. Undisturbed => Kept' /\ AllPlaced'
    BY <2>1 DEF KernelInv, Running, Kept, AllPlaced, Placed, InClass, sessions, SizeOf
  <2>3. QED
    BY <2>1, <2>2, KernelSame DEF Running
<1>7. CASE \E dir \in Directories : Boot(dir) \/ Hangup(dir)
  BY <1>7, DirectoryKernel
<1>8. CASE Crash \/ Terminate
  <2>1. rows' \subseteq rows
    BY <1>8 DEF Crash, Terminate
  <2>2. QED
    BY <1>8, <2>1, KernelGone DEF Crash, Terminate, Die, GoTo, Running
<1>9. CASE \E c \in Clients, mac \in Macs, name \in ClassNames : Login(c, mac, name)
  BY <1>9, LoginKernel
<1>10. CASE \E c \in Clients : Stop(c)
  BY <1>10, StopKernel
<1>11. CASE UNCHANGED vars
  <2>1. Undisturbed /\ at \in Running => Kept' /\ AllPlaced'
    BY <1>11 DEF vars, KernelInv, Kept, AllPlaced, Placed, InClass, SizeOf
  <2>2. QED
    BY <1>11, <2>1, KernelSame DEF vars, sessions
<1>12. QED
  BY <1>1, <1>2, <1>3, <1>4, <1>5, <1>6, <1>7, <1>8, <1>9, <1>10, <1>11 DEF Next

LEMMA KernelInvariant == Spec => [](IInv /\ ListInv /\ KernelInv)
<1>1. QED
  BY InitInv, InitList, InitKernel, StepInv, StepList, StepKernel, PTL DEF Spec

(* A session that was told a mapping is translated, there and back,        *)
(* through any reloads and ends of the process, as long as no class goes   *)
(* or changes its network and the kernel has room; and if SQL works nobody *)
(* else is.                                                                *)
THEOREM KernelServesSessions == Spec => []KernelServesMembers
<1>1. IInv /\ KernelInv => KernelServesMembers
  <2> DEFINE mine == {c \in Clients : InClass(c)}
             there == {<<c, members[c].addr>> : c \in mine}
             back == {<<members[c].addr, c>> : c \in mine}
  <2> SUFFICES ASSUME IInv, KernelInv, Undisturbed, at \in {"serve"} \cup Reloading
               PROVE  /\ there \subseteq to /\ back \subseteq from
                      /\ plan.reliable => to = there /\ from = back
    BY DEF KernelServesMembers, Undisturbed
  <2>1. Served /\ (plan.reliable => Translated)
    BY DEF KernelInv, Running, Reloading
  <2>2. to \subseteq Clients \X Addrs /\ from \subseteq Addrs \X Clients
    BY DEF IInv, SessionTypes
  <2>3. there \subseteq to /\ back \subseteq from
    BY <2>1 DEF Served
  <2>4. ASSUME plan.reliable, NEW p \in to PROVE p \in there
    <3>1. PICK c \in Clients, a \in Addrs : p = <<c, a>>
      BY <2>2, <2>4
    <3>2. InClass(c) /\ members[c].addr = a
      BY <2>1, <2>4, <3>1 DEF Translated
    <3>3. QED
      BY <3>1, <3>2
  <2>5. ASSUME plan.reliable, NEW p \in from PROVE p \in back
    <3>1. PICK c \in Clients, a \in Addrs : p = <<a, c>>
      BY <2>2, <2>5
    <3>2. InClass(c) /\ members[c].addr = a
      BY <2>1, <2>5, <3>1 DEF Translated
    <3>3. QED
      BY <3>1, <3>2
  <2> HIDE DEF there, back
  <2>6. QED
    BY <2>3, <2>4, <2>5
<1>2. QED
  BY <1>1, KernelInvariant, PTL

-----------------------------------------------------------------------------
(* The rows, if SQL works. *)

Recorded == Undisturbed /\ plan.reliable

RowOf(c) == <<c, members[c].class, members[c].slot>>
Of(r) == <<r.client, r.class, r.slot>>

(* A row is of no class, or its class is in the directory with its slot.   *)
HasPlace(class, slot) ==
    /\ slot # 0 /\ class # NoClass
    /\ \E j \in DOMAIN files : /\ files[j].readable
                               /\ files[j].config.name = class
                               /\ slot <= SizeOf(files[j].config)
RowsPlaced ==
    \A r \in rows :
        (r.class = NoClass /\ r.slot = 0) \/ HasPlace(r.class, r.slot)

(* No two rows lead to one address, also of different classes.             *)
RowsApart ==
    \A r, s \in rows, c, d \in plan.configs :
        r.class # NoClass /\ s.class # NoClass /\ c.name = r.class /\ d.name = s.class
            /\ Address(c, r.slot) = Address(d, s.slot) => r = s

(* Sessions and rows are the same, but for rows still to be restored.      *)
SameRows ==
    /\ \A c \in Clients : members[c].on => \E r \in rows : Of(r) = RowOf(c)
    /\ \A r \in rows \ todo : members[r.client].on /\ Of(r) = RowOf(r.client)

RowsInv ==
    Recorded => RowsPlaced /\ RowsApart /\ (at \in Running => SameRows)

LEMMA FilesInPlan ==
    ASSUME IInv, NEW j \in DOMAIN files PROVE files[j].config \in plan.configs
<1>1. files[j] \in FilesOf
  BY DEF IInv, Lists
<1>2. QED
  BY <1>1 DEF FilesOf

LEMMA RowFields ==
    ASSUME IInv, NEW r \in rows
    PROVE  r.client \in Clients /\ r.mac \in Macs /\ r.slot \in Addrs
BY DEF IInv, SessionTypes, Row

(* Only the list, the files and the phase change.                          *)
LEMMA RowsSame ==
    ASSUME RowsInv, UNCHANGED <<plan, sessions>>, at' \in Running => at \in Running,
           Recorded => \A j \in DOMAIN files : files[j].readable =>
               \E i \in DOMAIN files' :
                   files'[i].readable /\ files'[i].config = files[j].config
    PROVE  RowsInv'
<1> SUFFICES ASSUME Recorded'
             PROVE  RowsPlaced' /\ RowsApart' /\ (at' \in Running => SameRows')
  BY DEF RowsInv
<1>1. Recorded
  BY UndisturbedSame DEF Recorded
<1>2. RowsPlaced /\ RowsApart /\ (at \in Running => SameRows)
  BY <1>1 DEF RowsInv
<1>3. RowsPlaced'
  BY <1>1, <1>2 DEF RowsPlaced, HasPlace, sessions, SizeOf
<1>4. RowsApart'
  BY <1>2 DEF RowsApart, sessions, Address
<1>5. at' \in Running => SameRows'
  BY <1>2 DEF SameRows, RowOf, sessions
<1>6. QED
  BY <1>3, <1>4, <1>5

(* Rows may go while nobody is served.                                     *)
LEMMA RowsGone ==
    ASSUME RowsInv, UNCHANGED <<plan, files>>, rows' \subseteq rows, at' \notin Running
    PROVE  RowsInv'
BY UndisturbedSame DEF RowsInv, Recorded, RowsPlaced, HasPlace, RowsApart, SizeOf, Address

LEMMA LoginRows ==
    ASSUME IInv, KernelInv, RowsInv, NEW c \in Clients, NEW mac \in Macs,
           NEW name \in ClassNames, Login(c, mac, name), ~LoginDies(name)
    PROVE  RowsInv'
<1> SUFFICES ASSUME Recorded'
             PROVE  RowsPlaced' /\ RowsApart' /\ (at' \in Running => SameRows')
  BY DEF RowsInv
<1>1. /\ at = "serve" /\ ~members[c].on /\ todo = {} /\ todo' = {}
      /\ UNCHANGED <<files, plan, at, list>> /\ StartSess(c, mac, name, 0)
  BY DEF Login, LoginDies, bounds, IInv, Waiting
<1>2. Recorded
  BY <1>1, UndisturbedSame DEF Recorded
<1>3. /\ RowsPlaced /\ RowsApart /\ SameRows
      /\ Kept /\ Translated
  BY <1>1, <1>2 DEF RowsInv, Recorded, KernelInv, Running
<1>4. \A r \in rows : r.client # c
  BY <1>1, <1>3 DEF SameRows
<1>5. /\ members \in [Clients -> Member] /\ rows \subseteq Row /\ plan \in Plans
      /\ from \subseteq Addrs \X Clients
  BY DEF IInv, SessionTypes, Bounds
<1>6. 0 \in Addrs
  <2>1. 2 ^ Width \in Nat \ {0}
    BY ServiceClassAssumption
  <2>2. QED
    BY <2>1 DEF Addrs
<1>7. PICK new : rows' = rows \cup {new} /\ Of(new) = RowOf(c)'
                 /\ new.client = c /\ new.class = members'[c].class
                 /\ new.slot = members'[c].slot
  <2> DEFINE row == [client |-> c, mac |-> mac, class |-> members'[c].class,
                     slot |-> members'[c].slot]
  <2>1. Saved(c, mac)
    BY <1>1, <1>6, StartSessCases
  <2>2. rows' = rows \cup {row}
    BY <1>2, <1>4, <2>1 DEF Saved, Recorded
  <2>3. Of(row) = RowOf(c)'
    BY DEF Of, RowOf
  <2>4. QED
    BY <2>2, <2>3
<1>11. ASSUME members'[c].on, \A d \in Clients \ {c} : members'[d] = members[d]
       PROVE  SameRows'
  <2>1. ASSUME NEW d \in Clients, members'[d].on
        PROVE  \E r \in rows' : Of(r) = RowOf(d)'
    <3>1. CASE d = c
      BY <1>7, <3>1
    <3>2. CASE d # c
      <4>1. RowOf(d)' = RowOf(d) /\ members[d].on
        BY <1>11, <2>1, <3>2 DEF RowOf
      <4>2. QED
        BY <1>3, <1>7, <4>1 DEF SameRows
    <3>3. QED
      BY <3>1, <3>2
  <2>2. ASSUME NEW r \in rows' \ todo'
        PROVE  members'[r.client].on /\ Of(r) = RowOf(r.client)'
    <3>1. CASE r = new
      BY <1>7, <1>11, <3>1
    <3>2. CASE r # new
      <4>1. r \in rows \ todo /\ r.client \in Clients /\ r.client # c
        BY <1>1, <1>4, <1>7, <2>2, <3>2, RowFields
      <4>2. members[r.client].on /\ Of(r) = RowOf(r.client)
        BY <1>3, <4>1 DEF SameRows
      <4>3. QED
        BY <1>11, <4>1, <4>2 DEF RowOf
    <3>3. QED
      BY <3>1, <3>2
  <2>3. QED
    BY <2>1, <2>2 DEF SameRows, Of
<1>8. CASE NotMapped(c)
  <2>1. /\ members'[c].on /\ members'[c].class = NoClass /\ members'[c].slot = 0
        /\ \A d \in Clients \ {c} : members'[d] = members[d]
    BY <1>5, <1>8 DEF NotMapped, Offline
  <2>2. new.class = NoClass /\ new.slot = 0
    BY <1>7, <2>1
  <2>3. RowsPlaced'
    BY <1>1, <1>3, <1>7, <2>2 DEF RowsPlaced, HasPlace, SizeOf
  <2>4. RowsApart'
    BY <1>1, <1>3, <1>7, <2>2 DEF RowsApart, Address
  <2>6. QED
    BY <1>11, <2>1, <2>3, <2>4
<1>9. CASE /\ ByName(name) # {}
           /\ \E s \in Addrs : Mapped(c, ClassOf(name), s) /\ CanMap(c, ClassOf(name), s)
  <2> DEFINE cfg == ClassOf(name)
  <2>1. PICK s \in Addrs : Mapped(c, cfg, s) /\ CanMap(c, cfg, s)
    BY <1>9
  <2>2. /\ cfg \in plan.configs /\ cfg.name # NoClass
        /\ \E i \in DOMAIN list : list[i].cfg = cfg
    <3>1. /\ Min(ByName(name)) \in DOMAIN list /\ ClassOf(name) \in plan.configs
          /\ ClassOf(name).name # NoClass
      BY <1>9, FoundClass DEF IInv
    <3>2. QED
      BY <3>1 DEF ClassOf
  <2> HIDE DEF cfg
  <2>3. /\ members' = [members EXCEPT ![c] = [on |-> TRUE, class |-> cfg.name,
                                    slot |-> s, addr |-> Address(cfg, s)]]
        /\ s # 0 /\ s <= SizeOf(cfg) /\ ~HasKey(from, Address(cfg, s))
    BY <2>1 DEF Mapped, CanMap
  <2>4. /\ members'[c].on /\ members'[c].class = cfg.name /\ members'[c].slot = s
        /\ \A d \in Clients \ {c} : members'[d] = members[d]
    BY <1>5, <2>3
  <2>5. new.class = cfg.name /\ new.slot = s
    BY <1>7, <2>4
  <2>6. HasPlace(cfg.name, s)
    BY <1>3, <2>2, <2>3 DEF Kept, HasPlace
  <2>7. RowsPlaced'
    BY <1>1, <1>3, <1>7, <2>5, <2>6 DEF RowsPlaced, HasPlace, SizeOf
  <2>8. ASSUME NEW r \in rows, NEW d \in plan.configs, r.class # NoClass,
               d.name = r.class
        PROVE  Address(d, r.slot) # Address(cfg, s)
    <3>1. Of(r) = RowOf(r.client) /\ r.client \in Clients
      BY <1>1, <1>3, RowFields DEF SameRows
    <3>2. members[r.client].class = d.name /\ members[r.client].slot = r.slot
      BY <2>8, <3>1 DEF RowOf, Of
    <3>3. InClass(r.client)
      BY <2>8, <3>2 DEF InClass
    <3>4. PICK e \in plan.configs : /\ e.name = d.name
                                    /\ members[r.client].addr = Address(e, r.slot)
      BY <1>2, <3>1, <3>2, <3>3, ZenonT(30) DEF IInv, Led, Recorded, Undisturbed
    <3>5. e = d
      BY <1>2, <3>4 DEF Recorded, Undisturbed, NamesKept
    <3>6. <<Address(d, r.slot), r.client>> \in from
      BY <1>2, <3>1, <3>3, <3>4, <3>5 DEF IInv, Led, Recorded, Undisturbed
    <3>7. HasKey(from, Address(d, r.slot))
      BY <3>6 DEF HasKey
    <3>8. QED
      BY <2>3, <3>7
  <2>9. RowsApart'
    <3> SUFFICES ASSUME NEW r \in rows', NEW t \in rows',
                        NEW e \in plan.configs, NEW d \in plan.configs,
                        r.class # NoClass, t.class # NoClass,
                        e.name = r.class, d.name = t.class,
                        Address(e, r.slot) = Address(d, t.slot)
                 PROVE  r = t
      BY <1>1 DEF RowsApart, Address
    <3>1. CASE r \in rows /\ t \in rows
      BY <1>3, <3>1 DEF RowsApart
    <3>2. CASE r \in rows /\ t = new
      <4>1. d = cfg
        BY <1>2, <2>2, <2>5, <3>2 DEF Recorded, Undisturbed, NamesKept
      <4>2. QED
        BY <2>5, <2>8, <3>2, <4>1
    <3>3. CASE r = new /\ t \in rows
      <4>1. e = cfg
        BY <1>2, <2>2, <2>5, <3>3 DEF Recorded, Undisturbed, NamesKept
      <4>2. QED
        BY <2>5, <2>8, <3>3, <4>1
    <3>4. QED
      BY <1>7, <3>1, <3>2, <3>3
  <2>10. QED
    BY <1>11, <2>4, <2>7, <2>9
<1>10. QED
  BY <1>1, <1>6, <1>8, <1>9, StartSessCases

(* A row is restored to the session it was: its class is served, with its  *)
(* slot, and nobody restored before it has its address.                    *)
LEMMA RestoreOneRows ==
    ASSUME IInv, ListInv, KernelInv, RowsInv, at = "restore", UNCHANGED <<files, bounds>>,
           NEW r \in todo, r \in rows, r.client \in Clients, r.mac \in Macs,
           r.slot \in Addrs, RestoreOf(r)
    PROVE  RowsInv'
<1> SUFFICES ASSUME Recorded'
             PROVE  RowsPlaced' /\ RowsApart' /\ (at' \in Running => SameRows')
  BY DEF RowsInv
<1> DEFINE c == r.client
<1>1. todo' = todo \ {r} /\ StartSess(c, r.mac, r.class, r.slot)
  BY DEF RestoreOf
<1>2. at = "restore" /\ UNCHANGED <<files, plan, at, list>>
  BY DEF RestoreOf, bounds
<1>3. /\ r \in rows /\ c \in Clients /\ r.mac \in Macs /\ r.slot \in Addrs
      /\ Of(r) = <<c, r.class, r.slot>>
  BY DEF Of
<1>4. Recorded
  BY <1>2, UndisturbedSame DEF Recorded
<1>5. /\ RowsPlaced /\ RowsApart /\ SameRows /\ Translated
      /\ OneRow /\ Offliners /\ ~members[c].on
  BY <1>1, <1>2, <1>4 DEF RowsInv, Recorded, KernelInv, SessionOrder, TodoOff, Running
<1>6. /\ members \in [Clients -> Member] /\ rows \subseteq Row /\ plan \in Plans
      /\ to \subseteq Clients \X Addrs /\ from \subseteq Addrs \X Clients
  BY DEF IInv, SessionTypes, Bounds
<1>7. rows' = rows
  <2>1. Saved(c, r.mac)
    BY <1>1, <1>3, StartSessCases
  <2>2. QED
    BY <1>3, <2>1 DEF Saved
<1>8. /\ RowOf(c)' = Of(r) /\ members'[c].on
      /\ \A d \in Clients \ {c} : members'[d] = members[d]
  <2>1. CASE r.class = NoClass /\ r.slot = 0
    <3>1. ByName(NoClass) = {}
      BY DEF ByName
    <3>2. NotMapped(c)
      BY <1>1, <1>3, <2>1, <3>1, StartSessCases
    <3>3. /\ members'[c].on /\ members'[c].class = NoClass /\ members'[c].slot = 0
          /\ \A d \in Clients \ {c} : members'[d] = members[d]
      BY <1>3, <1>6, <3>2 DEF NotMapped, Offline
    <3>4. QED
      BY <1>3, <2>1, <3>3 DEF RowOf, Of
  <2>2. CASE HasPlace(r.class, r.slot)
    <3>1. PICK j \in DOMAIN files : /\ files[j].readable
                                    /\ files[j].config.name = r.class
                                    /\ r.slot # 0 /\ r.class # NoClass
                                    /\ r.slot <= SizeOf(files[j].config)
      BY <2>2 DEF HasPlace
    <3> DEFINE cfg == files[j].config
    <3>2. cfg \in plan.configs /\ cfg.name = r.class
      BY <3>1, FilesInPlan
    <3>3. ByName(r.class) # {}
      <4>1. FromFiles
        BY <1>2, <1>4 DEF ListInv, InOrder, Recorded, Undisturbed, NamesKept
      <4>2. PICK i \in DOMAIN list : list[i].cfg = cfg
        BY <3>1, <4>1 DEF FromFiles
      <4>3. QED
        BY <3>1, <3>2, <4>2 DEF ByName
    <3>4. ClassOf(r.class) = cfg
      <4>1. ClassOf(r.class) \in plan.configs /\ ClassOf(r.class).name = r.class
        BY <3>3, FoundClass DEF IInv
      <4>2. QED
        BY <1>4, <3>2, <4>1 DEF Recorded, Undisturbed, NamesKept
    <3>5. r.slot # 0 /\ r.slot <= SizeOf(cfg)
      BY <3>1
    <3> HIDE DEF cfg
    <3> DEFINE a == Address(cfg, r.slot)
    <3>6. ~HasKey(to, c)
      <4> SUFFICES ASSUME NEW p \in to, p[1] = c PROVE FALSE
        BY DEF HasKey
      <4>1. PICK b \in Addrs : p = <<c, b>>
        BY <1>6
      <4>2. InClass(c)
        BY <1>3, <1>5, <4>1 DEF Translated
      <4>3. QED
        BY <1>3, <1>5, <4>2 DEF Offliners
    <3>7. ~HasKey(from, a)
      <4> SUFFICES ASSUME NEW p \in from, p[1] = a PROVE FALSE
        BY DEF HasKey
      <4> HIDE DEF a
      <4>1. PICK d \in Clients : p = <<a, d>> /\ a \in Addrs
        BY <1>6
      <4>2. InClass(d) /\ members[d].addr = a
        BY <1>5, <4>1 DEF Translated
      <4>3. PICK e \in plan.configs : /\ e.name = members[d].class
                                      /\ a = Address(e, members[d].slot)
        BY <1>4, <4>2 DEF IInv, Led, Recorded, Undisturbed
      <4>4. PICK q \in rows : Of(q) = RowOf(d)
        BY <1>5, <4>2 DEF SameRows, Offliners
      <4>5. /\ e.name = q.class /\ a = Address(e, q.slot) /\ q.class # NoClass
            /\ q.client = d
        BY <4>2, <4>3, <4>4 DEF RowOf, Of, InClass
      <4>6. q = r
        BY <1>3, <1>5, <3>1, <3>2, <4>4, <4>5 DEF RowsApart, a
      <4>7. d = c
        BY <4>5, <4>6
      <4>8. QED
        BY <1>3, <1>5, <4>2, <4>7 DEF Offliners
    <3>8. CanMap(c, cfg, r.slot)
      BY <3>5, <3>6, <3>7 DEF CanMap
    <3>9. Mapped(c, cfg, r.slot)
      <4>1. ~(r.slot # 0 /\ ByName(r.class) # {} =>
                  ~CanMap(c, ClassOf(r.class), r.slot))
        BY <3>3, <3>4, <3>5, <3>8
      <4>2. \E s \in Addrs :
               /\ Mapped(c, ClassOf(r.class), s)
               /\ IF r.slot = 0 THEN s \in Drawn(ClassOf(r.class)) ELSE s = r.slot
        BY <1>1, <1>3, <4>1, StartSessCases
      <4>3. QED
        BY <3>4, <3>5, <4>2
    <3>10. members' = [members EXCEPT ![c] = [on |-> TRUE, class |-> cfg.name,
                                             slot |-> r.slot, addr |-> a]]
      BY <3>9 DEF Mapped
    <3> HIDE DEF a
    <3>11. /\ members'[c].on /\ members'[c].class = cfg.name
           /\ members'[c].slot = r.slot
           /\ \A d \in Clients \ {c} : members'[d] = members[d]
      BY <1>3, <1>6, <3>10
    <3>12. QED
      BY <1>3, <3>2, <3>11 DEF RowOf, Of
  <2>3. QED
    BY <1>3, <1>5, <2>1, <2>2 DEF RowsPlaced
<1> HIDE DEF c
<1>9. RowsPlaced'
  BY <1>2, <1>5, <1>7 DEF RowsPlaced, HasPlace, SizeOf
<1>10. RowsApart'
  BY <1>2, <1>5, <1>7 DEF RowsApart, Address
<1>11. SameRows'
  <2>1. ASSUME NEW d \in Clients, members'[d].on
        PROVE  \E q \in rows' : Of(q) = RowOf(d)'
    <3>1. CASE d = c
      BY <1>3, <1>7, <1>8, <3>1
    <3>2. CASE d # c
      BY <1>5, <1>7, <1>8, <2>1, <3>2 DEF SameRows, RowOf
    <3>3. QED
      BY <3>1, <3>2
  <2>2. ASSUME NEW s \in rows' \ todo'
        PROVE  members'[s.client].on /\ Of(s) = RowOf(s.client)'
    <3>1. CASE s = r
      BY <1>8, <3>1 DEF c
    <3>2. CASE s # r
      <4>1. s \in rows \ todo /\ s.client \in Clients
        BY <1>1, <1>7, <2>2, <3>2, RowFields
      <4>2. s.client # c
        BY <1>3, <1>5, <3>2, <4>1 DEF OneRow, c
      <4>3. members[s.client].on /\ Of(s) = RowOf(s.client)
        BY <1>5, <4>1 DEF SameRows
      <4>4. QED
        BY <1>8, <4>1, <4>2, <4>3 DEF RowOf
    <3>3. QED
      BY <3>1, <3>2
  <2>3. QED
    BY <2>1, <2>2 DEF SameRows, Of
<1>12. QED
  BY <1>9, <1>10, <1>11

LEMMA RestoreRows ==
    ASSUME IInv, ListInv, KernelInv, RowsInv, Restore PROVE RowsInv'
<1>1. at = "restore" /\ UNCHANGED <<files, bounds>>
  BY RestoreCases
<1>2. CASE Die("failed") /\ UNCHANGED <<rows, kernel>>
  BY <1>1, <1>2, RowsGone DEF Die, GoTo, Running, bounds
<1>3. CASE \E r \in todo : /\ r \in rows /\ r.client \in Clients /\ r.mac \in Macs
                           /\ r.slot \in Addrs /\ RestoreOf(r)
  BY <1>1, <1>3, RestoreOneRows
<1>4. QED
  BY <1>2, <1>3, RestoreCases

(* Every row waits for its restore.                                        *)
LEMMA StartserviceRows ==
    ASSUME IInv, RowsInv, startservice PROVE RowsInv'
<1> SUFFICES ASSUME Recorded'
             PROVE  RowsPlaced' /\ RowsApart' /\ (at' \in Running => SameRows')
  BY DEF RowsInv
<1>1. /\ members' = NoMembers /\ rows' = rows /\ UNCHANGED <<plan, files>>
      /\ todo' \in {rows} \cup (IF plan.reliable THEN {} ELSE {{}})
  BY DEF startservice, IInv, Waiting, bounds
<1>2. Recorded
  BY <1>1, UndisturbedSame DEF Recorded
<1>3. todo' = rows'
  BY <1>1, <1>2 DEF Recorded
<1>4. RowsPlaced'
  BY <1>1, <1>2 DEF RowsInv, RowsPlaced, HasPlace, SizeOf
<1>5. RowsApart'
  BY <1>1, <1>2 DEF RowsInv, RowsApart, Address
<1>6. SameRows'
  BY <1>1, <1>3 DEF SameRows, NoMembers, Offline
<1>7. QED
  BY <1>4, <1>5, <1>6

LEMMA StopOneRows ==
    ASSUME IInv, RowsInv, NEW c \in Clients, Stop(c), ~StopDies(c) PROVE RowsInv'
<1> SUFFICES ASSUME Recorded'
             PROVE  RowsPlaced' /\ RowsApart' /\ (at' \in Running => SameRows')
  BY DEF RowsInv
<1>1. /\ UNCHANGED <<plan, files, at, todo>> /\ todo = {}
      /\ members' = [members EXCEPT ![c] = Offline]
      /\ plan.reliable => rows' = {r \in rows : r.client # c}
  <2>1. plan.reliable => rows' = rows \ {r \in rows : r.client = c}
    BY StopCases DEF RowsLeft
  <2>2. at # "restore"
    BY StopCases DEF Reloading
  <2>3. QED
    BY <2>1, <2>2, StopCases DEF bounds, IInv, Waiting
<1>2. Recorded
  BY <1>1, UndisturbedSame DEF Recorded
<1>3. rows' = {r \in rows : r.client # c}
  BY <1>1, <1>2 DEF Recorded
<1>4. members \in [Clients -> Member]
  BY DEF IInv, SessionTypes
<1>5. ~members'[c].on /\ \A d \in Clients \ {c} : members'[d] = members[d]
  BY <1>1, <1>4 DEF Offline
<1>6. RowsPlaced' /\ RowsApart'
  <2>1. RowsPlaced'
    BY <1>1, <1>2, <1>3 DEF RowsInv, RowsPlaced, HasPlace, SizeOf
  <2>2. RowsApart'
    BY <1>1, <1>2, <1>3 DEF RowsInv, RowsApart, Address
  <2>3. QED
    BY <2>1, <2>2
<1>7. ASSUME at \in Running PROVE SameRows'
  <2>1. SameRows
    BY <1>2, <1>7 DEF RowsInv
  <2>2. ASSUME NEW d \in Clients, members'[d].on
        PROVE  \E r \in rows' : Of(r) = RowOf(d)'
    <3>1. d # c /\ members[d].on /\ RowOf(d)' = RowOf(d)
      BY <1>5, <2>2 DEF RowOf
    <3>2. PICK r \in rows : Of(r) = RowOf(d)
      BY <2>1, <3>1 DEF SameRows
    <3>3. r.client # c
      BY <3>1, <3>2 DEF Of, RowOf
    <3>4. QED
      BY <1>3, <3>1, <3>2, <3>3
  <2>3. ASSUME NEW r \in rows'
        PROVE  members'[r.client].on /\ Of(r) = RowOf(r.client)'
    <3>1. r \in rows /\ r.client \in Clients /\ r.client # c
      BY <1>3, <2>3, RowFields
    <3>2. members[r.client].on /\ Of(r) = RowOf(r.client)
      BY <1>1, <2>1, <3>1 DEF SameRows
    <3>3. QED
      BY <1>5, <3>1, <3>2 DEF RowOf
  <2>4. QED
    BY <2>2, <2>3 DEF SameRows, Of
<1>8. QED
  BY <1>1, <1>6, <1>7

LEMMA StopRows ==
    ASSUME IInv, RowsInv, NEW c \in Clients, Stop(c) PROVE RowsInv'
<1>1. CASE StopDies(c)
  BY <1>1, StopCases, RowsGone DEF Die, GoTo, Running, bounds
<1>2. QED
  BY <1>1, StopOneRows

(* What is in the directory stays there.                                   *)
LEMMA DirectoryRows ==
    ASSUME RowsInv, NEW dir \in Directories, Boot(dir) \/ Hangup(dir)
    PROVE  RowsInv'
<1>1. files' = dir /\ UNCHANGED <<plan, sessions>>
  BY DEF Boot, Hangup, bounds
<1>2. at' \in Running => at \in Running
  BY DEF Boot, Hangup, GoTo, Running
<1>3. ASSUME Recorded, NEW j \in DOMAIN files, files[j].readable
      PROVE  \E i \in DOMAIN files' :
                files'[i].readable /\ files'[i].config = files[j].config
  <2>1. Wanted(files) \subseteq Wanted(dir)
    BY <1>3 DEF Directories, Recorded, Undisturbed
  <2>2. QED
    BY <1>1, <1>3, <2>1 DEF Wanted
<1>4. QED
  BY <1>1, <1>2, <1>3, RowsSame

LEMMA InitRows == Init => RowsInv
BY DEF Init, RowsInv, RowsPlaced, RowsApart, Running

LEMMA StepRows == IInv /\ ListInv /\ KernelInv /\ RowsInv /\ [Next]_vars => RowsInv'
<1> SUFFICES ASSUME IInv, ListInv, KernelInv, RowsInv, [Next]_vars PROVE RowsInv'
  OBVIOUS
<1>9. CASE register_serviceclass /\ ReadDies
  BY <1>9, ReadDiesCase, RowsGone DEF Die, GoTo, Running, bounds
<1>1. CASE \/ register_serviceclass /\ ~ReadDies
           \/ serviceclass_reload \/ serviceclass_unused_cleanup
           \/ Restored \/ UNCHANGED vars
  <2>1. UNCHANGED <<plan, files, sessions>>
    BY <1>1, RegisterCases DEF serviceclass_reload,
                serviceclass_unused_cleanup, Restored, vars, bounds, sessions
  <2>2. at' \in Running => at \in Running
    BY <1>1, RegisterCases DEF serviceclass_reload,
                serviceclass_unused_cleanup, Restored, vars, Running
  <2>3. QED
    BY <2>1, <2>2, RowsSame
<1>2. CASE startservice
  BY <1>2, StartserviceRows
<1>3. CASE Restore
  BY <1>3, RestoreRows
<1>4. CASE \E dir \in Directories : Boot(dir) \/ Hangup(dir)
  BY <1>4, DirectoryRows
<1>5. CASE Crash \/ Terminate
  <2>1. /\ rows' \subseteq rows /\ at' \notin Running
        /\ UNCHANGED <<plan, files>>
    BY <1>5 DEF Crash, Terminate, Die, GoTo, Running
  <2>2. QED
    BY <2>1, RowsGone
<1>6. CASE \E c \in Clients, mac \in Macs, name \in ClassNames : Login(c, mac, name)
  <2>1. PICK c \in Clients, mac \in Macs, name \in ClassNames : Login(c, mac, name)
    BY <1>6
  <2>2. CASE LoginDies(name)
    BY <2>1, <2>2, RowsGone DEF Login, LoginDies, Die, GoTo, Running, bounds
  <2>3. QED
    BY <2>1, <2>2, LoginRows
<1>7. CASE \E c \in Clients : Stop(c)
  BY <1>7, StopRows
<1>8. QED
  BY <1>1, <1>2, <1>3, <1>4, <1>5, <1>6, <1>7, <1>9 DEF Next

LEMMA RowsInvariant == Spec => [](IInv /\ ListInv /\ KernelInv /\ RowsInv)
<1>1. QED
  BY InitInv, InitList, InitKernel, InitRows, StepInv, StepList, StepKernel, StepRows,
     PTL DEF Spec

(* A session keeps its class and its slot over reloads, crashes and        *)
(* restarts: while SQL works, what the one row of a session says is what   *)
(* the daemon has of it, and there is no other row.                        *)
THEOREM RowsAreSessions == Spec => []RowsMatchMembers
<1>1. IInv /\ KernelInv /\ RowsInv => RowsMatchMembers
  <2> DEFINE on == {d \in Clients : members[d].on}
  <2> SUFFICES ASSUME IInv, KernelInv, RowsInv, Recorded, at = "serve"
               PROVE  /\ \A r, s \in rows : r.client = s.client => r = s
                      /\ {Of(r) : r \in rows} = {RowOf(c) : c \in on}
    BY DEF RowsMatchMembers, Recorded, Undisturbed, Of, RowOf
  <2>1. SameRows /\ todo = {}
    BY DEF RowsInv, Running, IInv, Waiting
  <2>2. ASSUME NEW r \in rows PROVE r.client \in on /\ Of(r) = RowOf(r.client)
    BY <2>1, RowFields DEF SameRows
  <2>3. ASSUME NEW c \in on PROVE \E r \in rows : Of(r) = RowOf(c)
    BY <2>1 DEF SameRows
  <2>4. OneRow
    BY DEF KernelInv, SessionOrder, Recorded
  <2> HIDE DEF on
  <2>5. {Of(r) : r \in rows} = {RowOf(c) : c \in on}
    BY <2>2, <2>3
  <2>6. QED
    BY <2>4, <2>5 DEF OneRow
<1>2. QED
  BY <1>1, RowsInvariant, PTL
===============================================================================
