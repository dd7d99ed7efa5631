---------------------------- MODULE VServersProofs ----------------------------
(***************************************************************************)
(* Proofs about VServers and Interfaces, for any names, numbers, clients   *)
(* and plans, any number of ifb devices and any width of an int.           *)
(***************************************************************************)
EXTENDS VServers, ListLemmas, FiniteSetTheorems

(* The table of interfaces has its type, and no two entries have one ifb.  *)
TabOK(t) == t \in Table /\ Apart(t)

-----------------------------------------------------------------------------
(* The operators on the table. *)

LEMMA ModLemma ==
    ASSUME NEW n \in Nat \ {0}, NEW i \in Nat
    PROVE  i % n \in 0 .. n - 1 /\ i % n <= i /\ (i % n) % n = i % n
OBVIOUS

LEMMA MaskInside == ASSUME NEW i \in Ifbs PROVE Mask(i) \subseteq Ifbs
<1>1. IntBits \in Nat \ {0} /\ IntBits <= MaxIfb /\ MaxIfb \in Nat
  BY InterfacesAssumption
<1>2. i % IntBits \in 0 .. IntBits - 1
  BY <1>1, ModLemma DEF Ifbs
<1>3. QED
  BY <1>1, <1>2 DEF Mask, Ifbs

(* The number found has a bit of its own: the mask of a number is that of  *)
(* its remainder, which would have been found before.                      *)
LEMMA ReserveFree ==
    ASSUME NEW r, FreeIfbs(r) # {}
    PROVE  LET i == Min(FreeIfbs(r)) IN i \in Ifbs /\ i \in Mask(i) /\ i \notin r
<1> DEFINE i == Min(FreeIfbs(r))
           j == i % IntBits
<1>1. IntBits \in Nat \ {0} /\ IntBits <= MaxIfb /\ MaxIfb \in Nat
  BY InterfacesAssumption
<1>2. i \in FreeIfbs(r) /\ \A m \in FreeIfbs(r) : i <= m
  BY MinExists DEF FreeIfbs, Ifbs
<1> HIDE DEF i
<1>3. i \in Ifbs /\ i \in Nat
  BY <1>2 DEF FreeIfbs, Ifbs
<1>4. j \in 0 .. IntBits - 1 /\ j <= i /\ j % IntBits = j
  BY <1>1, <1>3, ModLemma
<1> HIDE DEF j
<1>5. Mask(j) = Mask(i)
  BY <1>4 DEF Mask, j
<1>6. j \in FreeIfbs(r)
  BY <1>1, <1>2, <1>4, <1>5 DEF FreeIfbs, Ifbs
<1>7. j = i
  BY <1>2, <1>3, <1>4, <1>6
<1>8. i \in Mask(i)
  BY <1>1, <1>3, <1>4, <1>7 DEF Mask, j, Ifbs
<1>9. i \notin r
  BY <1>2, <1>8 DEF FreeIfbs
<1>10. QED
  BY <1>3, <1>8, <1>9 DEF i

(* The first entry that a name matches is an entry.                        *)
LEMMA FirstFound ==
    ASSUME NEW L \in Seq(Entry), NEW d, Found(L, d) # {}
    PROVE  Min(Found(L, d)) \in DOMAIN L
<1>1. Found(L, d) \subseteq DOMAIN L /\ DOMAIN L \subseteq Nat
  BY DEF Found
<1>2. QED
  BY <1>1, MinExists

LEMMA AppendOK ==
    ASSUME NEW t, TabOK(t), NEW d
    PROVE  TabOK(append_interface(t, d))
<1>0. CASE d \notin Devs
  BY <1>0 DEF append_interface
<1> SUFFICES ASSUME d \in Devs PROVE TabOK(append_interface(t, d))
  BY <1>0
<1> DEFINE found == Found(t.list, d)
           i == ifb_interface_reserve(t.reserved)
           item == [dev |-> d, ifb |-> i, hit |-> 1, init |-> FALSE]
<1>1. /\ t \in [list : Seq(Entry), reserved : SUBSET Ifbs]
      /\ t.list \in Seq(Entry) /\ t.reserved \subseteq Ifbs /\ Apart(t)
  BY DEF TabOK, Table
<1>2. CASE found # {}
  <2> DEFINE m == Min(found)
             L == [t.list EXCEPT ![m].hit = @ + 1]
  <2>1. m \in DOMAIN t.list
    BY <1>1, <1>2, FirstFound
  <2>2. append_interface(t, d) = [t EXCEPT !.list = L]
    BY <1>1, <1>2 DEF append_interface
  <2> HIDE DEF m, found
  <2>3. \A k1 \in DOMAIN t.list : L[k1] \in Entry /\ L[k1].ifb = t.list[k1].ifb
    <3>1. \A k1 \in DOMAIN t.list : t.list[k1] \in Entry
      BY <1>1
    <3>2. QED
      BY <2>1, <3>1 DEF Entry
  <2>4. L \in Seq(Entry) /\ DOMAIN L = DOMAIN t.list
    <3>1. L = [k1 \in DOMAIN t.list |-> L[k1]]
      BY Zenon
    <3> HIDE DEF L
    <3>2. QED
      BY <1>1, <2>3, <3>1, ReplacedSeq
  <2> HIDE DEF L
  <2>5. QED
    BY <1>1, <2>2, <2>3, <2>4 DEF TabOK, Table, Apart
<1>3. CASE found = {} /\ i = NoIfb
  BY <1>3 DEF append_interface
<1>4. CASE found = {} /\ i # NoIfb
  <2>1. FreeIfbs(t.reserved) # {} /\ i = Min(FreeIfbs(t.reserved))
    BY <1>4 DEF ifb_interface_reserve
  <2>2. i \in Ifbs /\ i \in Mask(i) /\ i \notin t.reserved
    BY <2>1, ReserveFree
  <2> DEFINE L == Append(t.list, item)
             R == t.reserved \cup Mask(i)
  <2>3. append_interface(t, d) = [list |-> L, reserved |-> R]
    BY <1>4 DEF append_interface
  <2> HIDE DEF i
  <2>4. item \in Entry
    BY <2>2 DEF Entry
  <2>5. R \subseteq Ifbs
    BY <1>1, <2>2, MaskInside
  <2>6. /\ L \in Seq(Entry) /\ DOMAIN L = 1 .. Len(t.list) + 1
        /\ Len(t.list) \in Nat /\ DOMAIN t.list = 1 .. Len(t.list)
        /\ \A k1 \in DOMAIN t.list : L[k1] = t.list[k1]
        /\ L[Len(t.list) + 1].ifb = i
    BY <1>1, <2>4
  <2> HIDE DEF L, item
  <2>7. \A k1 \in DOMAIN L : L[k1].ifb \in R
    BY <1>1, <2>2, <2>6 DEF Apart
  <2>8. ASSUME NEW k1 \in DOMAIN L, NEW k2 \in DOMAIN L, L[k1].ifb = L[k2].ifb
        PROVE  k1 = k2
    <3>1. \A m \in DOMAIN t.list : t.list[m].ifb # i
      BY <1>1, <2>2 DEF Apart
    <3>2. QED
      BY <1>1, <2>6, <2>8, <3>1 DEF Apart
  <2>9. QED
    BY <2>3, <2>5, <2>6, <2>7, <2>8 DEF TabOK, Table, Apart
<1>5. QED
  BY <1>2, <1>3, <1>4

LEMMA SetInitOK ==
    ASSUME NEW t, TabOK(t), NEW i, NEW b \in BOOLEAN
    PROVE  TabOK(SetInit(t, i, b))
<1> DEFINE L == [m \in DOMAIN t.list |->
                    IF t.list[m].ifb = i THEN [t.list[m] EXCEPT !.init = b]
                    ELSE t.list[m]]
<1>1. /\ t \in [list : Seq(Entry), reserved : SUBSET Ifbs]
      /\ t.list \in Seq(Entry) /\ t.reserved \subseteq Ifbs /\ Apart(t)
  BY DEF TabOK, Table
<1>2. SetInit(t, i, b) = [t EXCEPT !.list = L]
  BY DEF SetInit
<1>3. \A m \in DOMAIN t.list : L[m] \in Entry /\ L[m].ifb = t.list[m].ifb
  <2>1. \A m \in DOMAIN t.list : t.list[m] \in Entry
    BY <1>1
  <2>2. QED
    BY <2>1 DEF Entry
<1>4. L \in Seq(Entry) /\ DOMAIN L = DOMAIN t.list
  <2>1. L = [m \in DOMAIN t.list |-> L[m]]
    OBVIOUS
  <2> HIDE DEF L
  <2>2. QED
    BY <1>1, <1>3, <2>1, ReplacedSeq
<1> HIDE DEF L
<1>5. QED
  BY <1>1, <1>2, <1>3, <1>4 DEF TabOK, Table, Apart

LEMMA RemoveOK ==
    ASSUME NEW t, TabOK(t), NEW d
    PROVE  TabOK(remove_interface(t, d))
<1> DEFINE found == Found(t.list, d)
           last == {m \in found : t.list[m].hit <= 1}
           all == [dev : Devs, ifb : Ifbs, hit : Nat, init : BOOLEAN]
           end == IF last = {} THEN Len(t.list) ELSE Min(last)
           C == [m \in DOMAIN t.list |-> IF m \in found /\ m <= end
                                         THEN [t.list[m] EXCEPT !.hit = @ - 1]
                                         ELSE t.list[m]]
<1>1. /\ t \in [list : Seq(Entry), reserved : SUBSET Ifbs]
      /\ t.list \in Seq(Entry) /\ t.reserved \subseteq Ifbs /\ Apart(t)
  BY DEF TabOK, Table
<1>2. ASSUME NEW m \in DOMAIN t.list
      PROVE  /\ t.list[m] \in Entry
             /\ t.list[m].hit <= 1 \/ t.list[m].hit > 1
  <2>1. t.list[m] \in Entry
    BY <1>1
  <2>2. QED
    BY <2>1 DEF Entry
<1>3. ASSUME NEW e \in Entry
      PROVE  LET less == [e EXCEPT !.hit = @ - 1] IN
             /\ less \in all /\ less.ifb = e.ifb /\ e \in all
             /\ e.hit > 1 => less \in Entry
  BY DEF Entry
<1>4. CASE last = {}
  <2>1. remove_interface(t, d) = [t EXCEPT !.list = C]
    BY <1>4 DEF remove_interface
  <2>2. \A m \in DOMAIN t.list : m \in found => t.list[m].hit > 1
    BY <1>4, <1>2
  <2> HIDE DEF found, end, last, all
  <2>3. ASSUME NEW m \in DOMAIN t.list
        PROVE  C[m] \in Entry /\ C[m].ifb = t.list[m].ifb
    <3>1. t.list[m] \in Entry
      BY <1>2
    <3>2. CASE m \in found /\ m <= end
      <4>1. C[m] = [t.list[m] EXCEPT !.hit = @ - 1]
        BY <3>2
      <4>2. QED
        BY <1>3, <2>2, <3>1, <3>2, <4>1
    <3>3. CASE ~(m \in found /\ m <= end)
      BY <3>1, <3>3
    <3>4. QED
      BY <3>2, <3>3
  <2>4. C \in Seq(Entry) /\ DOMAIN C = DOMAIN t.list
    <3>1. C = [m \in DOMAIN t.list |-> C[m]]
      OBVIOUS
    <3> HIDE DEF C
    <3>2. QED
      BY <1>1, <2>3, <3>1, ReplacedSeq
  <2> HIDE DEF C
  <2>5. QED
    BY <1>1, <2>1, <2>3, <2>4 DEF TabOK, Table, Apart
<1>5. CASE last # {}
  <2> DEFINE L == RemoveAt(C, end)
  <2>1. end \in last /\ \A m \in last : end <= m
    <3>1. last \subseteq Nat
      BY <1>1 DEF Found
    <3>2. QED
      BY <1>5, <3>1, MinExists
  <2>2. end \in DOMAIN t.list
    BY <2>1 DEF Found
  <2>3. remove_interface(t, d) =
           [list |-> L, reserved |-> t.reserved \ {t.list[end].ifb}]
    BY <1>5 DEF remove_interface, ifb_interface_release
  <2>4. \A m \in DOMAIN t.list : m \in found /\ m < end => t.list[m].hit > 1
    <3>1. \A m \in DOMAIN t.list : m < end => ~(end <= m)
      BY <1>1, <2>2
    <3>2. QED
      BY <1>2, <2>1, <3>1
  <2> HIDE DEF found, last, end, all
  <2>5. ASSUME NEW m \in DOMAIN t.list
        PROVE  /\ C[m] \in all /\ C[m].ifb = t.list[m].ifb
               /\ m # end => C[m] \in Entry
    <3>1. t.list[m] \in Entry
      BY <1>2
    <3>2. CASE m \in found /\ m <= end
      <4>1. C[m] = [t.list[m] EXCEPT !.hit = @ - 1]
        BY <3>2
      <4>2. m # end => m < end
        BY <1>1, <2>2, <3>2
      <4>3. QED
        BY <1>3, <2>4, <3>1, <3>2, <4>1, <4>2
    <3>3. CASE ~(m \in found /\ m <= end)
      <4>1. C[m] = t.list[m]
        BY <3>3
      <4>2. QED
        BY <1>3, <3>1, <4>1
    <3>4. QED
      BY <3>2, <3>3
  <2>6. C \in Seq(all) /\ DOMAIN C = DOMAIN t.list /\ Len(C) = Len(t.list)
    <3>1. C = [m \in DOMAIN t.list |-> C[m]]
      OBVIOUS
    <3> HIDE DEF C, all
    <3>2. QED
      BY <1>1, <2>5, <3>1, ReplacedSeq
  <2> HIDE DEF C, all
  <2>7. /\ Len(L) = Len(C) - 1 /\ L \in Seq(all)
        /\ \A j \in 1 .. Len(C) - 1 :
              L[j] = IF j < end THEN C[j] ELSE C[j + 1]
    BY <2>2, <2>6, RemoveAtSeq
  <2> HIDE DEF L
  <2>8. end \in 1 .. Len(C) /\ Len(C) \in Nat /\ DOMAIN L = 1 .. Len(C) - 1
        /\ DOMAIN C = 1 .. Len(C)
    BY <2>2, <2>6, <2>7
  <2> DEFINE old(j) == IF j < end THEN j ELSE j + 1
  <2>9. \A j \in DOMAIN L : /\ old(j) \in DOMAIN t.list /\ old(j) # end
                            /\ L[j] = C[old(j)]
    BY <2>6, <2>7, <2>8
  <2>10. \A j, m \in DOMAIN L : old(j) = old(m) => j = m
    BY <2>8
  <2> HIDE DEF old
  <2>11. L \in Seq(Entry)
    <3>1. \A j \in DOMAIN L : L[j] \in Entry
      BY <2>5, <2>9
    <3>2. QED
      BY <2>7, <3>1
  <2>12. \A j \in DOMAIN L : L[j].ifb \in t.reserved \ {t.list[end].ifb}
    BY <1>1, <2>2, <2>5, <2>9 DEF Apart
  <2>13. \A j, m \in DOMAIN L : L[j].ifb = L[m].ifb => j = m
    BY <1>1, <2>5, <2>9, <2>10 DEF Apart
  <2>14. QED
    BY <1>1, <2>3, <2>11, <2>12, <2>13 DEF TabOK, Table, Apart
<1>6. QED
  BY <1>4, <1>5

LEMMA GetOK ==
    ASSUME NEW t, TabOK(t), NEW d
    PROVE  get_interface(t, d) \in Ifbs \cup {NoIfb}
<1>1. t.list \in Seq(Entry)
  BY DEF TabOK, Table
<1>2. CASE Found(t.list, d) # {}
  <2>1. t.list[Min(Found(t.list, d))] \in Entry
    BY <1>1, <1>2, FirstFound
  <2>2. QED
    BY <1>2, <2>1 DEF get_interface, Entry
<1>3. QED
  BY <1>2 DEF get_interface

(* The invariant: the types, and the table of interfaces in order. *)

Bounds == plan \in Plans /\ reloads \in 0 .. MaxReloads /\ downs \in 0 .. MaxDowns

(* What was found again without other clients has a name.                  *)
Reread(s) == s.flag = "RELOAD" => s.dummy.name = s.cfg.name /\ s.cfg.name \in Names
Sound == {s \in Server : Reread(s)}

Memory ==
    /\ at \in Phases
    /\ k \in Nat \ {0}
    /\ list \in Seq(Server)
    /\ list \in Seq(Sound)
    /\ TabOK(tab)

Outside ==
    /\ nets \in [Names -> Nets \cup {NoNet}]
    /\ sets \in [Names -> SUBSET Clients]
    /\ runfiles \subseteq Names
    /\ shaped \subseteq Devs \X Ifbs
    /\ rows \subseteq Numbers \X Clients

IInv == Bounds /\ files \in Seq(File) /\ Memory /\ Outside

LEMMA EmptyOK == TabOK(NoInterfaces)
BY DEF TabOK, Table, NoInterfaces, Apart

LEMMA InitInv == Init => IInv
<1> SUFFICES ASSUME Init PROVE IInv
  OBVIOUS
<1>1. Bounds
  BY VServersAssumption DEF Init, Bounds
<1>2. Memory
  BY EmptyOK DEF Init, Memory, Phases
<1>3. QED
  BY <1>1, <1>2 DEF Init, IInv, Outside

LEMMA Element ==
    ASSUME list \in Seq(Server), NEW i \in DOMAIN list
    PROVE  /\ list[i] \in Server
           /\ list[i].cfg \in Config /\ list[i].dummy \in Config
           /\ list[i].cfg.name \in Names \cup {NoName}
           /\ list[i].cfg.dev \in Devs \cup {NoDev}
           /\ list[i].cfg.id \in Numbers
           /\ list[i].sess \subseteq Clients
<1>1. list[i] \in Server
  OBVIOUS
<1>2. QED
  BY <1>1 DEF Server, Config

LEMMA SoundList ==
    ASSUME NEW L, L \in Seq(Sound)
    PROVE  L \in Seq(Server)
BY DEF Sound

LEMMA DieMemory == ASSUME NEW p \in Phases, Die(p) PROVE Memory'
BY EmptyOK DEF Die, GoTo, Memory, NoInterfaces, TabOK, Apart, Table

(* The sets and the bandwidth script's run files keep their types.         *)
LEMMA SetsType ==
    ASSUME sets \in [Names -> SUBSET Clients], NEW n, NEW t \in SUBSET Clients
    PROVE  [sets EXCEPT ![n] = t] \in [Names -> SUBSET Clients]
OBVIOUS

LEMMA KnownType ==
    ASSUME NEW net \in Nets, NEW c \in Clients
    PROVE  Known(net, c) \in Clients
BY VServersAssumption DEF Known

LEMMA ShapingType ==
    ASSUME NEW t, TabOK(t), NEW i
    PROVE  Shaping(t, i) \subseteq Devs \X Ifbs
<1>1. t.list \in Seq(Entry)
  BY DEF TabOK, Table
<1>2. \A j \in DOMAIN t.list : t.list[j] \in Entry
  BY <1>1
<1>3. QED
  BY <1>2 DEF Shaping, WithIfb, Entry

LEMMA StartType ==
    ASSUME Outside, NEW t, TabOK(t), NEW i, bandwidth_start(t, i)
    PROVE  TabOK(tab') /\ shaped' \subseteq Devs \X Ifbs
<1>1. shaped' \in ShapedBy(t, i)
      /\ (tab' = t \/ tab' = SetInit(t, i, TRUE))
  BY DEF bandwidth_start
<1>2. shaped' = shaped \/ shaped' = shaped \cup Shaping(t, i)
  BY <1>1 DEF ShapedBy
<1>3. QED
  BY <1>1, <1>2, ShapingType, SetInitOK DEF Outside

LEMMA ShapedAfterType ==
    ASSUME Outside, NEW s, shaped' \in ShapedAfter(s)
    PROVE  shaped' \subseteq Devs \X Ifbs
<1>1. shaped' \subseteq shaped
  BY Zenon DEF ShapedAfter
<1>2. QED
  BY <1>1 DEF Outside

LEMMA RowsLeftType ==
    ASSUME Outside, NEW cfg, NEW gone, NEW r \in RowsLeft(cfg, gone)
    PROVE  r \subseteq rows /\ r \subseteq Numbers \X Clients
<1>1. r \subseteq rows
  BY Zenon DEF RowsLeft
<1>2. QED
  BY <1>1 DEF Outside

LEMMA RestoredType ==
    ASSUME NEW net \in Nets \cup {NoNet}, NEW id, NEW on \in Restored(net, id)
    PROVE  on \subseteq Clients
<1>1. CASE net # NoNet
  <2>1. on = {Known(net, c) : c \in RowsOf(id)}
    BY <1>1 DEF Restored
  <2>2. RowsOf(id) \subseteq Clients
    BY DEF RowsOf
  <2>3. \A c \in RowsOf(id) : Known(net, c) \in Clients
    BY <1>1, <2>2, KnownType
  <2>4. QED
    BY <2>1, <2>3
<1>2. CASE net = NoNet
  BY <1>2 DEF Restored
<1>3. QED
  BY <1>1, <1>2

(* The tasks' init functions. *)
LEMMA TaskInitInv ==
    ASSUME Memory, Outside, k \in DOMAIN list,
           NEW s \in Sound, NEW flag \in Flags,
           flag = "RELOAD" => s.flag = "RELOAD", rh_task_init(s, flag)
    PROVE  Memory' /\ Outside'
<1> DEFINE n == s.cfg.name
           net == Made(s.cfg)
           added == append_interface(tab, s.cfg.dev)
           iface == get_interface(added, s.cfg.dev)
           ready(on) == [s EXCEPT !.flag = flag, !.iface = iface, !.map = TRUE,
                                  !.sess = on]
<1>1. /\ s \in Server /\ s.cfg \in Config /\ n \in Names \cup {NoName}
      /\ s.cfg.net \in Nets \cup {NoNet} /\ s.cfg.id \in Numbers
  BY DEF Sound, Server, Config
<1>2. CASE n = NoName
  <2>1. Die("failed") /\ UNCHANGED outside
    BY <1>2 DEF rh_task_init
  <2>2. QED
    BY <2>1, DieMemory DEF Phases, outside, kernel, Outside
<1>3. CASE n # NoName
  <2>1. n \in Names
    BY <1>1, <1>3
  <2>2. net \in Nets \cup {NoNet}
    BY <1>1, <2>1 DEF Made, Outside
  <2>3. TabOK(added)
    BY AppendOK DEF Memory
  <2>4. iface \in Ifbs \cup {NoIfb}
    BY <2>3, GetOK
  <2>5. /\ runfiles' = runfiles \cup {n} /\ nets' = [nets EXCEPT ![n] = net]
        /\ \/ /\ \E on \in Restored(net, s.cfg.id) :
                    /\ Replaced(ready(on))
                    /\ sets' = [sets EXCEPT ![n] = on \cap Inside(net)]
                    /\ rows' = rows \cup ({s.cfg.id} \X on)
              /\ bandwidth_start(added, iface)
              /\ Advance
           \/ /\ sets' \in {sets, [sets EXCEPT ![n] = {}]}
              /\ UNCHANGED <<shaped, rows>>
              /\ Die("failed")
    BY <1>3 DEF rh_task_init
  <2> HIDE DEF net, added, iface
  <2>6. runfiles' \subseteq Names /\ nets' \in [Names -> Nets \cup {NoNet}]
    BY <2>1, <2>2, <2>5 DEF Outside
  <2>7. CASE Die("failed") /\ UNCHANGED <<shaped, rows>>
             /\ sets' \in {sets, [sets EXCEPT ![n] = {}]}
    <3>1. sets' \in [Names -> SUBSET Clients]
      BY <2>7, SetsType DEF Outside
    <3>2. Outside'
      BY <2>6, <2>7, <3>1 DEF Outside
    <3>3. QED
      BY <2>7, <3>2, DieMemory DEF Phases
  <2>8. ASSUME NEW on \in Restored(net, s.cfg.id), Replaced(ready(on)),
               sets' = [sets EXCEPT ![n] = on \cap Inside(net)],
               rows' = rows \cup ({s.cfg.id} \X on),
               bandwidth_start(added, iface), Advance
        PROVE  Memory' /\ Outside'
    <3>1. on \subseteq Clients
      BY <2>2, RestoredType
    <3>2. ready(on) \in Sound
      BY <1>1, <2>4, <3>1 DEF Sound, Server, Reread
    <3> HIDE DEF ready
    <3>3. list' \in Seq(Sound) /\ list' \in Seq(Server)
      BY <2>8, <3>2, ExceptAtSeq, SoundList DEF Replaced, Memory
    <3>4. TabOK(tab') /\ shaped' \subseteq Devs \X Ifbs
      BY <2>3, <2>8, StartType
    <3>5. at' \in Phases /\ k' \in Nat \ {0}
      BY <2>8 DEF Advance, Memory
    <3>6. sets' \in [Names -> SUBSET Clients]
      BY <2>8, <3>1, SetsType DEF Outside
    <3>7. rows' \subseteq Numbers \X Clients
      BY <1>1, <2>8, <3>1 DEF Outside
    <3>8. QED
      BY <2>6, <3>3, <3>4, <3>5, <3>6, <3>7 DEF Memory, Outside, TabOK, Apart, Table
  <2>9. QED
    BY <2>5, <2>7, <2>8
<1>4. QED
  BY <1>2, <1>3

LEMMA InitKeptInv ==
    ASSUME Memory, Outside, k \in DOMAIN list,
           NEW s \in Sound, s.cfg.name \in Names,
           NEW flag \in Flags, flag = "RELOAD" => s.flag = "RELOAD", InitKept(s, flag)
    PROVE  Memory' /\ Outside'
<1> DEFINE iface == get_interface(tab, s.cfg.dev)
           kept == [s EXCEPT !.flag = flag, !.iface = iface]
<1>1. iface \in Ifbs \cup {NoIfb}
  BY GetOK DEF Memory
<1>2. /\ runfiles' = runfiles \cup {s.cfg.name} /\ UNCHANGED <<kernel, rows>>
      /\ \/ Die("failed") /\ UNCHANGED shaped
         \/ Replaced(kept) /\ bandwidth_start(tab, iface) /\ Advance
  BY DEF InitKept
<1> HIDE DEF iface
<1>3. kept \in Sound
  BY <1>1 DEF Sound, Server, Reread
<1> HIDE DEF kept
<1>4. CASE Die("failed") /\ UNCHANGED shaped
  BY <1>2, <1>4, DieMemory DEF Phases, Outside, kernel
<1>5. CASE Replaced(kept) /\ bandwidth_start(tab, iface) /\ Advance
  <2>1. list' \in Seq(Sound) /\ list' \in Seq(Server)
    BY <1>3, <1>5, ExceptAtSeq, SoundList DEF Replaced, Memory
  <2>2. TabOK(tab') /\ shaped' \subseteq Devs \X Ifbs
    BY <1>5, StartType DEF Memory
  <2>3. at' \in Phases /\ k' \in Nat \ {0}
    BY <1>5 DEF Advance, Memory
  <2>4. QED
    BY <1>2, <2>1, <2>2, <2>3 DEF Memory, Outside, kernel, TabOK, Apart, Table
<1>6. QED
  BY <1>2, <1>4, <1>5

(* The tasks' cleanup functions. *)
LEMMA TaskCleanupInv ==
    ASSUME Memory, Outside, NEW s \in Sound, NEW walked \in BOOLEAN,
           rh_task_cleanup(s, walked)
    PROVE  TabOK(tab)' /\ Outside' /\ Cleaned(s) \in Sound
<1>1. TabOK(tab') /\ shaped' \subseteq Devs \X Ifbs
  <2>1. /\ shaped' \in ShapedAfter(s)
        /\ \/ tab' = remove_interface(tab, s.cfg.dev)
           \/ tab' = remove_interface(SetInit(tab, s.iface, FALSE), s.cfg.dev)
    BY DEF rh_task_cleanup, BandwidthCleanup
  <2>2. TabOK(tab) /\ TabOK(SetInit(tab, s.iface, FALSE))
    BY SetInitOK DEF Memory
  <2>3. QED
    BY <2>1, <2>2, RemoveOK, ShapedAfterType
<1>2. Outside'
  <2>1. sets' \in [Names -> SUBSET Clients]
    BY SetsType DEF rh_task_cleanup, Outside
  <2>2. nets' \in [Names -> Nets \cup {NoNet}] /\ runfiles' \subseteq Names
    BY DEF rh_task_cleanup, Outside
  <2>3. rows' \subseteq Numbers \X Clients
    <3>1. rows' \in RowsLeft(s.cfg, s.sess) \/ rows' = rows
      BY DEF rh_task_cleanup
    <3>2. QED
      BY <3>1, RowsLeftType DEF Outside
  <2>4. QED
    BY <1>1, <2>1, <2>2, <2>3 DEF Outside
<1>3. Cleaned(s) \in Sound
  BY DEF Cleaned, Sound, Server, Reread
<1>4. QED
  BY <1>1, <1>2, <1>3 DEF TabOK, Table, Apart

LEMMA CleanupFailsInv ==
    ASSUME Outside, NEW s, CleanupFails(s)
    PROVE  Memory' /\ Outside'
<1>1. Memory'
  BY DieMemory DEF CleanupFails, Phases
<1>2. shaped' \subseteq Devs \X Ifbs
  BY ShapedAfterType DEF CleanupFails
<1>3. QED
  BY <1>1, <1>2 DEF CleanupFails, kernel, Outside

LEMMA FilesType ==
    ASSUME plan \in Plans, NEW dir \in Directories
    PROVE  dir \in Seq(File)
<1>1. plan.configs \subseteq Config
  BY VServersAssumption DEF Plan
<1>2. PICK n \in 0 .. MaxFiles :
          dir \in [1 .. n -> [config : plan.configs, readable : BOOLEAN]]
  BY DEF Directories
<1>3. [config : plan.configs, readable : BOOLEAN] \subseteq File
  BY <1>1 DEF File
<1>4. dir \in [1 .. n -> File] /\ n \in Nat
  BY <1>2, <1>3, VServersAssumption
<1>5. QED
  BY <1>4

-----------------------------------------------------------------------------
(* Every step keeps the invariant. *)

(* What leaves the files and the bounds as they are.                       *)
LEMMA Whole ==
    ASSUME IInv, UNCHANGED <<files, bounds>>, Memory', Outside'
    PROVE  IInv'
BY DEF IInv, bounds, Bounds

LEMMA OutsideSame == ASSUME Outside, UNCHANGED outside PROVE Outside'
BY DEF outside, kernel, Outside

LEMMA Ended ==
    ASSUME IInv, NEW p \in Phases, Die(p), UNCHANGED <<files, outside, bounds>>
    PROVE  IInv'
<1>1. Memory'
  BY DieMemory
<1>2. Outside'
  BY OutsideSame DEF IInv
<1>3. QED
  BY <1>1, <1>2, Whole

(* The file found for a server, or a new one.                              *)
LEMMA RegisteredType ==
    ASSUME list \in Seq(Sound), NEW c \in Config, ~NameMissing(c)
    PROVE  Registered(c) \in Seq(Sound)
<1> DEFINE old == vserver_exists(c)
<1>1. CASE old # {}
  <2>1. Min(old) \in DOMAIN list
    <3>1. old \subseteq DOMAIN list /\ DOMAIN list \subseteq Nat
      BY DEF vserver_exists
    <3>2. QED
      BY <1>1, <3>1, MinExists
  <2>2. c.name \in Names
    <3>1. \A i \in old : i \in Nat
      BY DEF vserver_exists
    <3>2. \A j \in old : 1 <= j
      BY DEF vserver_exists
    <3>3. 1 \in DOMAIN list
      BY <2>1
    <3>4. c.name # NoName
      BY <3>2, <3>3 DEF NameMissing
    <3>5. QED
      BY <3>4 DEF Config
  <2>3. Registered(c) = [list EXCEPT ![Min(old)] = Marked(@, c)]
    BY <1>1 DEF Registered
  <2> HIDE DEF old
  <2>4. list[Min(old)] \in Sound
    BY <2>1
  <2>5. Marked(list[Min(old)], c) \in Sound
    BY <2>2, <2>4 DEF Marked, Sound, Server, Flags, Reread
  <2>6. QED
    BY <2>1, <2>3, <2>5, ExceptAtSeq
<1>2. CASE old = {}
  <2>1. NewServer(c) \in Sound
    BY DEF NewServer, Sound, Server, Flags, Reread
  <2>2. QED
    BY <1>2, <2>1 DEF Registered
<1>3. QED
  BY <1>1, <1>2

LEMMA RegisterInv == ASSUME IInv, register_vserver PROVE IInv'
<1> DEFINE c == files[k].config
<1>1. k \in DOMAIN files /\ list \in Seq(Sound) /\ files \in Seq(File)
  BY DEF IInv, Memory, register_vserver
<1>2. c \in Config
  <2>1. files[k] \in File
    BY <1>1
  <2>2. QED
    BY <2>1 DEF File
<1>3. /\ UNCHANGED <<files, outside, bounds>>
      /\ \/ Die("failed")
         \/ /\ list' = list \/ (~NameMissing(c) /\ list' = Registered(c))
            /\ tab' = tab /\ Advance
  BY Zenon DEF register_vserver
<1> HIDE DEF c
<1>4. CASE Die("failed")
  BY <1>3, <1>4, Ended DEF Phases
<1>5. CASE ~Die("failed")
  <2>1. list' \in Seq(Sound) /\ list' \in Seq(Server)
    BY <1>1, <1>2, <1>3, <1>5, RegisteredType, SoundList
  <2>2. Memory'
    BY <1>3, <1>5, <2>1 DEF Advance, IInv, Memory, TabOK, Apart, Table
  <2>3. QED
    BY <1>3, <2>2, Whole, OutsideSame DEF IInv
<1>6. QED
  BY <1>4, <1>5

LEMMA ReadDoneInv == ASSUME IInv, ReadDone PROVE IInv'
<1>1. CASE Die("failed")
  BY <1>1, Ended DEF ReadDone, Phases
<1>2. CASE ~Die("failed")
  <2>1. Memory'
    BY <1>2 DEF ReadDone, GoTo, memory, IInv, Memory, TabOK, Apart, Table,
                Phases, Reloading, Booting
  <2>2. QED
    BY <2>1, Whole, OutsideSame DEF ReadDone, IInv
<1>3. QED
  BY <1>1, <1>2

LEMMA AtElement ==
    ASSUME IInv, NEW p, At(p)
    PROVE  k \in DOMAIN list /\ list[k] \in Server /\ list[k] \in Sound
<1>1. k \in DOMAIN list
  BY DEF At, IInv, Memory
<1>2. QED
  BY <1>1 DEF IInv, Memory

LEMMA ReloadUnmarkedInv == ASSUME IInv, ReloadUnmarked PROVE IInv'
<1> DEFINE s == [list[k] EXCEPT !.flag = "NONE"]
<1>1. k \in DOMAIN list /\ list[k] \in Sound
  BY AtElement DEF ReloadUnmarked
<1>2. s \in Sound
  BY <1>1 DEF Sound, Server, Flags, Reread
<1>3. list' \in Seq(Sound) /\ list' \in Seq(Server)
  BY <1>1, <1>2, ExceptAtSeq, SoundList DEF ReloadUnmarked, Replaced, IInv, Memory
<1>4. Memory'
  BY <1>3 DEF ReloadUnmarked, Advance, IInv, Memory, TabOK, Apart, Table
<1>5. QED
  BY <1>4, Whole, OutsideSame DEF ReloadUnmarked, IInv

LEMMA ReloadNewInv == ASSUME IInv, ReloadNew PROVE IInv'
<1>1. k \in DOMAIN list /\ list[k] \in Sound
  BY AtElement DEF ReloadNew
<1>2. Memory' /\ Outside'
  BY <1>1, TaskInitInv DEF ReloadNew, Flags, IInv
<1>3. QED
  BY <1>2, Whole DEF ReloadNew

LEMMA ReloadKeptInv == ASSUME IInv, ReloadKept PROVE IInv'
<1> DEFINE s == [list[k] EXCEPT !.cfg = list[k].dummy]
<1>1. k \in DOMAIN list /\ list[k] \in Sound /\ list[k].flag = "RELOAD"
  BY AtElement DEF ReloadKept
<1>2. s \in Sound /\ s.cfg.name \in Names
  BY <1>1 DEF Sound, Server, Reread
<1>3. InitKept(s, "DONE")
  BY DEF ReloadKept
<1> HIDE DEF s
<1>4. Memory' /\ Outside'
  BY <1>1, <1>2, <1>3, InitKeptInv DEF Flags, IInv
<1>5. QED
  BY <1>4, Whole DEF ReloadKept

LEMMA ReloadResetInv == ASSUME IInv, ReloadReset PROVE IInv'
<1>1. k \in DOMAIN list /\ list[k] \in Sound
  BY AtElement DEF ReloadReset
<1>2. CASE CleanupFails(list[k])
  BY <1>2, CleanupFailsInv, Whole DEF ReloadReset, IInv
<1>3. CASE ~CleanupFails(list[k])
  <2> DEFINE s == [Cleaned(list[k]) EXCEPT !.cfg = list[k].dummy, !.flag = "INIT"]
  <2>1. PICK walked \in BOOLEAN : rh_task_cleanup(list[k], walked)
    BY <1>3 DEF ReloadReset
  <2>2. TabOK(tab)' /\ Outside' /\ Cleaned(list[k]) \in Sound
    BY <1>1, <2>1, TaskCleanupInv DEF IInv
  <2>3. s \in Sound
    BY <1>1, <2>2 DEF Sound, Server, Flags, Reread
  <2>4. Replaced(s) /\ UNCHANGED <<at, k>>
    BY <1>3 DEF ReloadReset
  <2> HIDE DEF s
  <2>5. list' \in Seq(Sound) /\ list' \in Seq(Server)
    BY <1>1, <2>3, <2>4, ExceptAtSeq, SoundList DEF Replaced, IInv, Memory
  <2>6. Memory'
    BY <2>2, <2>4, <2>5 DEF IInv, Memory
  <2>7. QED
    BY <2>2, <2>6, Whole DEF ReloadReset
<1>4. QED
  BY <1>2, <1>3

LEMMA CleanUnusedInv == ASSUME IInv, CleanUnused PROVE IInv'
<1> DEFINE i == Min(Unused)
           id == list[i].cfg.id
           L == [list EXCEPT ![i] = Cleaned(@)]
<1>1. i \in DOMAIN list
  <2>1. Unused \subseteq Nat /\ Unused # {}
    BY DEF Unused, CleanUnused, IInv, Memory
  <2>2. QED
    BY <2>1, MinExists DEF Unused
<1>2. list[i] \in Sound
  BY <1>1 DEF IInv, Memory
<1> HIDE DEF i, id
<1>3. CASE CleanupFails(list[i])
  BY <1>3, CleanupFailsInv, Whole DEF CleanUnused, IInv
<1>4. CASE ~CleanupFails(list[i])
  <2>1. PICK walked \in BOOLEAN : rh_task_cleanup(list[i], walked)
    BY <1>4 DEF CleanUnused, i
  <2>2. TabOK(tab)' /\ Outside' /\ Cleaned(list[i]) \in Sound
    BY <1>2, <2>1, TaskCleanupInv DEF IInv
  <2>3. L \in Seq(Sound)
    BY <1>1, <2>2, ExceptAtSeq DEF IInv, Memory
  <2>4. list' = unregister_vserver(L, id) /\ UNCHANGED <<at, k>>
    BY <1>4 DEF CleanUnused, i, id
  <2> HIDE DEF L
  <2>5. list' \in Seq(Sound)
    <3> DEFINE same == {j \in DOMAIN L : L[j].cfg.id = id}
    <3>1. CASE same = {}
      BY <2>3, <2>4, <3>1 DEF unregister_vserver
    <3>2. CASE same # {}
      <4>1. Min(same) \in DOMAIN L
        <5>1. same \subseteq Nat
          BY <2>3
        <5>2. QED
          BY <3>2, <5>1, MinExists
      <4>2. list' = RemoveAt(L, Min(same))
        BY <2>4, <3>2 DEF unregister_vserver
      <4> HIDE DEF same
      <4>3. QED
        BY <2>3, <4>1, <4>2, RemoveAtSeq
    <3>3. QED
      BY <3>1, <3>2
  <2>6. Memory'
    BY <2>2, <2>4, <2>5, SoundList DEF IInv, Memory
  <2>7. QED
    BY <2>2, <2>6, Whole DEF CleanUnused
<1>5. QED
  BY <1>3, <1>4

LEMMA InitOneInv == ASSUME IInv, InitOne PROVE IInv'
<1>1. k \in DOMAIN list /\ list[k] \in Sound
  BY AtElement DEF InitOne
<1>2. list[k].flag \in Flags
  BY <1>1 DEF Sound, Server
<1>3. Memory' /\ Outside'
  <2>1. CASE list[k].flag = "RELOAD" /\ InitKept(list[k], "RELOAD")
    <3>1. list[k].cfg.name \in Names
      BY <1>1, <2>1 DEF Sound, Reread
    <3>2. QED
      BY <1>1, <2>1, <3>1, InitKeptInv DEF Flags, IInv
  <2>2. CASE rh_task_init(list[k], list[k].flag)
    BY <1>1, <1>2, <2>2, TaskInitInv DEF IInv
  <2>3. QED
    BY <2>1, <2>2 DEF InitOne
<1>4. QED
  BY <1>3, Whole DEF InitOne

LEMMA InitDoneInv == ASSUME IInv, InitDone PROVE IInv'
<1> DEFINE L == [i \in DOMAIN list |-> [list[i] EXCEPT !.flag = "DONE"]]
<1>1. \A i \in DOMAIN list : L[i] \in Sound
  <2>1. \A i \in DOMAIN list : list[i] \in Server
    BY DEF IInv, Memory
  <2>2. QED
    BY <2>1 DEF Sound, Server, Flags, Reread
<1>2. L = [i \in DOMAIN list |-> L[i]]
  OBVIOUS
<1>3. list' = L
  BY DEF InitDone
<1> HIDE DEF L
<1>4. list' \in Seq(Sound)
  BY <1>1, <1>2, <1>3, ReplacedSeq DEF IInv, Memory
<1>5. Memory'
  BY <1>4, SoundList DEF InitDone, GoTo, Phases, IInv, Memory, TabOK, Apart, Table
<1>6. QED
  BY <1>5, Whole, OutsideSame DEF InitDone, IInv

LEMMA ExitOneInv == ASSUME IInv, ExitOne PROVE IInv'
<1>1. k \in DOMAIN list /\ list[k] \in Sound
  BY AtElement DEF ExitOne
<1>2. CASE CleanupFails(list[k])
  BY <1>2, CleanupFailsInv, Whole DEF ExitOne, IInv
<1>3. CASE ~CleanupFails(list[k])
  <2>1. PICK walked \in BOOLEAN : rh_task_cleanup(list[k], walked)
    BY <1>3 DEF ExitOne
  <2>2. TabOK(tab)' /\ Outside' /\ Cleaned(list[k]) \in Sound
    BY <1>1, <2>1, TaskCleanupInv DEF IInv
  <2>3. Replaced(Cleaned(list[k])) /\ Advance
    BY <1>3 DEF ExitOne
  <2>4. list' \in Seq(Sound) /\ list' \in Seq(Server)
    BY <1>1, <2>2, <2>3, ExceptAtSeq, SoundList DEF Replaced, IInv, Memory
  <2>5. Memory'
    BY <2>2, <2>3, <2>4 DEF Advance, IInv, Memory
  <2>6. QED
    BY <2>2, <2>5, Whole DEF ExitOne
<1>4. QED
  BY <1>2, <1>3

LEMMA PollingFailsInv == ASSUME IInv, PollingFails PROVE IInv'
BY Ended DEF PollingFails, Phases

LEMMA LoginInv ==
    ASSUME IInv, NEW id \in Numbers, NEW c \in Clients, Login(id, c)
    PROVE  IInv'
<1> DEFINE i == Min(vserver_get_by_id(id))
           n == list[i].cfg.name
           s(m) == [list[i] EXCEPT !.sess = @ \cup {m}]
<1>1. i \in DOMAIN list
  <2>1. vserver_get_by_id(id) \subseteq Nat
    BY DEF vserver_get_by_id, IInv, Memory
  <2>2. vserver_get_by_id(id) # {}
    BY DEF Login
  <2>3. QED
    BY <2>1, <2>2, MinExists DEF vserver_get_by_id
<1>2. list[i] \in Sound
  BY <1>1 DEF IInv, Memory
<1>3. CASE ~list[i].map
  <2>1. Die("failed") /\ UNCHANGED <<files, outside, bounds>>
    BY <1>3 DEF Login
  <2>2. QED
    BY <2>1, Ended DEF Phases
<1>4. CASE list[i].map
  <2>1. PICK m \in IF n \in exist THEN {Known(nets[n], c)} ELSE Clients :
        /\ list' = [list EXCEPT ![i] = s(m)]
        /\ rows' = rows \cup {<<id, m>>}
        /\ sets' = [sets EXCEPT ![n] = @ \cup ({m} \cap Inside(nets[n]))]
        /\ UNCHANGED <<at, k, tab, nets, runfiles, shaped>>
    BY <1>4 DEF Login
  <2>2. m \in Clients
    <3>1. n \in exist => nets[n] \in Nets
      BY DEF exist, IInv, Outside
    <3>2. QED
      BY <2>1, <3>1, KnownType
  <2>3. s(m) \in Sound
    BY <1>2, <2>2 DEF Sound, Server, Reread
  <2> HIDE DEF i, s
  <2>4. list' \in Seq(Sound) /\ list' \in Seq(Server)
    BY <1>1, <2>1, <2>3, ExceptAtSeq, SoundList DEF IInv, Memory
  <2>5. sets' \in [Names -> SUBSET Clients]
    <3>1. {m} \cap Inside(nets[n]) \subseteq Clients
      BY <2>2
    <3>2. QED
      BY <2>1, <3>1 DEF IInv, Outside
  <2>6. Memory'
    BY <2>1, <2>4 DEF IInv, Memory, TabOK, Apart, Table
  <2>7. Outside'
    <3>1. <<id, m>> \in Numbers \X Clients
      BY <2>2
    <3>2. QED
      BY <2>1, <2>5, <3>1 DEF IInv, Outside
  <2>8. QED
    BY <2>6, <2>7, Whole DEF Login
<1>5. QED
  BY <1>3, <1>4

LEMMA StopInv ==
    ASSUME IInv, NEW i \in DOMAIN list, NEW c \in Clients, Stop(i, c)
    PROVE  IInv'
<1> DEFINE s == [list[i] EXCEPT !.sess = @ \ {c}]
<1>1. list[i] \in Sound
  BY DEF IInv, Memory
<1>2. s \in Sound
  BY <1>1 DEF Sound, Server, Reread
<1>3. list' = [list EXCEPT ![i] = s]
  BY DEF Stop
<1> HIDE DEF s
<1>4. list' \in Seq(Sound) /\ list' \in Seq(Server)
  BY <1>2, <1>3, ExceptAtSeq, SoundList DEF IInv, Memory
<1>5. sets' \in [Names -> SUBSET Clients]
  BY DEF Stop, IInv, Outside
<1>6. rows' \subseteq Numbers \X Clients
  BY RowsLeftType DEF Stop, IInv
<1>7. Memory' /\ Outside'
  BY <1>4, <1>5, <1>6 DEF Stop, IInv, Memory, Outside, TabOK, Apart, Table
<1>8. QED
  BY <1>7, Whole DEF Stop

(* What moves the process on and touches neither list nor table.           *)
LEMMA PhaseInv ==
    ASSUME IInv, UNCHANGED <<memory, outside>>,
           \/ ReloadDone \/ UnusedDone \/ Terminate
           \/ \E dir \in Directories : Boot(dir) \/ Hangup(dir)
    PROVE  IInv'
<1>1. at' \in Phases /\ k' \in Nat \ {0}
  BY DEF ReloadDone, UnusedDone, Terminate, Boot, Hangup, GoTo, Phases,
         Reloading, Booting, Die
<1>2. Memory'
  BY <1>1 DEF memory, IInv, Memory, TabOK, Apart, Table
<1>3. Outside'
  BY OutsideSame DEF IInv
<1>4. files' \in Seq(File)
  BY FilesType DEF ReloadDone, UnusedDone, Terminate, Boot, Hangup, IInv, Bounds
<1>5. Bounds'
  BY VServersAssumption DEF ReloadDone, UnusedDone, Terminate, Boot, Hangup,
                            bounds, IInv, Bounds
<1>6. QED
  BY <1>2, <1>3, <1>4, <1>5 DEF IInv

(* The log file that cannot be opened again.                               *)
LEMMA HangupFailsInv ==
    ASSUME IInv, NEW dir \in Directories, Hangup(dir), Die("failed")
    PROVE  IInv'
<1>1. Memory'
  BY DieMemory DEF Phases
<1>2. Outside'
  BY OutsideSame DEF Hangup, IInv
<1>3. files' \in Seq(File)
  BY FilesType DEF Hangup, IInv, Bounds
<1>4. Bounds'
  BY VServersAssumption DEF Hangup, IInv, Bounds
<1>5. QED
  BY <1>1, <1>2, <1>3, <1>4 DEF IInv

LEMMA EndInv == ASSUME IInv, ExitDone \/ Crash PROVE IInv'
<1>1. Memory'
  BY DieMemory DEF ExitDone, Crash, Phases
<1>2. Bounds'
  BY VServersAssumption DEF ExitDone, Crash, bounds, IInv, Bounds
<1>3. Outside'
  BY OutsideSame DEF ExitDone, Crash, IInv
<1>4. QED
  BY <1>1, <1>2, <1>3 DEF ExitDone, Crash, IInv

LEMMA StepInv == IInv /\ [Next]_vars => IInv'
<1> SUFFICES ASSUME IInv, [Next]_vars PROVE IInv'
  OBVIOUS
<1>1. CASE ReloadDone \/ UnusedDone \/ Terminate
  BY <1>1, PhaseInv DEF ReloadDone, UnusedDone, Terminate
<1>2. CASE Daemon
  BY <1>1, <1>2, RegisterInv, ReadDoneInv, ReloadUnmarkedInv, ReloadNewInv,
     ReloadKeptInv, ReloadResetInv, CleanUnusedInv, InitOneInv, InitDoneInv,
     ExitOneInv, EndInv DEF Daemon
<1>3. ASSUME NEW dir \in Directories, Boot(dir) \/ Hangup(dir)
      PROVE  IInv'
  <2>1. UNCHANGED <<memory, outside>> \/ (Hangup(dir) /\ Die("failed"))
    BY <1>3 DEF Boot, Hangup
  <2>2. QED
    BY <1>3, <2>1, PhaseInv, HangupFailsInv
<1>4. CASE Terminate \/ Crash \/ PollingFails
  BY <1>1, <1>4, EndInv, PollingFailsInv
<1>5. CASE \E id \in Numbers, c \in Clients : Login(id, c)
  BY <1>5, LoginInv
<1>6. CASE \E i \in DOMAIN list, c \in Clients : Stop(i, c)
  BY <1>6, StopInv
<1>7. CASE UNCHANGED vars
  BY <1>7 DEF vars, IInv, Bounds, Memory, Outside, TabOK, Apart, Table
<1>8. QED
  BY <1>2, <1>3, <1>4, <1>5, <1>6, <1>7 DEF Next

LEMMA Invariant == Spec => []IInv
  BY InitInv, StepInv, PTL DEF Spec

(* The variables of VServers have their types; a virtual server's iface is *)
(* an ifb device or none, whatever was appended and removed.               *)
THEOREM TypeCorrect == Spec => []TypeOK
<1>1. IInv => TypeOK
  BY DEF IInv, Bounds, Memory, Outside, TabOK, TypeOK
<1>2. QED
  BY <1>1, Invariant, PTL

(* No two entries of the table of interfaces share an ifb device.          *)
THEOREM IfbsAreApart == Spec => []IfbApart
<1>1. IInv => IfbApart
  BY DEF IInv, Memory, TabOK, IfbApart
<1>2. QED
  BY <1>1, Invariant, PTL

-----------------------------------------------------------------------------
(* The list of virtual servers at every point of a start, a reload and an *)
(* exit, and from it: the virtual servers served are those of the files,  *)
(* the kernel and dbset know the sessions there are, the interfaces count  *)
(* their users, and nothing fails without a reason.                        *)

(* What the theorems about the list assume of the administrator.           *)
Orderly == NumbersKept /\ ~plan.copies

FromPlan ==
    /\ Directory(files)
    /\ \A j \in DOMAIN files : files[j].config \in plan.configs
    /\ \A i \in DOMAIN list : /\ list[i].cfg \in plan.configs
                              /\ list[i].dummy \in plan.configs

NamesDiffer ==
    \A i, j \in DOMAIN list : list[i].cfg.name = list[j].cfg.name => i = j

(* What a flag says of the settings read last and of the sessions.         *)
Marks(s) ==
    /\ s.dummy.name = s.cfg.name
    /\ s.flag \in {"INIT", "DONE", "NONE"} => s.dummy = s.cfg
    /\ s.flag = "RELOAD" => s.dummy.net = s.cfg.net
    /\ s.flag = "RESET" => s.dummy.net # s.cfg.net
    /\ ~s.map => s.sess = {}

(* The flags there can be at each point, and which servers are in service. *)
Fits(i) ==
    /\ at \in Booting => list[i].flag = "INIT"
    /\ at = "bootread" => ~list[i].map
    /\ at = "init" => (list[i].map <=> i < k)
    /\ at \in Reloading => (list[i].map <=> list[i].flag # "INIT")
    /\ at = "read" => list[i].flag # "NONE"
    /\ at = "reload" => IF i < k THEN list[i].flag \in {"DONE", "NONE"}
                                 ELSE list[i].flag # "NONE"
    /\ at = "unused" => list[i].flag \in {"DONE", "NONE"}
    /\ at \in {"serve", "exit"} => list[i].flag = "DONE"
    /\ at = "serve" => list[i].map
    /\ at = "exit" => (i >= k => list[i].map)

(* A file names the server, as far as the files are read.                  *)
Meant(i) ==
    /\ at = "read" => list[i].flag # "DONE"
    /\ at = "reload" => (i < k <=> list[i].flag = "DONE")
    /\ at \notin {"read", "reload"} => list[i].flag # "NONE"
HasRead(j) == files[j].readable /\ (at \in {"read", "bootread"} => j < k)

(* The servers meant are those of the files read.                          *)
Named ==
    /\ \A i \in DOMAIN list : Meant(i) =>
          \E j \in DOMAIN files : HasRead(j) /\ files[j].config = list[i].dummy
    /\ \A j \in DOMAIN files : HasRead(j) =>
          \E i \in DOMAIN list : Meant(i) /\ list[i].dummy = files[j].config

ListOK ==
    /\ FromPlan
    /\ at \in {"down", "failed"} => list = <<>>
    /\ NamesDiffer
    /\ \A i \in DOMAIN list : Marks(list[i]) /\ Fits(i)
    /\ at \notin {"down", "failed", "exit"} => Named

ListInv == Orderly => ListOK

-----------------------------------------------------------------------------
(* The list, step by step. *)

LEMMA PlanSame == IInv /\ [Next]_vars => plan' = plan
BY DEF Next, vars, Daemon, register_vserver, ReadDone, ReloadUnmarked, ReloadNew,
       ReloadKept, ReloadReset, ReloadDone, CleanUnused, UnusedDone, InitOne,
       InitDone, ExitOne, ExitDone, Boot, Hangup, Terminate, Crash, PollingFails,
       Login, Stop, bounds

LEMMA OrderlySame == ASSUME plan' = plan PROVE Orderly' = Orderly
BY DEF Orderly, NumbersKept

LEMMA ListGone ==
    ASSUME ListOK, plan' = plan, UNCHANGED files, list' = <<>>,
           at' \in {"down", "failed"}
    PROVE  ListOK'
<1>1. DOMAIN list' = {}
  OBVIOUS
<1>2. QED
  BY <1>1 DEF ListOK, FromPlan, Directory, NamesDiffer

LEMMA ListSame ==
    ASSUME ListOK, UNCHANGED <<plan, files, at, k, list>>
    PROVE  ListOK'
BY DEF ListOK, FromPlan, Directory, NamesDiffer, Fits, Meant, HasRead, Named

LEMMA ListParts ==
    ASSUME IInv, ListOK
    PROVE  /\ list \in Seq(Server) /\ files \in Seq(File) /\ k \in Nat \ {0}
           /\ DOMAIN list = 1 .. Len(list) /\ Len(list) \in Nat
           /\ DOMAIN files = 1 .. Len(files) /\ Len(files) \in Nat
           /\ \A i \in DOMAIN list : list[i] \in Server
BY DEF IInv, Memory

(* One server changes, and neither its name nor what is meant by the files. *)
LEMMA OneChanged ==
    ASSUME IInv, ListOK, UNCHANGED <<plan, files, at>>,
           NEW i \in DOMAIN list, NEW e, list' = [list EXCEPT ![i] = e],
           e.cfg \in {list[i].cfg, list[i].dummy}, e.dummy = list[i].dummy,
           Marks(e), at \notin {"down", "failed"},
           at \in {"read", "bootread"} => k' = k,
           at = "exit" \/ (Meant(i)' <=> Meant(i)), Fits(i)',
           k' = k \/ (at = "reload" /\ i = k /\ k' = k + 1)
                  \/ (at \in {"init", "exit"} /\ i = k /\ k' = k + 1)
    PROVE  ListOK'
<1>1. /\ DOMAIN list' = DOMAIN list /\ list'[i] = e
      /\ \A j \in DOMAIN list : j # i => list'[j] = list[j]
      /\ k \in Nat /\ DOMAIN list \subseteq Nat
  BY ListParts
<1>2. e.cfg.name = list[i].cfg.name
  BY DEF ListOK, Marks
<1>3. FromPlan'
  BY <1>1 DEF ListOK, FromPlan, Directory
<1>4. NamesDiffer'
  BY <1>1, <1>2 DEF ListOK, NamesDiffer
<1>5. ASSUME NEW j \in DOMAIN list'
      PROVE  Marks(list'[j]) /\ Fits(j)'
  <2>1. CASE j = i
    BY <1>1, <2>1
  <2>2. CASE j # i
    <3>1. Marks(list[j]) /\ Fits(j) /\ list'[j] = list[j] /\ j \in Nat
      BY <1>1, <2>2 DEF ListOK
    <3>2. k' = k \/ ((j < k' <=> j < k) /\ (j >= k' => j >= k))
      BY <1>1, <2>2, <3>1
    <3>3. QED
      BY <3>1, <3>2 DEF Fits
  <2>3. QED
    BY <2>1, <2>2
<1>6. ASSUME at # "exit" PROVE Named'
  <2>1. \A j \in DOMAIN list : list'[j].dummy = list[j].dummy
    BY <1>1
  <2>2. ASSUME NEW j \in DOMAIN list PROVE Meant(j)' <=> Meant(j)
    <3>1. CASE j # i
      <4>1. j < k' <=> j < k \/ (k' = k + 1 /\ j = k)
        BY <1>1
      <4>2. QED
        BY <1>1, <3>1, <4>1 DEF Meant
    <3>2. QED
      BY <1>6, <3>1
  <2>3. \A j \in DOMAIN files : HasRead(j)' <=> HasRead(j)
    BY DEF HasRead
  <2>4. Named
    BY <1>6 DEF ListOK
  <2>5. QED
    BY <1>1, <2>1, <2>2, <2>3, <2>4 DEF Named
<1>7. QED
  BY <1>3, <1>4, <1>5, <1>6 DEF ListOK

(* The process goes on to another phase, with the list as it is.           *)
LEMMA Turned ==
    ASSUME ListOK, UNCHANGED <<plan, files, list>>,
           \A i \in DOMAIN list : Fits(i)',
           at' \notin {"down", "failed"},
           at' # "exit" => Named'
    PROVE  ListOK'
BY DEF ListOK, FromPlan, Directory, NamesDiffer

LEMMA ReadDoneList == ASSUME IInv, ListOK, ReadDone, plan' = plan PROVE ListOK'
<1>1. at \in {"read", "bootread"} /\ k > Len(files) /\ UNCHANGED files
  BY DEF ReadDone
<1>2. CASE Die("failed")
  BY <1>1, <1>2, ListGone DEF Die, GoTo
<1>3. CASE ~Die("failed")
  <2>1. /\ list' = list /\ k' = 1
        /\ \/ at = "read" /\ at' = "reload"
           \/ at = "bootread" /\ at' = "init"
    BY <1>3 DEF ReadDone, GoTo, memory
  <2>2. \A j \in DOMAIN files : HasRead(j)' <=> HasRead(j)
    BY <1>1, <2>1, ListParts DEF HasRead
  <2>3. ASSUME NEW i \in DOMAIN list
        PROVE  Fits(i)' /\ (Meant(i)' <=> Meant(i))
    <3>1. Fits(i) /\ ~(i < 1) /\ i >= 1
      BY ListParts DEF ListOK
    <3>2. QED
      BY <2>1, <3>1 DEF Fits, Meant, Reloading, Booting
  <2>4. Named'
    BY <1>1, <2>1, <2>2, <2>3 DEF ListOK, Named
  <2>5. QED
    BY <1>1, <2>1, <2>3, <2>4, Turned
<1>4. QED
  BY <1>2, <1>3

LEMMA ReloadDoneList == ASSUME IInv, ListOK, ReloadDone, plan' = plan PROVE ListOK'
<1>1. /\ at = "reload" /\ at' = "unused" /\ UNCHANGED <<files, list>>
      /\ \A i \in DOMAIN list : i < k
  <2>1. at = "reload" /\ at' = "unused" /\ UNCHANGED <<files, list>> /\ k > Len(list)
    BY DEF ReloadDone, GoTo, memory
  <2>2. QED
    BY <2>1, ListParts
<1>2. \A j \in DOMAIN files : HasRead(j)' <=> HasRead(j)
  BY <1>1 DEF HasRead
<1>3. ASSUME NEW i \in DOMAIN list
      PROVE  Fits(i)' /\ (Meant(i)' <=> Meant(i))
  <2>1. Fits(i) /\ i < k
    BY <1>1 DEF ListOK
  <2>2. QED
    BY <1>1, <2>1 DEF Fits, Meant, Reloading, Booting
<1>4. Named'
  BY <1>1, <1>2, <1>3 DEF ListOK, Named
<1>5. QED
  BY <1>1, <1>3, <1>4, Turned

LEMMA UnusedDoneList == ASSUME IInv, ListOK, UnusedDone, plan' = plan PROVE ListOK'
<1>1. /\ at = "unused" /\ at' = "serve" /\ UNCHANGED <<files, list>>
      /\ \A i \in DOMAIN list : list[i].flag # "NONE"
  BY DEF UnusedDone, GoTo, memory, Unused
<1>2. \A j \in DOMAIN files : HasRead(j)' <=> HasRead(j)
  BY <1>1 DEF HasRead
<1>3. ASSUME NEW i \in DOMAIN list
      PROVE  Fits(i)' /\ (Meant(i)' <=> Meant(i))
  <2>1. Fits(i)
    BY DEF ListOK
  <2>2. QED
    BY <1>1, <2>1 DEF Fits, Meant, Reloading, Booting
<1>4. Named'
  BY <1>1, <1>2, <1>3 DEF ListOK, Named
<1>5. QED
  BY <1>1, <1>3, <1>4, Turned

LEMMA TerminateList == ASSUME IInv, ListOK, Terminate, plan' = plan PROVE ListOK'
<1>1. at = "serve" /\ at' = "exit" /\ UNCHANGED <<files, list>>
  BY DEF Terminate, GoTo, memory
<1>2. \A i \in DOMAIN list : Fits(i)'
  BY <1>1 DEF ListOK, Fits, Reloading, Booting
<1>3. QED
  BY <1>1, <1>2, Turned

LEMMA DirectoryParts ==
    ASSUME IInv, NEW dir \in Directories, files' = dir, plan' = plan
    PROVE  /\ Directory(files)' /\ DOMAIN files' \subseteq Nat \ {0}
           /\ \A j \in DOMAIN files' : files'[j].config \in plan.configs
<1>1. dir \in Seq(File)
  BY FilesType DEF IInv, Bounds
<1>2. PICK n \in 0 .. MaxFiles :
          dir \in [1 .. n -> [config : plan.configs, readable : BOOLEAN]]
  BY DEF Directories
<1>3. Directory(dir)
  BY DEF Directories
<1>4. QED
  BY <1>1, <1>2, <1>3 DEF Directory

LEMMA BootList ==
    ASSUME IInv, ListOK, NEW dir \in Directories, Boot(dir), plan' = plan
    PROVE  ListOK'
<1>1. files' = dir /\ list' = <<>> /\ at' \in {"bootread", "failed"} /\ k' = 1
  BY DEF Boot, GoTo, memory, ListOK
<1>2. DOMAIN list' = {}
  BY <1>1
<1>3. FromPlan' /\ NamesDiffer'
  BY <1>1, <1>2, DirectoryParts DEF FromPlan, NamesDiffer
<1>4. ASSUME at' # "failed" PROVE Named'
  <2>1. \A j \in DOMAIN files' : ~HasRead(j)'
    BY <1>1, <1>4, DirectoryParts DEF HasRead
  <2>2. QED
    BY <1>2, <2>1 DEF Named
<1>5. QED
  BY <1>1, <1>2, <1>3, <1>4 DEF ListOK

LEMMA HangupList ==
    ASSUME IInv, ListOK, NEW dir \in Directories, Hangup(dir), plan' = plan
    PROVE  ListOK'
<1>0. CASE Die("failed")
  <2>1. files' = dir /\ list' = <<>> /\ at' = "failed"
    BY <1>0 DEF Hangup, Die, GoTo
  <2>2. DOMAIN list' = {}
    BY <2>1
  <2>3. FromPlan' /\ NamesDiffer'
    BY <2>1, <2>2, DirectoryParts DEF FromPlan, NamesDiffer
  <2>4. QED
    BY <2>1, <2>2, <2>3 DEF ListOK
<1> SUFFICES ASSUME ~Die("failed") PROVE ListOK'
  BY <1>0
<1>1. files' = dir /\ list' = list /\ at = "serve" /\ at' = "read" /\ k' = 1
  BY DEF Hangup, GoTo, memory
<1>2. ASSUME NEW i \in DOMAIN list PROVE Fits(i)' /\ ~Meant(i)'
  <2>1. Fits(i)
    BY DEF ListOK
  <2>2. QED
    BY <1>1, <2>1 DEF Fits, Meant, Reloading, Booting
<1>3. \A j \in DOMAIN files' : ~HasRead(j)'
  BY <1>1, DirectoryParts DEF HasRead
<1>4. FromPlan' /\ Named'
  BY <1>1, <1>2, <1>3, DirectoryParts DEF ListOK, FromPlan, Named
<1>5. QED
  BY <1>1, <1>2, <1>4 DEF ListOK, NamesDiffer

LEMMA InitDoneList == ASSUME IInv, ListOK, InitDone, plan' = plan PROVE ListOK'
<1>1. /\ at = "init" /\ at' = "serve" /\ UNCHANGED files /\ k > Len(list)
      /\ list' = [i \in DOMAIN list |-> [list[i] EXCEPT !.flag = "DONE"]]
  BY DEF InitDone, GoTo
<1>2. ASSUME NEW i \in DOMAIN list
      PROVE  /\ list'[i].cfg = list[i].cfg /\ list'[i].dummy = list[i].dummy
             /\ list'[i].map = list[i].map /\ list'[i].sess = list[i].sess
             /\ list'[i].flag = "DONE" /\ list[i].flag = "INIT" /\ list[i].map
             /\ Marks(list[i])
  <2>1. list[i] \in Server /\ Fits(i) /\ i < k /\ Marks(list[i])
    BY <1>1, ListParts DEF ListOK
  <2>2. QED
    BY <1>1, <2>1 DEF Server, Fits, Booting
<1>3. DOMAIN list' = DOMAIN list
  BY <1>1
<1>4. \A j \in DOMAIN files : HasRead(j)' <=> HasRead(j)
  BY <1>1 DEF HasRead
<1>5. \A i \in DOMAIN list : Meant(i) /\ Meant(i)'
  BY <1>1, <1>2 DEF Meant
<1>6. FromPlan' /\ NamesDiffer'
  BY <1>1, <1>2, <1>3 DEF ListOK, FromPlan, Directory, NamesDiffer
<1>7. \A i \in DOMAIN list' : Marks(list'[i]) /\ Fits(i)'
  BY <1>1, <1>2, <1>3 DEF Marks, Fits, Reloading, Booting
<1>8. Named'
  BY <1>1, <1>2, <1>3, <1>4, <1>5 DEF ListOK, Named
<1>9. QED
  BY <1>1, <1>6, <1>7, <1>8 DEF ListOK

(* A file marks the server of its name, which no file marked before, or    *)
(* adds one: numbers go with names.                                        *)
LEMMA SameName ==
    ASSUME Orderly, NEW s, NEW c \in plan.configs, s.cfg \in plan.configs
    PROVE  Same(s, c) <=> s.cfg.name = c.name
BY DEF Same, Orderly, NumbersKept

LEMMA RegisterList ==
    ASSUME IInv, Orderly, ListOK, register_vserver, ~Die("failed"), plan' = plan
    PROVE  ListOK'
<1> DEFINE c == files[k].config
           old == vserver_exists(c)
<1>1. /\ k \in DOMAIN files /\ UNCHANGED <<files, at>> /\ k' = k + 1
      /\ at \in {"read", "bootread"} /\ c \in plan.configs
      /\ list \in Seq(Server) /\ DOMAIN files \subseteq Nat /\ k \in Nat
  BY ListParts DEF register_vserver, Advance, ListOK, FromPlan
<1>2. \/ ~files[k].readable /\ list' = list
      \/ /\ files[k].readable /\ old # {}
         /\ list' = [list EXCEPT ![Min(old)] = Marked(@, c)]
      \/ files[k].readable /\ old = {} /\ list' = Append(list, NewServer(c))
  BY Zenon DEF register_vserver, Registered
<1>3. \A i \in DOMAIN list : i \in old <=> list[i].cfg.name = c.name
  BY <1>1, SameName DEF vserver_exists, ListOK, FromPlan
<1>4. old \subseteq DOMAIN list /\ old \subseteq Nat
  BY <1>1 DEF vserver_exists
<1>5. /\ FromPlan /\ NamesDiffer /\ Named
      /\ \A i \in DOMAIN list : Marks(list[i]) /\ Fits(i)
  BY <1>1 DEF ListOK
<1> HIDE DEF c, old
<1>6. \A j \in DOMAIN files :
          HasRead(j)' <=> HasRead(j) \/ (j = k /\ files[k].readable)
  BY <1>1 DEF HasRead
<1>7. \A j \in DOMAIN files : HasRead(j) /\ files[j].config.name = c.name => FALSE
  <2>1. \A j \in DOMAIN files : files[j].config.name = c.name => j = k
    BY <1>1, <1>5 DEF FromPlan, Directory, Orderly, c
  <2>2. ~HasRead(k)
    BY <1>1 DEF HasRead
  <2>3. QED
    BY <2>1, <2>2
<1>8. CASE ~files[k].readable /\ list' = list
  <2>1. \A i \in DOMAIN list : Fits(i)' /\ (Meant(i)' <=> Meant(i))
    BY <1>1, <1>5, <1>8 DEF Fits, Meant, Reloading, Booting
  <2>2. \A j \in DOMAIN files : HasRead(j)' <=> HasRead(j)
    BY <1>6, <1>8
  <2>3. Named'
    BY <1>1, <1>5, <1>8, <2>1, <2>2 DEF Named
  <2>4. QED
    BY <1>1, <1>8, <2>1, <2>3, Turned
<1>9. CASE files[k].readable /\ old = {} /\ list' = Append(list, NewServer(c))
  <2>1. PICK n : n = Len(list) + 1
    OBVIOUS
  <2>2. /\ DOMAIN list' = DOMAIN list \cup {n} /\ n \notin DOMAIN list
        /\ \A i \in DOMAIN list : list'[i] = list[i]
        /\ list'[n] = NewServer(c)
    BY <1>1, <1>9, <2>1
  <2>3. /\ list'[n].cfg = c /\ list'[n].dummy = c /\ list'[n].flag = "INIT"
        /\ ~list'[n].map /\ list'[n].sess = {}
    BY <2>2 DEF NewServer
  <2>4. FromPlan'
    BY <1>1, <1>5, <2>2, <2>3 DEF FromPlan, Directory
  <2>5. NamesDiffer'
    BY <1>3, <1>5, <1>9, <2>2, <2>3 DEF NamesDiffer
  <2>6. Marks(list'[n]) /\ Fits(n)' /\ Meant(n)'
    <3>1. Marks(list'[n])
      BY <2>3 DEF Marks
    <3>2. at' \in {"read", "bootread"} /\ list'[n].flag = "INIT" /\ ~list'[n].map
      BY <1>1, <2>3
    <3>3. QED
      BY <3>1, <3>2 DEF Fits, Meant, Reloading, Booting
  <2>7. \A i \in DOMAIN list : Fits(i)' /\ (Meant(i)' <=> Meant(i))
    BY <1>1, <1>5, <2>2 DEF Fits, Meant, Reloading, Booting
  <2>8. Named'
    <3>1. ASSUME NEW i \in DOMAIN list', Meant(i)'
          PROVE  \E j \in DOMAIN files :
                    HasRead(j)' /\ files[j].config = list'[i].dummy
      <4>1. CASE i = n
        BY <1>1, <1>6, <1>9, <2>3, <4>1 DEF c
      <4>2. CASE i # n
        BY <1>5, <1>6, <2>2, <2>7, <3>1, <4>2 DEF Named
      <4>3. QED
        BY <4>1, <4>2
    <3>2. ASSUME NEW j \in DOMAIN files, HasRead(j)'
          PROVE  \E i \in DOMAIN list' :
                    Meant(i)' /\ list'[i].dummy = files[j].config
      <4>1. CASE j = k
        <5>1. n \in DOMAIN list' /\ list'[n].dummy = files[j].config
          BY <2>2, <2>3, <4>1 DEF c
        <5>2. QED
          BY <2>6, <5>1
      <4>2. CASE j # k
        <5>1. PICK i \in DOMAIN list : Meant(i) /\ list[i].dummy = files[j].config
          BY <1>5, <1>6, <3>2, <4>2 DEF Named
        <5>2. QED
          BY <2>2, <2>7, <5>1
      <4>3. QED
        BY <4>1, <4>2
    <3>3. QED
      BY <1>1, <3>1, <3>2 DEF Named
  <2>9. QED
    <3>1. \A i \in DOMAIN list' : Marks(list'[i]) /\ Fits(i)'
      BY <1>5, <2>2, <2>6, <2>7
    <3>2. QED
      BY <1>1, <2>4, <2>5, <2>8, <3>1 DEF ListOK
<1>10. CASE /\ files[k].readable /\ old # {}
            /\ list' = [list EXCEPT ![Min(old)] = Marked(@, c)]
  <2>1. PICK n \in old : list' = [list EXCEPT ![n] = Marked(list[n], c)]
    BY <1>4, <1>10, MinExists
  <2>2. n \in DOMAIN list /\ list[n].cfg.name = c.name
    BY <1>3, <1>4, <2>1
  <2>3. /\ DOMAIN list' = DOMAIN list /\ list'[n] = Marked(list[n], c)
        /\ \A i \in DOMAIN list \ {n} : list'[i] = list[i]
    BY <1>1, <2>1, <2>2
  <2>4. /\ list'[n].cfg = list[n].cfg /\ list'[n].dummy = c
        /\ list'[n].flag \in {"RESET", "RELOAD"}
        /\ list'[n].flag = "RESET" <=> c.net # list[n].cfg.net
        /\ list'[n].map = list[n].map /\ list'[n].sess = list[n].sess
    <3>1. list[n] \in Server
      BY <1>1, <2>2
    <3>2. QED
      BY <2>2, <2>3, <3>1 DEF Marked, Server
  <2>5. ~Meant(n) /\ Marks(list[n]) /\ Fits(n)
    <3>1. Meant(n) => \E j \in DOMAIN files :
             HasRead(j) /\ files[j].config = list[n].dummy
      BY <1>5, <2>2 DEF Named
    <3>2. Marks(list[n]) /\ Fits(n)
      BY <1>5, <2>2
    <3>3. list[n].dummy.name = c.name
      BY <2>2, <3>2 DEF Marks
    <3>4. QED
      BY <1>7, <3>1, <3>2, <3>3
  <2>6. at = "read" /\ list[n].flag = "DONE" /\ list[n].map
    BY <1>1, <2>5 DEF Meant, Fits, Booting, Reloading
  <2>7. Marks(list'[n]) /\ Fits(n)' /\ Meant(n)'
    <3>1. Marks(list'[n])
      BY <2>2, <2>4, <2>6 DEF Marks
    <3>2. at' = "read" /\ list'[n].flag \notin {"INIT", "NONE", "DONE"}
      BY <1>1, <2>4, <2>6
    <3>3. list'[n].map
      BY <2>4, <2>6
    <3>4. QED
      BY <3>1, <3>2, <3>3 DEF Fits, Meant, Reloading, Booting
  <2>8. \A i \in DOMAIN list \ {n} : Fits(i)' /\ (Meant(i)' <=> Meant(i))
    BY <1>1, <1>5, <2>3 DEF Fits, Meant, Reloading, Booting
  <2>9. FromPlan' /\ NamesDiffer'
    BY <1>1, <1>5, <2>2, <2>3, <2>4, SMTT(20) DEF FromPlan, Directory, NamesDiffer
  <2>10. Named'
    <3>1. ASSUME NEW i \in DOMAIN list', Meant(i)'
          PROVE  \E j \in DOMAIN files :
                    HasRead(j)' /\ files[j].config = list'[i].dummy
      <4>1. CASE i = n
        BY <1>1, <1>6, <1>10, <2>4, <4>1 DEF c
      <4>2. CASE i # n
        BY <1>5, <1>6, <2>3, <2>8, <3>1, <4>2 DEF Named
      <4>3. QED
        BY <4>1, <4>2
    <3>2. ASSUME NEW j \in DOMAIN files, HasRead(j)'
          PROVE  \E i \in DOMAIN list' :
                    Meant(i)' /\ list'[i].dummy = files[j].config
      <4>1. CASE j = k
        <5>1. n \in DOMAIN list' /\ list'[n].dummy = files[j].config
          BY <2>2, <2>3, <2>4, <4>1 DEF c
        <5>2. QED
          BY <2>7, <5>1
      <4>2. CASE j # k
        <5>1. PICK i \in DOMAIN list : Meant(i) /\ list[i].dummy = files[j].config
          BY <1>5, <1>6, <3>2, <4>2 DEF Named
        <5>2. QED
          BY <2>3, <2>5, <2>8, <5>1
      <4>3. QED
        BY <4>1, <4>2
    <3>3. QED
      BY <1>1, <3>1, <3>2 DEF Named
  <2>11. QED
    <3>1. \A i \in DOMAIN list' : Marks(list'[i]) /\ Fits(i)'
      BY <1>5, <2>3, <2>7, <2>8
    <3>2. QED
      BY <1>1, <2>9, <2>10, <3>1 DEF ListOK
<1>11. QED
  BY <1>2, <1>8, <1>9, <1>10

-----------------------------------------------------------------------------
(* What the tasks make of a server. *)

Began(s, flag, i, on) ==
    [s EXCEPT !.flag = flag, !.iface = i, !.map = TRUE, !.sess = on]
GoneOn(s, flag, i) == [s EXCEPT !.flag = flag, !.iface = i]

LEMMA GoneOnParts ==
    ASSUME NEW s \in Server, NEW flag, NEW i
    PROVE  LET e == GoneOn(s, flag, i) IN
           /\ e.cfg = s.cfg /\ e.dummy = s.dummy /\ e.flag = flag /\ e.iface = i
           /\ e.map = s.map /\ e.sess = s.sess
BY DEF GoneOn, Server

LEMMA CleanedParts ==
    ASSUME NEW s \in Server
    PROVE  LET e == Cleaned(s) IN
           /\ e.cfg = s.cfg /\ e.dummy = s.dummy /\ e.flag = s.flag
           /\ e.iface = s.iface /\ e.map = FALSE /\ e.sess = {}
BY DEF Cleaned, Server

IfaceOf(s) == get_interface(append_interface(tab, s.cfg.dev), s.cfg.dev)

LEMMA TaskInitCases ==
    ASSUME NEW s, NEW flag, rh_task_init(s, flag)
    PROVE  \/ Die("failed")
           \/ \E on : Replaced(Began(s, flag, IfaceOf(s), on)) /\ Advance
BY DEF rh_task_init, Began, IfaceOf

LEMMA InitKeptCases ==
    ASSUME NEW s, NEW flag, InitKept(s, flag)
    PROVE  \/ Die("failed")
           \/ Replaced(GoneOn(s, flag, get_interface(tab, s.cfg.dev))) /\ Advance
BY DEF InitKept, GoneOn

LEMMA DeadList ==
    ASSUME ListOK, UNCHANGED <<plan, files>>, Die("failed") \/ Die("down")
    PROVE  ListOK'
BY ListGone DEF Die, GoTo

-----------------------------------------------------------------------------

LEMMA ReloadUnmarkedList ==
    ASSUME IInv, ListOK, ReloadUnmarked, plan' = plan PROVE ListOK'
<1>1. /\ UNCHANGED <<files, at>> /\ at = "reload" /\ k' = k + 1 /\ k \in DOMAIN list
      /\ list[k] \in Server /\ list[k].flag = "DONE" /\ k \in Nat
      /\ list' = [list EXCEPT ![k] = [list[k] EXCEPT !.flag = "NONE"]]
  BY ListParts, AtElement DEF ReloadUnmarked, Advance, Replaced, At
<1>2. PICK i \in DOMAIN list : i = k
  BY <1>1
<1>3. PICK e : e = [list[i] EXCEPT !.flag = "NONE"]
  OBVIOUS
<1>4. /\ list' = [list EXCEPT ![i] = e] /\ list'[i] = e /\ e.flag = "NONE"
      /\ e.cfg = list[i].cfg /\ e.dummy = list[i].dummy /\ e.map = list[i].map
      /\ e.sess = list[i].sess
  BY <1>1, <1>2, <1>3, ListParts DEF Server
<1>5. Marks(list[i]) /\ Fits(i)
  BY DEF ListOK
<1>6. Marks(e) /\ Fits(i)'
  BY <1>1, <1>2, <1>4, <1>5 DEF Marks, Fits, Booting, Reloading
<1>7. Meant(i)' <=> Meant(i)
  BY <1>1, <1>2, <1>4 DEF Meant
<1>8. QED
  BY <1>1, <1>2, <1>4, <1>6, <1>7, OneChanged

LEMMA ReloadNewList ==
    ASSUME IInv, ListOK, ReloadNew, plan' = plan PROVE ListOK'
<1>1. /\ UNCHANGED files /\ at = "reload" /\ k \in DOMAIN list
      /\ list[k] \in Server /\ list[k].flag = "INIT" /\ k \in Nat
      /\ \/ Die("failed")
         \/ \E on : Replaced(Began(list[k], "DONE", IfaceOf(list[k]), on)) /\ Advance
  BY ListParts, AtElement, TaskInitCases DEF ReloadNew, At
<1>2. CASE Die("failed")
  BY <1>1, <1>2, DeadList
<1>3. ASSUME NEW on, Replaced(Began(list[k], "DONE", IfaceOf(list[k]), on)), Advance
      PROVE  ListOK'
  <2>1. PICK i \in DOMAIN list : i = k
    BY <1>1
  <2>2. PICK f : f = IfaceOf(list[i])
    OBVIOUS
  <2>3. PICK e : e = Began(list[i], "DONE", f, on)
    OBVIOUS
  <2>4. /\ list' = [list EXCEPT ![i] = e] /\ list'[i] = e /\ at' = at /\ k' = k + 1
    BY <1>1, <1>3, <2>1, <2>2, <2>3, ListParts DEF Replaced, Advance
  <2>5. /\ e.flag = "DONE" /\ e.cfg = list[i].cfg /\ e.dummy = list[i].dummy
        /\ e.map = TRUE
    BY <1>1, <2>1, <2>3 DEF Began, Server
  <2>6. Marks(list[i]) /\ Fits(i)
    BY DEF ListOK
  <2>7. Marks(e) /\ Fits(i)'
    BY <1>1, <2>1, <2>4, <2>5, <2>6 DEF Marks, Fits, Booting, Reloading
  <2>8. Meant(i)' <=> Meant(i)
    BY <1>1, <2>1, <2>4, <2>5 DEF Meant
  <2>9. QED
    BY <1>1, <2>1, <2>4, <2>5, <2>7, <2>8, OneChanged
<1>4. QED
  BY <1>1, <1>2, <1>3

LEMMA InitOneList ==
    ASSUME IInv, ListOK, InitOne, plan' = plan PROVE ListOK'
<1>1. /\ UNCHANGED files /\ at = "init" /\ k \in DOMAIN list
      /\ list[k] \in Server /\ k \in Nat /\ list[k].flag = "INIT"
  BY ListParts, AtElement DEF InitOne, At, ListOK, Fits, Booting
<1>2. \/ Die("failed")
      \/ \E on : Replaced(Began(list[k], "INIT", IfaceOf(list[k]), on)) /\ Advance
  BY <1>1, TaskInitCases DEF InitOne
<1>3. CASE Die("failed")
  BY <1>1, <1>3, DeadList
<1>4. ASSUME NEW on, Replaced(Began(list[k], "INIT", IfaceOf(list[k]), on)), Advance
      PROVE  ListOK'
  <2>1. PICK i \in DOMAIN list : i = k
    BY <1>1
  <2>2. PICK f : f = IfaceOf(list[i])
    OBVIOUS
  <2>3. PICK e : e = Began(list[i], "INIT", f, on)
    OBVIOUS
  <2>4. /\ list' = [list EXCEPT ![i] = e] /\ list'[i] = e /\ at' = at /\ k' = k + 1
    BY <1>1, <1>4, <2>1, <2>2, <2>3, ListParts DEF Replaced, Advance
  <2>5. /\ e.flag = "INIT" /\ e.cfg = list[i].cfg /\ e.dummy = list[i].dummy
        /\ e.map = TRUE
    BY <1>1, <2>1, <2>3 DEF Began, Server
  <2>6. Marks(list[i]) /\ Fits(i)
    BY DEF ListOK
  <2>7. Marks(e) /\ Fits(i)'
    BY <1>1, <2>1, <2>4, <2>5, <2>6 DEF Marks, Fits, Booting, Reloading
  <2>8. Meant(i)' <=> Meant(i)
    BY <1>1, <2>1, <2>4, <2>5 DEF Meant
  <2>9. QED
    BY <1>1, <2>1, <2>4, <2>5, <2>7, <2>8, OneChanged
<1>5. QED
  BY <1>2, <1>3, <1>4

(* The settings read last come into force; the sessions stay.              *)
Renewed(s) == [s EXCEPT !.cfg = s.dummy]

LEMMA RenewedParts ==
    ASSUME NEW s \in Server
    PROVE  LET e == Renewed(s) IN
           /\ e \in Server /\ e.cfg = s.dummy /\ e.dummy = s.dummy
           /\ e.flag = s.flag /\ e.iface = s.iface /\ e.map = s.map
           /\ e.sess = s.sess
BY DEF Renewed, Server

LEMMA ReloadKeptList ==
    ASSUME IInv, ListOK, ReloadKept, plan' = plan PROVE ListOK'
<1> DEFINE s == Renewed(list[k])
           i0 == get_interface(tab, s.cfg.dev)
<1>1. /\ UNCHANGED files /\ at = "reload" /\ k \in DOMAIN list
      /\ list[k] \in Server /\ list[k].flag = "RELOAD" /\ k \in Nat
      /\ Die("failed") \/ (Replaced(GoneOn(s, "DONE", i0)) /\ Advance)
  BY ListParts, AtElement, InitKeptCases DEF ReloadKept, At, Renewed
<1>2. CASE Die("failed")
  BY <1>1, <1>2, DeadList
<1>3. CASE Replaced(GoneOn(s, "DONE", i0)) /\ Advance
  <2>1. PICK i \in DOMAIN list : i = k
    BY <1>1
  <2>2. PICK e : e = GoneOn(s, "DONE", i0)
    OBVIOUS
  <2> HIDE DEF i0
  <2>3. /\ list' = [list EXCEPT ![i] = e] /\ list'[i] = e /\ at' = at /\ k' = k + 1
        /\ e.flag = "DONE" /\ e.cfg = list[i].dummy /\ e.dummy = list[i].dummy
        /\ e.map = list[i].map /\ e.sess = list[i].sess
    BY <1>1, <1>3, <2>1, <2>2, GoneOnParts, RenewedParts, ListParts
       DEF Replaced, Advance
  <2>4. Marks(list[i]) /\ Fits(i)
    BY DEF ListOK
  <2>5. Marks(e) /\ Fits(i)'
    BY <1>1, <2>1, <2>3, <2>4 DEF Marks, Fits, Booting, Reloading
  <2>6. Meant(i)' <=> Meant(i)
    BY <1>1, <2>1, <2>3 DEF Meant
  <2>7. QED
    BY <1>1, <2>1, <2>3, <2>5, <2>6, OneChanged
<1>4. QED
  BY <1>1, <1>2, <1>3

WasReset(s) == [Cleaned(s) EXCEPT !.cfg = s.dummy, !.flag = "INIT"]

LEMMA WasResetParts ==
    ASSUME NEW s \in Server
    PROVE  LET e == WasReset(s) IN
           /\ e.cfg = s.dummy /\ e.dummy = s.dummy /\ e.flag = "INIT"
           /\ e.map = FALSE /\ e.sess = {}
BY DEF WasReset, Cleaned, Server

LEMMA ReloadResetList ==
    ASSUME IInv, ListOK, ReloadReset, plan' = plan PROVE ListOK'
<1>1. /\ UNCHANGED files /\ at = "reload" /\ k \in DOMAIN list
      /\ list[k] \in Server /\ list[k].flag = "RESET" /\ k \in Nat
      /\ \/ Die("failed")
         \/ Replaced(WasReset(list[k])) /\ UNCHANGED <<at, k>>
  BY ListParts, AtElement DEF ReloadReset, At, CleanupFails, WasReset
<1>2. CASE Die("failed")
  BY <1>1, <1>2, DeadList
<1>3. CASE Replaced(WasReset(list[k])) /\ UNCHANGED <<at, k>>
  <2>1. PICK i \in DOMAIN list : i = k
    BY <1>1
  <2>2. PICK e : e = WasReset(list[i])
    OBVIOUS
  <2>3. /\ list' = [list EXCEPT ![i] = e] /\ list'[i] = e /\ at' = at /\ k' = k
        /\ e.flag = "INIT" /\ e.cfg = list[i].dummy /\ e.dummy = list[i].dummy
        /\ e.map = FALSE /\ e.sess = {}
    BY <1>1, <1>3, <2>1, <2>2, WasResetParts, ListParts DEF Replaced
  <2>4. Marks(list[i]) /\ Fits(i)
    BY DEF ListOK
  <2>5. Marks(e) /\ Fits(i)'
    BY <1>1, <2>1, <2>3, <2>4 DEF Marks, Fits, Booting, Reloading
  <2>6. Meant(i)' <=> Meant(i)
    BY <1>1, <2>1, <2>3 DEF Meant
  <2>7. QED
    BY <1>1, <2>1, <2>3, <2>5, <2>6, OneChanged
<1>4. QED
  BY <1>1, <1>2, <1>3

LEMMA ExitOneList ==
    ASSUME IInv, ListOK, ExitOne, plan' = plan PROVE ListOK'
<1>1. /\ UNCHANGED files /\ at = "exit" /\ k \in DOMAIN list
      /\ list[k] \in Server /\ k \in Nat
      /\ Die("failed") \/ (Replaced(Cleaned(list[k])) /\ Advance)
  BY ListParts, AtElement DEF ExitOne, At, CleanupFails
<1>2. CASE Die("failed")
  BY <1>1, <1>2, DeadList
<1>3. CASE Replaced(Cleaned(list[k])) /\ Advance
  <2>1. PICK i \in DOMAIN list : i = k
    BY <1>1
  <2>2. PICK e : e = Cleaned(list[i])
    OBVIOUS
  <2>3. /\ list' = [list EXCEPT ![i] = e] /\ list'[i] = e /\ at' = at /\ k' = k + 1
        /\ e.flag = list[i].flag /\ e.cfg = list[i].cfg /\ e.dummy = list[i].dummy
        /\ e.map = FALSE /\ e.sess = {}
    BY <1>1, <1>3, <2>1, <2>2, CleanedParts, ListParts DEF Replaced, Advance
  <2>4. Marks(list[i]) /\ Fits(i)
    BY DEF ListOK
  <2>5. Marks(e) /\ Fits(i)'
    BY <1>1, <2>1, <2>3, <2>4 DEF Marks, Fits, Booting, Reloading
  <2>6. QED
    BY <1>1, <2>1, <2>3, <2>5, OneChanged
<1>4. QED
  BY <1>1, <1>2, <1>3

(* Sessions come and go, flags and settings stay.                          *)
LEMMA SessionList ==
    ASSUME IInv, ListOK, UNCHANGED <<plan, files, at, k>>,
           at \notin {"down", "failed"},
           NEW i \in DOMAIN list, NEW S, list[i].map \/ S = {},
           list' = [list EXCEPT ![i].sess = S]
    PROVE  ListOK'
<1>1. PICK e : e = [list[i] EXCEPT !.sess = S]
  OBVIOUS
<1>2. list[i] \in Server
  BY ListParts
<1>3. /\ list' = [list EXCEPT ![i] = e] /\ list'[i] = e
      /\ e.flag = list[i].flag /\ e.cfg = list[i].cfg /\ e.dummy = list[i].dummy
      /\ e.map = list[i].map /\ e.sess = S
  BY <1>1, <1>2 DEF Server
<1>4. Marks(list[i]) /\ Fits(i)
  BY DEF ListOK
<1>5. Marks(e) /\ Fits(i)'
  BY <1>3, <1>4 DEF Marks, Fits
<1>6. Meant(i)' <=> Meant(i)
  BY <1>3 DEF Meant
<1>7. QED
  BY <1>3, <1>5, <1>6, OneChanged

(* The first server of a number is an element of the list.                 *)
LEMMA ServerOfNumber ==
    ASSUME IInv, NEW id, vserver_get_by_id(id) # {}
    PROVE  LET i == Min(vserver_get_by_id(id)) IN
           i \in DOMAIN list /\ list[i].cfg.id = id
<1>1. vserver_get_by_id(id) \subseteq Nat
  BY DEF vserver_get_by_id, IInv, Memory
<1>2. QED
  BY <1>1, MinExists DEF vserver_get_by_id

LEMMA LoginList ==
    ASSUME IInv, ListOK, NEW id \in Numbers, NEW c \in Clients, Login(id, c),
           plan' = plan
    PROVE  ListOK'
<1>1. PICK i \in DOMAIN list : i = Min(vserver_get_by_id(id))
  BY ServerOfNumber DEF Login
<1>2. /\ at = "serve" /\ UNCHANGED files
      /\ \/ Die("failed")
         \/ /\ UNCHANGED <<at, k>> /\ list[i].map
            /\ \E m : list' = [list EXCEPT ![i].sess = list[i].sess \cup {m}]
  BY <1>1 DEF Login
<1>3. QED
  BY <1>2, DeadList, SessionList

LEMMA StopList ==
    ASSUME IInv, ListOK, NEW i \in DOMAIN list, NEW c \in Clients, Stop(i, c),
           plan' = plan
    PROVE  ListOK'
<1>1. /\ at \notin {"down", "failed"} /\ UNCHANGED <<files, at, k>>
      /\ list' = [list EXCEPT ![i].sess = list[i].sess \ {c}]
      /\ c \in list[i].sess
  BY DEF Stop, Reloading
<1>2. list[i].map
  BY <1>1 DEF ListOK, Marks
<1>3. QED
  BY <1>1, <1>2, SessionList

(* The server removed is the one cleaned up, as a number names one server. *)
Cut(i) ==
    /\ DOMAIN list' = 1 .. Len(list) - 1
    /\ \A j \in DOMAIN list' :
          list'[j] = IF j < i THEN list[j] ELSE list[j + 1]

LEMMA UnusedCut ==
    ASSUME IInv, Orderly, ListOK, CleanUnused, ~Die("failed")
    PROVE  \E i \in DOMAIN list :
              /\ list[i].flag = "NONE" /\ Cut(i)
              /\ \E walked \in BOOLEAN : rh_task_cleanup(list[i], walked)
<1>1. PICK i \in DOMAIN list : i = Min(Unused) /\ list[i].flag = "NONE"
  <2>1. Unused \subseteq Nat /\ Unused # {}
    BY DEF Unused, CleanUnused, IInv, Memory
  <2>2. QED
    BY <2>1, MinExists DEF Unused
<1>2. list[i] \in Server /\ list \in Seq(Server)
  BY ListParts
<1>3. PICK L : L = [list EXCEPT ![i] = Cleaned(list[i])]
  OBVIOUS
<1>4. /\ \E walked \in BOOLEAN : rh_task_cleanup(list[i], walked)
      /\ list' = unregister_vserver(L, list[i].cfg.id)
  BY <1>1, <1>3 DEF CleanUnused, CleanupFails
<1>5. Cleaned(list[i]) \in Server /\ Cleaned(list[i]).cfg = list[i].cfg
  BY <1>2 DEF Cleaned, Server
<1>6. /\ L \in Seq(Server) /\ DOMAIN L = DOMAIN list /\ Len(L) = Len(list)
      /\ \A j \in DOMAIN list : L[j].cfg = list[j].cfg /\ (j # i => L[j] = list[j])
  BY <1>1, <1>2, <1>3, <1>5, ExceptAtSeq
<1>7. {j \in DOMAIN L : L[j].cfg.id = list[i].cfg.id} = {i}
  <2>1. \A j \in DOMAIN list : list[j].cfg.id = list[i].cfg.id => j = i
    BY DEF Orderly, NumbersKept, ListOK, FromPlan, NamesDiffer
  <2>2. QED
    BY <1>6, <2>1
<1>8. list' = RemoveAt(L, i)
  <2>1. Min({i}) = i
    <3>1. {i} \subseteq Nat
      BY <1>2
    <3>2. QED
      BY <3>1, MinExists
  <2>2. QED
    BY <1>4, <1>7, <2>1 DEF unregister_vserver
<1>9. /\ Len(list') = Len(L) - 1 /\ list' \in Seq(Server)
      /\ \A j \in 1 .. Len(L) - 1 : list'[j] = IF j < i THEN L[j] ELSE L[j + 1]
  BY <1>6, <1>8, RemoveAtSeq
<1>10. Cut(i)
  <2>1. DOMAIN list' = 1 .. Len(list) - 1 /\ Len(list) \in Nat
    BY <1>2, <1>6, <1>9
  <2>2. i \in 1 .. Len(list) /\ DOMAIN list = 1 .. Len(list)
    BY <1>2
  <2>3. \A j \in 1 .. Len(list) - 1 :
           /\ j \in DOMAIN list /\ j + 1 \in DOMAIN list
           /\ j < i => j # i
           /\ ~(j < i) => j + 1 # i
    BY <2>1, <2>2
  <2>4. QED
    BY <1>6, <1>9, <2>1, <2>3 DEF Cut
<1>11. QED
  BY <1>1, <1>4, <1>10

(* The elements after the cut are the others of the list, each once.       *)
Old(i, j) == IF j < i THEN j ELSE j + 1

LEMMA CutOthers ==
    ASSUME IInv, ListOK, NEW i \in DOMAIN list, Cut(i)
    PROVE  /\ \A j \in DOMAIN list' :
                 Old(i, j) \in DOMAIN list \ {i} /\ list'[j] = list[Old(i, j)]
           /\ \A j, m \in DOMAIN list' : Old(i, j) = Old(i, m) => j = m
           /\ \A m \in DOMAIN list \ {i} : \E j \in DOMAIN list' : Old(i, j) = m
<1>1. /\ DOMAIN list = 1 .. Len(list) /\ Len(list) \in Nat
      /\ DOMAIN list' = 1 .. Len(list) - 1 /\ i \in 1 .. Len(list)
  BY ListParts DEF Cut
<1>2. \A m \in DOMAIN list \ {i} : \E j \in DOMAIN list' : Old(i, j) = m
  <2> SUFFICES ASSUME NEW m \in DOMAIN list \ {i}
               PROVE  \E j \in DOMAIN list' : Old(i, j) = m
    OBVIOUS
  <2> DEFINE j == IF m < i THEN m ELSE m - 1
  <2>1. j \in DOMAIN list' /\ Old(i, j) = m
    BY <1>1 DEF Old
  <2>2. QED
    BY <2>1
<1>3. QED
  BY <1>1, <1>2 DEF Old, Cut

LEMMA CleanUnusedList ==
    ASSUME IInv, Orderly, ListOK, CleanUnused, plan' = plan PROVE ListOK'
<1>1. at = "unused" /\ UNCHANGED files
  BY DEF CleanUnused
<1>2. CASE Die("failed")
  BY <1>1, <1>2, DeadList
<1>3. CASE ~Die("failed")
  <2>1. UNCHANGED <<at, k>>
    BY <1>3 DEF CleanUnused, CleanupFails
  <2>2. PICK i \in DOMAIN list : list[i].flag = "NONE" /\ Cut(i)
    BY <1>3, UnusedCut
  <2>3. /\ \A j \in DOMAIN list' :
              Old(i, j) \in DOMAIN list \ {i} /\ list'[j] = list[Old(i, j)]
        /\ \A j, m \in DOMAIN list' : Old(i, j) = Old(i, m) => j = m
        /\ \A m \in DOMAIN list \ {i} : \E j \in DOMAIN list' : Old(i, j) = m
    BY <2>2, CutOthers
  <2>4. FromPlan' /\ NamesDiffer'
    BY <1>1, <2>3 DEF ListOK, FromPlan, Directory, NamesDiffer
  <2>5. ASSUME NEW j \in DOMAIN list' PROVE Marks(list'[j]) /\ Fits(j)'
    <3>1. Marks(list[Old(i, j)]) /\ Fits(Old(i, j))
      BY <2>3 DEF ListOK
    <3>2. QED
      BY <1>1, <2>1, <2>3, <3>1 DEF Fits, Booting, Reloading
  <2>6. \A j \in DOMAIN files : HasRead(j)' <=> HasRead(j)
    BY <1>1, <2>1 DEF HasRead
  <2>7. \A j \in DOMAIN list' : Meant(j)' <=> Meant(Old(i, j))
    BY <1>1, <2>1, <2>3 DEF Meant
  <2>8. ~Meant(i) /\ Named
    BY <1>1, <2>2 DEF Meant, ListOK
  <2>9. Named'
    <3>1. ASSUME NEW j \in DOMAIN list', Meant(j)'
          PROVE  \E f \in DOMAIN files :
                    HasRead(f)' /\ files[f].config = list'[j].dummy
      BY <2>3, <2>6, <2>7, <2>8, <3>1 DEF Named
    <3>2. ASSUME NEW f \in DOMAIN files, HasRead(f)'
          PROVE  \E j \in DOMAIN list' :
                    Meant(j)' /\ list'[j].dummy = files[f].config
      <4>1. PICK m \in DOMAIN list \ {i} : Meant(m) /\ list[m].dummy = files[f].config
        BY <2>6, <2>8, <3>2 DEF Named
      <4>2. PICK j \in DOMAIN list' : Old(i, j) = m
        BY <2>3
      <4>3. QED
        BY <2>3, <2>7, <4>1, <4>2
    <3>3. QED
      BY <1>1, <3>1, <3>2 DEF Named
  <2>10. QED
    BY <1>1, <2>1, <2>4, <2>5, <2>9 DEF ListOK
<1>4. QED
  BY <1>2, <1>3

LEMMA EndList ==
    ASSUME ListOK, ExitDone \/ Crash, plan' = plan PROVE ListOK'
BY DeadList DEF ExitDone, Crash

LEMMA ListOKStep ==
    ASSUME IInv, Orderly, ListOK, [Next]_vars, plan' = plan PROVE ListOK'
<1>1. CASE Daemon
  <2>1. CASE register_vserver /\ Die("failed")
    BY <2>1, DeadList DEF register_vserver
  <2>2. CASE register_vserver \/ ReadDone \/ ReloadUnmarked \/ ReloadNew
    BY <2>1, <2>2, RegisterList, ReadDoneList, ReloadUnmarkedList, ReloadNewList
  <2>3. CASE ReloadKept \/ ReloadReset \/ ReloadDone \/ CleanUnused \/ UnusedDone
    BY <2>3, ReloadKeptList, ReloadResetList, ReloadDoneList, CleanUnusedList,
       UnusedDoneList
  <2>4. CASE InitOne \/ InitDone \/ ExitOne \/ ExitDone
    BY <2>4, InitOneList, InitDoneList, ExitOneList, EndList
  <2>5. QED
    BY <1>1, <2>1, <2>2, <2>3, <2>4 DEF Daemon
<1>2. CASE Terminate \/ Crash \/ \E dir \in Directories : Boot(dir) \/ Hangup(dir)
  BY <1>2, TerminateList, EndList, BootList, HangupList
<1>3. CASE PollingFails
  BY <1>3, DeadList DEF PollingFails
<1>4. CASE \E id \in Numbers, c \in Clients : Login(id, c)
  BY <1>4, LoginList
<1>5. CASE \E i \in DOMAIN list, c \in Clients : Stop(i, c)
  BY <1>5, StopList
<1>6. CASE UNCHANGED vars
  BY <1>6, ListSame DEF vars
<1>7. QED
  BY <1>1, <1>2, <1>3, <1>4, <1>5, <1>6 DEF Next

LEMMA ListInitially == Init => ListInv
<1> SUFFICES ASSUME Init PROVE ListOK
  BY DEF ListInv
<1>1. files = <<>> /\ list = <<>> /\ at = "down"
  BY DEF Init
<1>2. DOMAIN files = {} /\ DOMAIN list = {}
  BY <1>1
<1>3. QED
  BY <1>1, <1>2 DEF ListOK, FromPlan, Directory, NamesDiffer

LEMMA ListStep == IInv /\ ListInv /\ [Next]_vars => ListInv'
BY PlanSame, OrderlySame, ListOKStep DEF ListInv

LEMMA ListInvariant == Spec => []ListInv
BY Invariant, ListInitially, ListStep, PTL DEF Spec

LEMMA UpTo ==
    ASSUME NEW n \in Nat PROVE IsFiniteSet(1 .. n) /\ Cardinality(1 .. n) = n
<1>1. /\ IsFiniteSet(1 .. n)
      /\ Cardinality(1 .. n) = IF 1 > n THEN 0 ELSE n - 1 + 1
  BY FS_Interval
<1>2. QED
  BY <1>1

(* No more servers than files: the names of both differ.                   *)
LEMMA NoMoreThanFiles ==
    ASSUME IInv, ListOK, at = "serve" PROVE Len(list) <= Len(files)
<1>1. /\ DOMAIN list = 1 .. Len(list) /\ Len(list) \in Nat
      /\ DOMAIN files = 1 .. Len(files) /\ Len(files) \in Nat
  BY ListParts
<1>2. /\ IsFiniteSet(DOMAIN list) /\ Cardinality(DOMAIN list) = Len(list)
      /\ IsFiniteSet(DOMAIN files) /\ Cardinality(DOMAIN files) = Len(files)
  BY <1>1, UpTo
<1> DEFINE f == [i \in DOMAIN list |->
                    CHOOSE j \in DOMAIN files : files[j].config = list[i].cfg]
<1>3. \A i \in DOMAIN list : f[i] \in DOMAIN files /\ files[f[i]].config = list[i].cfg
  <2>1. ASSUME NEW i \in DOMAIN list
        PROVE  \E j \in DOMAIN files : files[j].config = list[i].cfg
    <3>1. Marks(list[i]) /\ Fits(i) /\ Named
      BY DEF ListOK
    <3>2. Meant(i) /\ list[i].dummy = list[i].cfg
      BY <3>1 DEF Meant, Fits, Marks
    <3>3. QED
      BY <3>1, <3>2 DEF Named
  <2>2. QED
    BY <2>1
<1>4. f \in [DOMAIN list -> DOMAIN files]
  BY <1>3
<1> HIDE DEF f
<1>5. ASSUME Len(files) < Len(list) PROVE FALSE
  <2>1. PICK i, m \in DOMAIN list : i # m /\ f[i] = f[m]
    BY <1>2, <1>4, <1>5, FS_PigeonHole
  <2>2. list[i].cfg = list[m].cfg
    BY <1>3, <2>1
  <2>3. QED
    BY <2>1, <2>2 DEF ListOK, NamesDiffer
<1>6. QED
  BY <1>1, <1>5

(* A start and every reload end with the virtual servers of the readable   *)
(* files, in the settings the files have.                                  *)
THEOREM ServersAreConfigured == Spec => []ConfiguredAreServed
<1>1. IInv /\ ListInv => ConfiguredAreServed
  <2> SUFFICES ASSUME IInv, ListOK, at = "serve"
               PROVE  Serving = Wanted /\ Len(list) <= Len(files)
    BY DEF ListInv, Orderly, ConfiguredAreServed
  <2>1. \A i \in DOMAIN list : Meant(i) /\ list[i].dummy = list[i].cfg
    <3>1. ASSUME NEW i \in DOMAIN list PROVE Marks(list[i]) /\ Fits(i)
      BY DEF ListOK
    <3>2. QED
      BY <3>1 DEF Meant, Fits, Marks
  <2>2. \A j \in DOMAIN files : HasRead(j) <=> files[j].readable
    BY DEF HasRead
  <2>3. Named
    BY DEF ListOK
  <2>4. \A c : c \in Serving <=> c \in Wanted
    BY <2>1, <2>2, <2>3 DEF Named, Serving, Wanted
  <2>5. QED
    BY <2>4, NoMoreThanFiles
<1>2. QED
  BY <1>1, Invariant, ListInvariant, PTL

-----------------------------------------------------------------------------
(* The servers in service, and what the steps do to them, to the table of  *)
(* interfaces and to what outlives the process.                            *)
Core(s) == [cfg |-> s.cfg, iface |-> s.iface, sess |-> s.sess]
Up == {Core(list[i]) : i \in {j \in DOMAIN list : list[j].map}}

InterfaceFor(d) == get_interface(append_interface(tab, d), d)

Quiet ==
    /\ Up' = Up
    /\ UNCHANGED <<outside, tab>>
    /\ at' = "failed" => at = "failed" \/ MayFail

Over ==
    /\ Up' = {}
    /\ tab' = NoInterfaces
    /\ UNCHANGED outside
    /\ at' = "failed" => MayFail
    /\ MayFail \/ downs' # 0

CutShort(u) ==
    /\ u \in Up
    /\ at' = "failed"
    /\ ~plan.reliable \/ ~(u.sess \subseteq Inside(nets[u.cfg.name]))
    /\ Up' = {}
    /\ tab' = NoInterfaces
    /\ UNCHANGED <<kernel, runfiles, rows>>

Fresh(c) == c \in plan.configs /\ \A u \in Up : u.cfg.name # c.name

(* The firewall's part of a start. *)
Walled(c) ==
    /\ runfiles' = runfiles \cup {c.name}
    /\ nets' = [nets EXCEPT ![c.name] = Made(c)]

Begins(c, on) ==
    /\ Fresh(c)
    /\ c.name # NoName
    /\ at' # "failed"
    /\ InterfaceFor(c.dev) # NoIfb
    /\ on \in Restored(Made(c), c.id)
    /\ Up' = Up \cup {[cfg |-> c, iface |-> InterfaceFor(c.dev), sess |-> on]}
    /\ bandwidth_start(append_interface(tab, c.dev), InterfaceFor(c.dev))
    /\ Walled(c)
    /\ sets' = [sets EXCEPT ![c.name] = on \cap Inside(Made(c))]
    /\ rows' = rows \cup ({c.id} \X on)

BeginFails(c) ==
    /\ Fresh(c)
    /\ at' = "failed"
    /\ \/ c.name = NoName \/ InterfaceFor(c.dev) = NoIfb
       \/ Made(c) = NoNet \/ ~plan.reliable
    /\ Up' = {}
    /\ tab' = NoInterfaces
    /\ UNCHANGED <<shaped, rows>>
    /\ c.name # NoName => Walled(c)

SameServer(c, d) == c \in plan.configs /\ c.name = d.name /\ c.net = d.net

GoesOn(u, c) ==
    /\ u \in Up
    /\ SameServer(c, u.cfg)
    /\ at' # "failed"
    /\ get_interface(tab, c.dev) # NoIfb
    /\ Up' = (Up \ {u}) \cup {[cfg |-> c, iface |-> get_interface(tab, c.dev),
                              sess |-> u.sess]}
    /\ bandwidth_start(tab, get_interface(tab, c.dev))
    /\ runfiles' = runfiles \cup {c.name}
    /\ UNCHANGED <<kernel, rows>>

GoOnFails(u, c) ==
    /\ u \in Up
    /\ at' = "failed"
    /\ SameServer(c, u.cfg)
    /\ get_interface(tab, c.dev) = NoIfb
    /\ Up' = {}
    /\ tab' = NoInterfaces
    /\ runfiles' = runfiles \cup {c.name}
    /\ UNCHANGED <<kernel, rows, shaped>>

(* What is left outside of the process. *)
Leftover(u) ==
    /\ \E walked \in BOOLEAN :
          /\ u.cfg.name \in exist /\ plan.reliable => walked
          /\ rows' \in IF walked THEN RowsLeft(u.cfg, u.sess) ELSE {rows}
    /\ nets' = IF u.cfg.name \in runfiles THEN [nets EXCEPT ![u.cfg.name] = NoNet]
               ELSE nets
    /\ sets' = [sets EXCEPT ![u.cfg.name] = {}]
    /\ runfiles' = runfiles \ {u.cfg.name}

Ends(u) ==
    /\ u \in Up
    /\ at' # "failed"
    /\ Up' = Up \ {u}
    /\ BandwidthCleanup(u)
    /\ Leftover(u)

HasNow(u, S) ==
    /\ u \in Up
    /\ at' # "failed"
    /\ Up' = (Up \ {u}) \cup {[cfg |-> u.cfg, iface |-> u.iface, sess |-> S]}
    /\ UNCHANGED <<tab, nets, runfiles, shaped>>

(* A login: the member is the address logged in, or the one before the     *)
(* first of the set's network.                                             *)
MemberFor(u, m) ==
    u.cfg.name \in exist => \E c \in plan.clients : m = Known(nets[u.cfg.name], c)

Joins(u, m) ==
    /\ HasNow(u, u.sess \cup {m})
    /\ MemberFor(u, m)
    /\ rows' = rows \cup {<<u.cfg.id, m>>}
    /\ sets' = [sets EXCEPT ![u.cfg.name] =
                   @ \cup ({m} \cap Inside(nets[u.cfg.name]))]

Leaves(u, c) ==
    /\ HasNow(u, u.sess \ {c})
    /\ c \in u.sess
    /\ rows' \in RowsLeft(u.cfg, {c})
    /\ sets' = [sets EXCEPT ![u.cfg.name] = @ \ {c}]

UpStep ==
    \/ Quiet \/ Over
    \/ \E u \in Up : Ends(u) \/ CutShort(u)
    \/ \E c \in Config : BeginFails(c) \/ \E on \in SUBSET Clients : Begins(c, on)
    \/ \E u \in Up, c \in Config : GoesOn(u, c) \/ GoOnFails(u, c)
    \/ \E u \in Up, c \in Clients : Joins(u, c) \/ Leaves(u, c)

-----------------------------------------------------------------------------

LEMMA UpParts ==
    ASSUME IInv, Orderly, ListOK, NEW u \in Up
    PROVE  /\ u.cfg \in plan.configs /\ u.cfg \in Config /\ u.sess \subseteq Clients
           /\ u.cfg.name \in Names \cup {NoName} /\ u.cfg.id \in Numbers
           /\ u.cfg.dev \in Devs \cup {NoDev}
           /\ u = [cfg |-> u.cfg, iface |-> u.iface, sess |-> u.sess]
           /\ \A v \in Up : v.cfg.name = u.cfg.name => v = u
           /\ \A v \in Up : v.cfg.id = u.cfg.id => v = u
<1>1. PICK i \in DOMAIN list : u = Core(list[i])
  BY DEF Up
<1>2. ASSUME NEW v \in Up, v.cfg.name = u.cfg.name PROVE v = u
  <2>1. PICK m \in DOMAIN list : v = Core(list[m])
    BY DEF Up
  <2>2. list[m].cfg.name = list[i].cfg.name
    BY <1>1, <1>2, <2>1 DEF Core
  <2>3. m = i
    BY <2>2 DEF ListOK, NamesDiffer
  <2>4. QED
    BY <1>1, <2>1, <2>3
<1>3. /\ u.cfg = list[i].cfg /\ u.sess = list[i].sess
      /\ u = [cfg |-> u.cfg, iface |-> u.iface, sess |-> u.sess]
  BY <1>1 DEF Core
<1>4. u.cfg \in plan.configs
  BY <1>3 DEF ListOK, FromPlan
<1>5. u.cfg \in Config /\ u.sess \subseteq Clients
  BY <1>3, Element DEF IInv, Memory
<1>6. \A v \in Up : v.cfg \in plan.configs
  <2>1. ASSUME NEW v \in Up PROVE v.cfg \in plan.configs
    <3>1. PICK m \in DOMAIN list : v = Core(list[m])
      BY DEF Up
    <3>2. QED
      BY <3>1 DEF Core, ListOK, FromPlan
  <2>2. QED
    BY <2>1
<1>7. \A v \in Up : v.cfg.id = u.cfg.id => v.cfg.name = u.cfg.name
  BY <1>4, <1>6 DEF Orderly, NumbersKept
<1>8. QED
  BY <1>2, <1>3, <1>4, <1>5, <1>7 DEF Config

LEMMA UpSame ==
    ASSUME DOMAIN list' = DOMAIN list,
           \A i \in DOMAIN list :
              /\ list'[i].map = list[i].map
              /\ list[i].map => Core(list'[i]) = Core(list[i])
    PROVE  Up' = Up
BY DEF Up

LEMMA UpUnchanged == ASSUME list' = list PROVE Up' = Up
BY DEF Up

LEMMA UpGone == ASSUME list' = <<>> PROVE Up' = {}
<1>1. DOMAIN list' = {}
  OBVIOUS
<1>2. QED
  BY <1>1 DEF Up

LEMMA UpChanged ==
    ASSUME IInv, ListOK, NEW i \in DOMAIN list, NEW e,
           list' = [list EXCEPT ![i] = e]
    PROVE  Up' = (IF list[i].map THEN Up \ {Core(list[i])} ELSE Up)
                 \cup (IF e.map THEN {Core(e)} ELSE {})
<1>1. /\ DOMAIN list' = DOMAIN list /\ list'[i] = e
      /\ \A j \in DOMAIN list : j # i => list'[j] = list[j]
  BY ListParts
<1>2. \A j \in DOMAIN list : j # i => Core(list[j]) # Core(list[i])
  <2>1. ASSUME NEW j \in DOMAIN list, Core(list[j]) = Core(list[i]) PROVE j = i
    <3>1. list[j].cfg = list[i].cfg
      BY <2>1 DEF Core
    <3>2. QED
      BY <3>1 DEF ListOK, NamesDiffer
  <2>2. QED
    BY <2>1
<1>3. ASSUME NEW x
      PROVE  x \in Up' <=> \/ x \in Up /\ ~(list[i].map /\ x = Core(list[i]))
                           \/ e.map /\ x = Core(e)
  <2>1. x \in Up' <=> \E j \in DOMAIN list : list'[j].map /\ x = Core(list'[j])
    BY <1>1 DEF Up
  <2>2. x \in Up <=> \E j \in DOMAIN list : list[j].map /\ x = Core(list[j])
    BY DEF Up
  <2>3. QED
    BY <1>1, <1>2, <2>1, <2>2
<1>4. QED
  BY <1>3

LEMMA UpCut ==
    ASSUME IInv, ListOK, NEW i \in DOMAIN list, Cut(i), list[i].map
    PROVE  Up' = Up \ {Core(list[i])}
<1>1. /\ \A j \in DOMAIN list' :
            Old(i, j) \in DOMAIN list \ {i} /\ list'[j] = list[Old(i, j)]
      /\ \A m \in DOMAIN list \ {i} : \E j \in DOMAIN list' : Old(i, j) = m
  BY CutOthers
<1>2. \A j \in DOMAIN list : j # i => Core(list[j]) # Core(list[i])
  <2>1. ASSUME NEW j \in DOMAIN list, Core(list[j]) = Core(list[i]) PROVE j = i
    <3>1. list[j].cfg = list[i].cfg
      BY <2>1 DEF Core
    <3>2. QED
      BY <3>1 DEF ListOK, NamesDiffer
  <2>2. QED
    BY <2>1
<1>3. ASSUME NEW x PROVE x \in Up' <=> x \in Up /\ x # Core(list[i])
  <2>1. x \in Up' <=> \E j \in DOMAIN list' : list'[j].map /\ x = Core(list'[j])
    BY DEF Up
  <2>2. x \in Up <=> \E j \in DOMAIN list : list[j].map /\ x = Core(list[j])
    BY DEF Up
  <2>3. x \in Up' <=>
           \E m \in DOMAIN list \ {i} : list[m].map /\ x = Core(list[m])
    BY <1>1, <2>1
  <2>4. QED
    BY <1>2, <2>2, <2>3
<1>4. QED
  BY <1>3

LEMMA QuietPhases ==
    ASSUME IInv, ListOK,
           ReloadDone \/ UnusedDone \/ Terminate
              \/ (\E dir \in Directories : Boot(dir) \/ Hangup(dir)),
           ~Die("failed") \/ at \in {"down", "failed"}
    PROVE  Quiet
<1>1. list' = list /\ UNCHANGED <<outside, tab>>
  BY DEF ReloadDone, UnusedDone, Terminate, Boot, Hangup, memory, Die, GoTo
<1>2. at' = "failed" => MayFail
  BY DEF ReloadDone, UnusedDone, Terminate, Boot, Hangup, Die, GoTo, MayFail
<1>3. QED
  BY <1>1, <1>2, UpUnchanged DEF Quiet

LEMMA DieUp == ASSUME NEW p, Die(p) PROVE Up' = {} /\ tab' = NoInterfaces /\ at' = p
BY UpGone DEF Die, GoTo

(* A process that exits was told to. *)
Exited == at = "exit" => downs # 0

LEMMA OverPhases ==
    ASSUME IInv, Exited, ExitDone \/ Crash PROVE Over
<1>1. downs' # 0
  BY DEF Exited, ExitDone, Crash, bounds, IInv, Bounds
<1>2. Die("down") /\ UNCHANGED outside
  BY DEF ExitDone, Crash
<1>3. QED
  BY <1>1, <1>2, DieUp DEF Over

(* The other ways to end before the tasks have begun. *)
LEMMA OverFailed ==
    ASSUME Die("failed"), UNCHANGED outside, MayFail PROVE Over
BY DieUp DEF Over

LEMMA HangupFailsUp ==
    ASSUME NEW dir \in Directories, Hangup(dir), Die("failed") PROVE Over
<1>1. MayFail
  BY DEF Hangup, Die, GoTo, MayFail
<1>2. QED
  BY <1>1, OverFailed DEF Hangup

LEMMA PollingUp == ASSUME PollingFails PROVE Over
<1>1. MayFail
  BY DEF PollingFails, MayFail
<1>2. QED
  BY <1>1, OverFailed DEF PollingFails

LEMMA ReadDoneUp == ASSUME ReadDone PROVE Quiet \/ Over
<1>1. CASE at = "read" /\ ~plan.classdir
  <2>1. MayFail
    BY <1>1 DEF MayFail
  <2>2. QED
    BY <1>1, <2>1, OverFailed DEF ReadDone
<1>2. CASE ~(at = "read" /\ ~plan.classdir)
  <2>1. list' = list /\ UNCHANGED <<outside, tab>> /\ at' # "failed"
    BY <1>2 DEF ReadDone, GoTo, memory
  <2>2. QED
    BY <2>1, UpUnchanged DEF Quiet
<1>3. QED
  BY <1>1, <1>2

LEMMA RegisterFailsUp ==
    ASSUME IInv, ListOK, register_vserver, Die("failed") PROVE Over
<1> DEFINE c == files[k].config
           old == vserver_exists(c)
<1>1. k \in DOMAIN files /\ UNCHANGED outside /\ list \in Seq(Server)
  BY ListParts DEF register_vserver
<1>2. at # "failed" /\ at' = "failed"
  BY DEF register_vserver, Die, GoTo
<1>3. NameMissing(c) \/ NetMissing(c)
  BY <1>2 DEF register_vserver, Advance
<1>4. c \in plan.configs /\ \A i \in DOMAIN list : list[i].cfg \in plan.configs
  BY <1>1 DEF ListOK, FromPlan
<1> HIDE DEF c
<1>5. CASE NameMissing(c)
  BY <1>1, <1>4, <1>5, OverFailed DEF NameMissing, MayFail, Complete
<1>6. CASE NetMissing(c)
  <2>1. Min(old) \in DOMAIN list
    <3>1. old \subseteq DOMAIN list /\ old \subseteq Nat /\ old # {}
      BY <1>1, <1>6 DEF vserver_exists, NetMissing
    <3>2. QED
      BY <3>1, MinExists
  <2>2. NoNet \in {c.net, list[Min(old)].cfg.net}
    BY <1>6 DEF NetMissing
  <2> HIDE DEF old
  <2>3. ~Complete
    BY <1>4, <2>1, <2>2 DEF Complete
  <2>4. QED
    BY <1>1, <2>3, OverFailed DEF MayFail
<1>7. QED
  BY <1>3, <1>5, <1>6

LEMMA RegisterUp ==
    ASSUME IInv, ListOK, register_vserver, ~Die("failed") PROVE Quiet
<1> DEFINE c == files[k].config
           old == vserver_exists(c)
<1>1. /\ UNCHANGED <<outside, tab, at>> /\ list \in Seq(Server)
      /\ \/ list' = list
         \/ old # {} /\ list' = [list EXCEPT ![Min(old)] = Marked(@, c)]
         \/ list' = Append(list, NewServer(c))
  BY ListParts, Zenon DEF register_vserver, Advance, Registered
<1> HIDE DEF c
<1>2. CASE list' = list
  BY <1>1, <1>2, UpUnchanged DEF Quiet
<1>3. CASE old # {} /\ list' = [list EXCEPT ![Min(old)] = Marked(@, c)]
  <2>1. PICK i \in DOMAIN list : i = Min(old)
    <3>1. old \subseteq DOMAIN list /\ old \subseteq Nat
      BY <1>1 DEF vserver_exists
    <3>2. QED
      BY <1>3, <3>1, MinExists
  <2> HIDE DEF old
  <2>2. list[i] \in Server
    BY <1>1
  <2>3. /\ DOMAIN list' = DOMAIN list /\ list'[i] = Marked(list[i], c)
        /\ \A j \in DOMAIN list : j # i => list'[j] = list[j]
    BY <1>1, <1>3, <2>1
  <2>4. list'[i].map = list[i].map /\ Core(list'[i]) = Core(list[i])
    BY <2>2, <2>3 DEF Marked, Core, Server
  <2>5. QED
    BY <1>1, <2>3, <2>4, UpSame DEF Quiet
<1>4. CASE list' = Append(list, NewServer(c))
  <2>1. PICK n : n = Len(list) + 1
    OBVIOUS
  <2>2. /\ DOMAIN list' = DOMAIN list \cup {n}
        /\ \A i \in DOMAIN list : list'[i] = list[i]
        /\ list'[n] = NewServer(c) /\ n \notin DOMAIN list
    BY <1>1, <1>4, <2>1
  <2>3. ~list'[n].map
    BY <2>2 DEF NewServer
  <2>4. ASSUME NEW x PROVE x \in Up' <=> x \in Up
    <3>1. x \in Up' <=> \E j \in DOMAIN list' : list'[j].map /\ x = Core(list'[j])
      BY DEF Up
    <3>2. x \in Up <=> \E j \in DOMAIN list : list[j].map /\ x = Core(list[j])
      BY DEF Up
    <3>3. QED
      BY <2>2, <2>3, <3>1, <3>2
  <2>5. QED
    BY <1>1, <2>4 DEF Quiet
<1>5. QED
  BY <1>1, <1>2, <1>3, <1>4

LEMMA InitDoneUp == ASSUME IInv, ListOK, InitDone PROVE Quiet
<1>1. /\ list' = [i \in DOMAIN list |-> [list[i] EXCEPT !.flag = "DONE"]]
      /\ UNCHANGED <<outside, tab>> /\ at' = "serve"
  BY DEF InitDone, GoTo
<1>2. DOMAIN list' = DOMAIN list
  BY <1>1
<1>3. ASSUME NEW i \in DOMAIN list
      PROVE  list'[i].map = list[i].map /\ Core(list'[i]) = Core(list[i])
  <2>1. list[i] \in Server
    BY ListParts
  <2>2. QED
    BY <1>1, <2>1 DEF Core, Server
<1>4. QED
  BY <1>1, <1>2, <1>3, UpSame DEF Quiet

LEMMA ReloadUnmarkedUp == ASSUME IInv, ListOK, ReloadUnmarked PROVE Quiet
<1>1. PICK i \in DOMAIN list : i = k /\ list[i] \in Server
  BY AtElement DEF ReloadUnmarked
<1>2. /\ list' = [list EXCEPT ![i] = [list[i] EXCEPT !.flag = "NONE"]]
      /\ UNCHANGED <<outside, tab, at>>
  BY <1>1 DEF ReloadUnmarked, Replaced, Advance
<1>3. /\ DOMAIN list' = DOMAIN list
      /\ list'[i] = [list[i] EXCEPT !.flag = "NONE"]
      /\ \A j \in DOMAIN list : j # i => list'[j] = list[j]
  BY <1>2, ListParts
<1>4. list'[i].map = list[i].map /\ Core(list'[i]) = Core(list[i])
  BY <1>1, <1>3 DEF Core, Server
<1>5. QED
  BY <1>2, <1>3, <1>4, UpSame DEF Quiet

(* A server that is not in service begins.                                 *)
LEMMA TaskInitUp ==
    ASSUME IInv, ListOK, NEW i \in DOMAIN list, i = k, ~list[i].map,
           at \notin {"failed"}, NEW flag, rh_task_init(list[i], flag)
    PROVE  BeginFails(list[i].cfg) \/ \E on \in SUBSET Clients : Begins(list[i].cfg, on)
<1> DEFINE c == list[i].cfg
           f == InterfaceFor(c.dev)
<1>1. Fresh(c) /\ list[i] \in Server /\ c \in Config
  <2>1. c \in plan.configs
    BY DEF ListOK, FromPlan
  <2>2. ASSUME NEW u \in Up, u.cfg.name = c.name PROVE FALSE
    <3>1. PICK m \in DOMAIN list : list[m].map /\ u = Core(list[m])
      BY DEF Up
    <3>2. list[m].cfg.name = list[i].cfg.name
      BY <2>2, <3>1 DEF Core
    <3>3. QED
      BY <3>1, <3>2 DEF ListOK, NamesDiffer
  <2>3. QED
    BY <2>1, <2>2, ListParts, Element DEF Fresh
<1>2. CASE c.name = NoName
  <2>1. Die("failed") /\ UNCHANGED <<shaped, rows>>
    BY <1>2 DEF rh_task_init, outside
  <2>2. QED
    BY <1>1, <1>2, <2>1, DieUp DEF BeginFails
<1>3. CASE c.name # NoName
  <2>1. /\ Walled(c)
        /\ \/ /\ f # NoIfb
              /\ \E on \in Restored(Made(c), c.id) :
                   /\ Replaced(Began(list[i], flag, f, on))
                   /\ sets' = [sets EXCEPT ![c.name] = on \cap Inside(Made(c))]
                   /\ rows' = rows \cup ({c.id} \X on)
              /\ bandwidth_start(append_interface(tab, c.dev), f)
              /\ Advance
           \/ /\ f = NoIfb \/ Made(c) = NoNet \/ ~plan.reliable
              /\ UNCHANGED <<shaped, rows>>
              /\ Die("failed")
    BY <1>3 DEF rh_task_init, Began, InterfaceFor, Walled
  <2> HIDE DEF f
  <2>2. CASE Die("failed") /\ (f = NoIfb \/ Made(c) = NoNet \/ ~plan.reliable)
             /\ UNCHANGED <<shaped, rows>>
    BY <1>1, <2>1, <2>2, DieUp DEF BeginFails, f
  <2>3. ASSUME f # NoIfb, NEW on \in Restored(Made(c), c.id),
               Replaced(Began(list[i], flag, f, on)),
               sets' = [sets EXCEPT ![c.name] = on \cap Inside(Made(c))],
               rows' = rows \cup ({c.id} \X on),
               bandwidth_start(append_interface(tab, c.dev), f), Advance
        PROVE  on \in SUBSET Clients /\ Begins(c, on)
    <3>1. PICK e : e = Began(list[i], flag, f, on)
      OBVIOUS
    <3>2. e.map = TRUE /\ Core(e) = [cfg |-> c, iface |-> f, sess |-> on]
      BY <1>1, <3>1 DEF Began, Core, Server
    <3>3. list' = [list EXCEPT ![i] = e]
      BY <2>3, <3>1 DEF Replaced
    <3>4. Up' = Up \cup {Core(e)}
      BY <3>2, <3>3, UpChanged
    <3>5. at' # "failed"
      BY <2>3 DEF Advance
    <3>6. Made(c) \in Nets \cup {NoNet}
      BY <1>1, <1>3 DEF Made, IInv, Outside, Config
    <3>7. on \in SUBSET Clients
      BY <2>3, <3>6, RestoredType
    <3>8. Begins(c, on)
      BY <1>1, <1>3, <2>1, <2>3, <3>2, <3>4, <3>5 DEF Begins, f
    <3>9. QED
      BY <3>7, <3>8
  <2>4. QED
    BY <2>1, <2>2, <2>3
<1>4. QED
  BY <1>2, <1>3

Starting == \E c \in Config : BeginFails(c) \/ \E on \in SUBSET Clients : Begins(c, on)

LEMMA ReloadNewUp ==
    ASSUME IInv, ListOK, ReloadNew PROVE Starting
<1>1. PICK i \in DOMAIN list : i = k /\ at = "reload" /\ list[i].flag = "INIT"
  BY AtElement DEF ReloadNew, At
<1>2. ~list[i].map
  BY <1>1 DEF ListOK, Fits, Reloading
<1>3. BeginFails(list[i].cfg) \/ \E on \in SUBSET Clients : Begins(list[i].cfg, on)
  BY <1>1, <1>2, TaskInitUp DEF ReloadNew
<1>4. QED
  BY <1>3, Element DEF IInv, Memory, Starting

LEMMA InitOneUp ==
    ASSUME IInv, ListOK, InitOne PROVE Starting
<1>1. PICK i \in DOMAIN list : i = k /\ at = "init"
  BY AtElement DEF InitOne, At
<1>2. ~list[i].map /\ list[i].flag = "INIT"
  <2>1. Fits(i) /\ ~(i < i)
    BY <1>1, ListParts DEF ListOK
  <2>2. QED
    BY <1>1, <2>1 DEF Fits, Booting
<1>3. BeginFails(list[i].cfg) \/ \E on \in SUBSET Clients : Begins(list[i].cfg, on)
  BY <1>1, <1>2, TaskInitUp DEF InitOne
<1>4. QED
  BY <1>3, Element DEF IInv, Memory, Starting

(* A server found again with the same clients goes on, in its new settings. *)
LEMMA ReloadKeptUp ==
    ASSUME IInv, ListOK, ReloadKept
    PROVE  \E u \in Up, c \in Config : GoesOn(u, c) \/ GoOnFails(u, c)
<1>1. PICK i \in DOMAIN list :
          i = k /\ at = "reload" /\ list[i].flag = "RELOAD" /\ list[i] \in Server
  BY AtElement DEF ReloadKept, At
<1>2. list[i].map /\ Marks(list[i])
  BY <1>1 DEF ListOK, Fits, Reloading
<1> DEFINE u == Core(list[i])
           c == list[i].dummy
           f == get_interface(tab, c.dev)
<1>3. u \in Up /\ SameServer(c, u.cfg) /\ c \in Config
  <2>1. c \in plan.configs
    BY DEF ListOK, FromPlan
  <2>2. c \in Config
    BY Element DEF IInv, Memory
  <2>3. u \in Up
    BY <1>2 DEF Up
  <2>4. u.cfg = list[i].cfg
    BY DEF Core
  <2>5. QED
    BY <1>1, <1>2, <2>1, <2>2, <2>3, <2>4 DEF SameServer, Marks
<1>4. InitKept(Renewed(list[i]), "DONE")
  BY <1>1 DEF ReloadKept, Renewed
<1>5. Renewed(list[i]).cfg = c
  BY <1>1 DEF Renewed, Server
<1>6. /\ runfiles' = runfiles \cup {c.name} /\ UNCHANGED <<kernel, rows>>
      /\ \/ f = NoIfb /\ Die("failed") /\ UNCHANGED shaped
         \/ /\ f # NoIfb /\ Advance
            /\ Replaced(GoneOn(Renewed(list[i]), "DONE", f))
            /\ bandwidth_start(tab, f)
  BY <1>4, <1>5 DEF InitKept, GoneOn
<1> HIDE DEF f
<1>7. CASE f = NoIfb /\ Die("failed") /\ UNCHANGED shaped
  BY <1>3, <1>6, <1>7, DieUp DEF GoOnFails, f
<1>8. CASE f # NoIfb /\ Advance /\ Replaced(GoneOn(Renewed(list[i]), "DONE", f))
           /\ bandwidth_start(tab, f)
  <2>1. PICK e : e = GoneOn(Renewed(list[i]), "DONE", f)
    OBVIOUS
  <2>2. e.map = TRUE /\ Core(e) = [cfg |-> c, iface |-> f, sess |-> u.sess]
    <3>1. Renewed(list[i]).map = TRUE
      BY <1>1, <1>2 DEF Renewed, Server
    <3>2. QED
      BY <1>1, <2>1, <3>1 DEF GoneOn, Renewed, Core, Server
  <2>3. list' = [list EXCEPT ![i] = e]
    BY <1>1, <1>8, <2>1 DEF Replaced
  <2>4. Up' = (Up \ {u}) \cup {Core(e)}
    BY <1>2, <2>2, <2>3, UpChanged
  <2>5. at' # "failed"
    BY <1>1, <1>8 DEF Advance
  <2>6. GoesOn(u, c)
    BY <1>3, <1>6, <1>8, <2>2, <2>4, <2>5 DEF GoesOn, f
  <2>7. QED
    BY <1>3, <2>6
<1>9. QED
  BY <1>6, <1>7, <1>8

(* A server in service ends.                                               *)
LEMMA TaskCleanupUp ==
    ASSUME IInv, ListOK, NEW i \in DOMAIN list, list[i].map,
           NEW walked \in BOOLEAN, rh_task_cleanup(list[i], walked),
           Up' = Up \ {Core(list[i])}, at' # "failed"
    PROVE  \E u \in Up : Ends(u)
<1> DEFINE u == Core(list[i])
<1>1. u \in Up /\ u.cfg = list[i].cfg /\ u.iface = list[i].iface /\ u.sess = list[i].sess
  BY DEF Up, Core
<1>2. BandwidthCleanup(u)
  <2>1. BandwidthCleanup(list[i])
    BY DEF rh_task_cleanup
  <2>2. QED
    BY <1>1, <2>1 DEF BandwidthCleanup, ShapedAfter
<1>3. Leftover(u)
  BY <1>1 DEF rh_task_cleanup, Leftover
<1>4. Ends(u)
  BY <1>1, <1>2, <1>3 DEF Ends
<1>5. QED
  BY <1>1, <1>4

LEMMA CleanupFailsUp ==
    ASSUME IInv, ListOK, NEW i \in DOMAIN list, list[i].map, CleanupFails(list[i])
    PROVE  \E u \in Up : CutShort(u)
<1> DEFINE u == Core(list[i])
<1>1. u \in Up /\ u.cfg = list[i].cfg /\ u.sess = list[i].sess
  BY DEF Up, Core
<1>2. /\ ~plan.reliable \/ ~(list[i].sess \subseteq Inside(nets[list[i].cfg.name]))
      /\ Die("failed") /\ UNCHANGED <<kernel, runfiles, rows>>
  BY DEF CleanupFails
<1>3. CutShort(u)
  BY <1>1, <1>2, DieUp DEF CutShort
<1>4. QED
  BY <1>1, <1>3

Ending == \E u \in Up : Ends(u) \/ CutShort(u)

LEMMA ReloadResetUp ==
    ASSUME IInv, ListOK, ReloadReset PROVE Ending
<1>1. PICK i \in DOMAIN list :
          i = k /\ at = "reload" /\ list[i].flag = "RESET" /\ list[i] \in Server
  BY AtElement DEF ReloadReset, At
<1>2. list[i].map
  BY <1>1 DEF ListOK, Fits, Reloading
<1>3. CASE CleanupFails(list[i])
  BY <1>2, <1>3, CleanupFailsUp DEF Ending
<1>4. CASE ~CleanupFails(list[i])
  <2>1. PICK walked \in BOOLEAN : rh_task_cleanup(list[i], walked)
    BY <1>1, <1>4 DEF ReloadReset
  <2>2. PICK e : e = WasReset(list[i])
    OBVIOUS
  <2>3. list' = [list EXCEPT ![i] = e] /\ at' = at
    BY <1>1, <1>4, <2>2 DEF ReloadReset, Replaced, WasReset
  <2>4. e.map = FALSE
    BY <1>1, <2>2, WasResetParts
  <2>5. Up' = Up \ {Core(list[i])}
    BY <1>2, <2>3, <2>4, UpChanged
  <2>6. QED
    BY <1>1, <1>2, <2>1, <2>3, <2>5, TaskCleanupUp DEF Ending
<1>5. QED
  BY <1>3, <1>4

LEMMA ExitOneUp ==
    ASSUME IInv, ListOK, ExitOne PROVE Ending
<1>1. PICK i \in DOMAIN list : i = k /\ at = "exit" /\ list[i] \in Server
  BY AtElement DEF ExitOne, At
<1>2. list[i].map
  <2>1. Fits(i) /\ i >= k
    BY <1>1, ListParts DEF ListOK
  <2>2. QED
    BY <1>1, <2>1 DEF Fits
<1>3. CASE CleanupFails(list[i])
  BY <1>2, <1>3, CleanupFailsUp DEF Ending
<1>4. CASE ~CleanupFails(list[i])
  <2>1. PICK walked \in BOOLEAN : rh_task_cleanup(list[i], walked)
    BY <1>1, <1>4 DEF ExitOne
  <2>2. PICK e : e = Cleaned(list[i])
    OBVIOUS
  <2>3. list' = [list EXCEPT ![i] = e] /\ at' = at
    BY <1>1, <1>4, <2>2 DEF ExitOne, Replaced, Advance
  <2>4. e.map = FALSE
    BY <1>1, <2>2, CleanedParts
  <2>5. Up' = Up \ {Core(list[i])}
    BY <1>2, <2>3, <2>4, UpChanged
  <2>6. QED
    BY <1>1, <1>2, <2>1, <2>3, <2>5, TaskCleanupUp DEF Ending
<1>5. QED
  BY <1>3, <1>4

LEMMA CleanUnusedUp ==
    ASSUME IInv, Orderly, ListOK, CleanUnused PROVE Ending
<1>1. at = "unused" /\ Unused # {} /\ Unused \subseteq DOMAIN list
  BY DEF CleanUnused, Unused
<1>2. Min(Unused) \in Unused
  <2>1. Unused \subseteq Nat
    BY <1>1, ListParts
  <2>2. QED
    BY <1>1, <2>1, MinExists
<1>3. \A m \in Unused : list[m].map
  BY <1>1 DEF ListOK, Fits, Reloading, Unused
<1>4. CASE CleanupFails(list[Min(Unused)])
  BY <1>1, <1>2, <1>3, <1>4, CleanupFailsUp DEF Ending
<1>5. CASE ~CleanupFails(list[Min(Unused)])
  <2>1. at' = at
    BY <1>5 DEF CleanUnused
  <2>2. ~Die("failed")
    BY <1>1, <2>1 DEF Die, GoTo
  <2>3. PICK i \in DOMAIN list :
            /\ list[i].flag = "NONE" /\ Cut(i)
            /\ \E walked \in BOOLEAN : rh_task_cleanup(list[i], walked)
    BY <2>2, UnusedCut
  <2>4. list[i].map
    BY <1>3, <2>3 DEF Unused
  <2>5. Up' = Up \ {Core(list[i])}
    BY <2>3, <2>4, UpCut
  <2>6. QED
    BY <1>1, <2>1, <2>3, <2>4, <2>5, TaskCleanupUp DEF Ending
<1>6. QED
  BY <1>4, <1>5

LEMMA SessionUp ==
    ASSUME IInv, ListOK, NEW i \in DOMAIN list, list[i].map, NEW S,
           list' = [list EXCEPT ![i].sess = S],
           at' # "failed", UNCHANGED <<tab, nets, runfiles, shaped>>
    PROVE  HasNow(Core(list[i]), S)
<1>1. list[i] \in Server
  BY ListParts
<1>2. PICK e : e = [list[i] EXCEPT !.sess = S]
  OBVIOUS
<1>3. /\ e.map = list[i].map
      /\ Core(e) = [cfg |-> list[i].cfg, iface |-> list[i].iface, sess |-> S]
  BY <1>1, <1>2 DEF Core, Server
<1>4. Up' = (Up \ {Core(list[i])}) \cup {Core(e)}
  BY <1>2, <1>3, UpChanged
<1>5. Core(list[i]).cfg = list[i].cfg /\ Core(list[i]).iface = list[i].iface
  BY DEF Core
<1>6. Core(list[i]) \in Up
  BY DEF Up
<1>7. QED
  BY <1>3, <1>4, <1>5, <1>6 DEF HasNow

LEMMA LoginUp ==
    ASSUME IInv, ListOK, NEW id \in Numbers, NEW c \in Clients, Login(id, c)
    PROVE  \E u \in Up, m \in Clients : Joins(u, m)
<1>1. PICK i \in DOMAIN list :
          i = Min(vserver_get_by_id(id)) /\ list[i].cfg.id = id
  BY ServerOfNumber DEF Login
<1>2. list[i].map /\ at = "serve" /\ c \in plan.clients
  BY DEF Login, ListOK, Fits
<1> DEFINE n == list[i].cfg.name
<1>3. PICK m \in IF n \in exist THEN {Known(nets[n], c)} ELSE Clients :
        /\ UNCHANGED <<at, k, tab, nets, runfiles, shaped>>
        /\ list' = [list EXCEPT ![i].sess = list[i].sess \cup {m}]
        /\ rows' = rows \cup {<<id, m>>}
        /\ sets' = [sets EXCEPT ![n] = @ \cup ({m} \cap Inside(nets[n]))]
  BY <1>1, <1>2 DEF Login
<1> DEFINE u == Core(list[i])
<1>4. u.cfg = list[i].cfg /\ u.sess = list[i].sess /\ u \in Up
  BY <1>2 DEF Core, Up
<1>5. HasNow(u, list[i].sess \cup {m})
  BY <1>2, <1>3, SessionUp
<1>6. MemberFor(u, m)
  BY <1>2, <1>3, <1>4 DEF MemberFor
<1>7. Joins(u, m)
  BY <1>1, <1>3, <1>4, <1>5, <1>6 DEF Joins
<1>8. m \in Clients
  <2>1. n \in exist => nets[n] \in Nets
    BY DEF exist, IInv, Outside
  <2>2. QED
    BY <1>3, <2>1, KnownType
<1>9. QED
  BY <1>4, <1>7, <1>8

LEMMA StopUp ==
    ASSUME IInv, ListOK, NEW i \in DOMAIN list, NEW c \in Clients, Stop(i, c)
    PROVE  \E u \in Up : Leaves(u, c)
<1>1. /\ UNCHANGED <<at, k, tab, nets, runfiles, shaped>>
      /\ list' = [list EXCEPT ![i].sess = list[i].sess \ {c}]
      /\ rows' \in RowsLeft(list[i].cfg, {c})
      /\ sets' = [sets EXCEPT ![list[i].cfg.name] = @ \ {c}]
      /\ c \in list[i].sess /\ at # "failed"
  BY DEF Stop, Reloading
<1>2. list[i].map
  BY <1>1 DEF ListOK, Marks
<1> DEFINE u == Core(list[i])
<1>3. u.cfg = list[i].cfg /\ u.sess = list[i].sess /\ u \in Up
  BY <1>2 DEF Core, Up
<1>4. HasNow(u, list[i].sess \ {c})
  BY <1>1, <1>2, SessionUp
<1>5. Leaves(u, c)
  BY <1>1, <1>3, <1>4 DEF Leaves
<1>6. QED
  BY <1>3, <1>5

LEMMA UpSteps ==
    ASSUME IInv, Orderly, ListOK, Exited, [Next]_vars PROVE UpStep
<1>1. CASE register_vserver
  BY <1>1, RegisterUp, RegisterFailsUp DEF UpStep
<1>2. CASE ReadDone \/ ReloadUnmarked \/ ReloadNew \/ ReloadKept
  BY <1>2, ReadDoneUp, ReloadUnmarkedUp, ReloadNewUp, ReloadKeptUp DEF UpStep, Starting
<1>3. CASE ReloadReset \/ CleanUnused \/ ExitOne
  BY <1>3, ReloadResetUp, CleanUnusedUp, ExitOneUp DEF UpStep, Ending
<1>4. CASE ReloadDone \/ UnusedDone \/ Terminate
  <2>1. ~Die("failed")
    BY <1>4 DEF ReloadDone, UnusedDone, Terminate, Die, GoTo
  <2>2. QED
    BY <1>4, <2>1, QuietPhases DEF UpStep
<1>5. CASE InitOne \/ InitDone \/ ExitDone \/ Crash \/ PollingFails
  BY <1>5, InitOneUp, InitDoneUp, OverPhases, PollingUp DEF UpStep, Starting
<1>6. ASSUME NEW dir \in Directories, Boot(dir) \/ Hangup(dir) PROVE UpStep
  <2>1. CASE Hangup(dir) /\ Die("failed")
    BY <2>1, HangupFailsUp DEF UpStep
  <2>2. CASE ~(Hangup(dir) /\ Die("failed"))
    <3>1. ~Die("failed") \/ at \in {"down", "failed"}
      BY <1>6, <2>2 DEF Boot
    <3>2. QED
      BY <1>6, <3>1, QuietPhases DEF UpStep
  <2>3. QED
    BY <2>1, <2>2
<1>7. CASE \E id \in Numbers, c \in Clients : Login(id, c)
  BY <1>7, LoginUp DEF UpStep
<1>8. CASE \E i \in DOMAIN list, c \in Clients : Stop(i, c)
  BY <1>8, StopUp DEF UpStep
<1>9. CASE UNCHANGED vars
  <2>1. list' = list /\ UNCHANGED <<outside, tab>> /\ at' = at
    BY <1>9 DEF vars, outside, kernel
  <2>2. QED
    BY <2>1, UpUnchanged DEF Quiet, UpStep
<1>10. QED
  BY <1>1, <1>2, <1>3, <1>4, <1>5, <1>6, <1>7, <1>8, <1>9 DEF Next, Daemon

(* What every step keeps besides. *)
LEMMA ExitedStep == ASSUME IInv, Exited, [Next]_vars PROVE Exited'
<1>1. downs' = downs \/ downs' = downs + 1
  BY DEF Next, vars, Daemon, register_vserver, ReadDone, ReloadUnmarked, ReloadNew,
       ReloadKept, ReloadReset, ReloadDone, CleanUnused, UnusedDone, InitOne,
       InitDone, ExitOne, ExitDone, Boot, Hangup, Terminate, Crash, PollingFails,
       Login, Stop, bounds
<1>2. downs \in Nat
  BY VServersAssumption DEF IInv, Bounds
<1>3. at' = "exit" => at = "exit" \/ downs' = downs + 1
  <2>1. CASE at' = at \/ downs' = downs + 1
    BY <2>1
  <2>2. \A p : at = p /\ Advance => at' = at
    BY DEF Advance
  <2>3. ~(Daemon /\ at' = "exit" /\ at' # at)
    BY DEF Daemon, register_vserver, ReadDone, ReloadUnmarked, ReloadNew,
       ReloadKept, ReloadReset, ReloadDone, CleanUnused, UnusedDone, InitOne,
       InitDone, ExitOne, ExitDone, Advance, Die, GoTo, rh_task_init, InitKept,
       CleanupFails
  <2>4. QED
    BY <2>1, <2>3 DEF Next, vars, Boot, Hangup, Terminate, Crash, PollingFails, Login,
       Stop, Die, GoTo
<1>4. QED
  BY <1>1, <1>2, <1>3 DEF Exited

LEMMA ExitedInvariant == Spec => []Exited
<1>1. Init => Exited
  BY DEF Init, Exited
<1>2. IInv /\ Exited /\ [Next]_vars => Exited'
  BY ExitedStep
<1>3. QED
  BY <1>1, <1>2, Invariant, PTL DEF Spec

LEMMA ReasonSame == ASSUME plan' = plan PROVE MayFail' = MayFail
BY DEF MayFail, NumbersKept, DevsKept, DevsDiffer, Complete

-----------------------------------------------------------------------------
(* The three places that know a session: the server, its set and dbset.    *)

InPlaces(u) ==
    /\ u.cfg.name \in exist
    /\ sets[u.cfg.name] = u.sess \cap Inside(nets[u.cfg.name])
    /\ plan.reliable => RowsOf(u.cfg.id) = u.sess

(* The rows of a number are of addresses the set's network makes members   *)
(* of, and there are none where there is no set.                           *)
RowsFit(c) ==
    IF c.name \in exist THEN RowsOf(c.id) \subseteq Fit(nets[c.name])
    ELSE RowsOf(c.id) = {}

PlannedNet(net) == \E c \in plan.configs : c.net = net

(* With nothing to go wrong, only those who log in have rows, and only     *)
(* networks of a file are those of a set.                                  *)
RowsPlanned ==
    /\ \A c \in plan.configs : RowsOf(c.id) \subseteq plan.clients
    /\ \A n \in exist : PlannedNet(nets[n])

Placed ==
    /\ runfiles = exist
    /\ \A u \in Up : InPlaces(u)
    /\ plan.reliable => \A c \in plan.configs : RowsFit(c)
    /\ ~MayFail => RowsPlanned

Whole3 == Orderly /\ Complete
PlacedInv == Whole3 => Placed

(* What does not concern a server leaves it in its places.                 *)
LEMMA OthersInPlaces ==
    ASSUME plan' = plan, NEW v, InPlaces(v), v.cfg.name \in exist',
           sets'[v.cfg.name] = sets[v.cfg.name],
           nets'[v.cfg.name] = nets[v.cfg.name],
           \A r : r[1] = v.cfg.id => (r \in rows' <=> r \in rows)
    PROVE  InPlaces(v)'
<1>1. RowsOf(v.cfg.id)' = RowsOf(v.cfg.id)
  BY DEF RowsOf
<1>2. QED
  BY <1>1 DEF InPlaces

LEMMA OthersFit ==
    ASSUME plan' = plan, NEW c, RowsFit(c), c.name \in exist' <=> c.name \in exist,
           nets'[c.name] = nets[c.name],
           \A r : r[1] = c.id => (r \in rows' <=> r \in rows)
    PROVE  RowsFit(c)'
<1>1. RowsOf(c.id)' = RowsOf(c.id)
  BY DEF RowsOf
<1>2. QED
  BY <1>1 DEF RowsFit

LEMMA FitKnown ==
    ASSUME NEW net \in Nets, NEW c \in Clients
    PROVE  Known(net, c) \in Fit(net)
<1>1. Before[net] \notin Covers[net] /\ Before[net] \in Clients /\ net # NoNet
  BY VServersAssumption
<1>2. QED
  BY <1>1 DEF Known, Fit, Inside

LEMMA RestoredFit ==
    ASSUME NEW net \in Nets, NEW id, RowsOf(id) \subseteq Fit(net),
           NEW on \in Restored(net, id)
    PROVE  on = RowsOf(id)
<1>1. on = {Known(net, c) : c \in RowsOf(id)}
  BY VServersAssumption DEF Restored
<1>2. \A c \in RowsOf(id) : Known(net, c) = c
  BY DEF Fit
<1>3. QED
  BY <1>1, <1>2

LEMMA RowsLeftFit ==
    ASSUME NEW cfg, NEW gone, plan.reliable,
           RowsOf(cfg.id) \subseteq Fit(nets[cfg.name]), NEW r \in RowsLeft(cfg, gone)
    PROVE  r = rows \ ({cfg.id} \X gone)
BY DEF RowsLeft

LEMMA RowsLeftOthers ==
    ASSUME NEW cfg, NEW gone, NEW r \in RowsLeft(cfg, gone)
    PROVE  r \subseteq rows /\ \A x \in rows : x[1] # cfg.id => x \in r
<1>1. \E a : r = rows \ ({cfg.id} \X a)
  BY Zenon DEF RowsLeft
<1>2. QED
  BY <1>1

(* The firewall part of a start, where run files and sets go together.     *)
LEMMA WalledNets ==
    ASSUME IInv, Complete, NEW c \in plan.configs, c \in Config, runfiles = exist,
           Walled(c)
    PROVE  /\ c.name \in Names /\ exist' = exist \cup {c.name} /\ runfiles' = exist'
           /\ \A n \in Names : n # c.name => nets'[n] = nets[n]
           /\ nets'[c.name] = Made(c) /\ Made(c) \in Nets
           /\ Made(c) = IF c.name \in exist THEN nets[c.name] ELSE c.net
<1>1. /\ c.name \in Names /\ c.net \in Nets
  BY DEF Complete, Config
<1>2. Made(c) = IF c.name \in exist THEN nets[c.name] ELSE c.net
  BY DEF Made
<1>3. Made(c) \in Nets /\ NoNet \notin Nets
  BY <1>1, <1>2, VServersAssumption DEF exist, IInv, Outside
<1>4. /\ nets' = [nets EXCEPT ![c.name] = Made(c)] /\ runfiles' = runfiles \cup {c.name}
      /\ nets \in [Names -> Nets \cup {NoNet}]
  BY DEF Walled, IInv, Outside
<1>5. /\ nets'[c.name] = Made(c)
      /\ \A n \in Names : n # c.name => nets'[n] = nets[n]
  BY <1>1, <1>4
<1>6. exist' = exist \cup {c.name}
  BY <1>1, <1>3, <1>5 DEF exist
<1>7. QED
  BY <1>1, <1>2, <1>3, <1>4, <1>5, <1>6

LEMMA WalledPlanned ==
    ASSUME IInv, Complete, NEW c \in plan.configs, c \in Config, runfiles = exist,
           Walled(c), plan' = plan, \A n \in exist : PlannedNet(nets[n]),
           NEW n \in exist'
    PROVE  PlannedNet(nets[n])'
<1>1. exist \subseteq Names /\ exist' \subseteq Names
  BY DEF exist
<1>2. (nets'[n] = nets[n] /\ n \in exist) \/ nets'[n] = c.net
  BY <1>1, WalledNets
<1>3. QED
  BY <1>2 DEF PlannedNet

LEMMA QuietPlaced ==
    ASSUME plan' = plan, Placed, Quiet \/ Over \/ \E u \in Up : CutShort(u) PROVE Placed'
<1>1. UNCHANGED <<kernel, runfiles, rows>> /\ Up' \subseteq Up
  BY DEF Quiet, Over, CutShort, outside
<1>2. /\ UNCHANGED <<nets, sets, runfiles, rows>> /\ exist' = exist
      /\ \A id : RowsOf(id)' = RowsOf(id)
  BY <1>1 DEF kernel, exist, RowsOf
<1>3. MayFail' = MayFail
  BY ReasonSame
<1>4. \A c : RowsFit(c)' = RowsFit(c) /\ InPlaces(c)' = InPlaces(c)
  BY <1>2 DEF RowsFit, InPlaces
<1>5. RowsPlanned' = RowsPlanned
  BY <1>2 DEF RowsPlanned, PlannedNet
<1>6. QED
  BY <1>1, <1>2, <1>3, <1>4, <1>5 DEF Placed

(* The plan's configurations are configurations. *)
LEMMA PlanConfig ==
    ASSUME IInv, NEW c \in plan.configs
    PROVE  c \in Config /\ c.name \in Names \cup {NoName}
BY VServersAssumption DEF IInv, Bounds, Plan, Config

LEMMA BeginFailsPlaced ==
    ASSUME plan' = plan, IInv, Whole3, ListOK, Placed, NEW c \in Config, BeginFails(c)
    PROVE  Placed'
<1>1. /\ c \in plan.configs /\ Up' = {} /\ rows' = rows /\ Walled(c) /\ runfiles = exist
  BY DEF BeginFails, Fresh, Whole3, Complete, Placed
<1>2. /\ c.name \in Names /\ exist' = exist \cup {c.name} /\ runfiles' = exist'
      /\ \A n \in Names : n # c.name => nets'[n] = nets[n]
      /\ c.name \in exist => nets'[c.name] = nets[c.name]
  BY <1>1, WalledNets DEF Whole3
<1>3. \A id : RowsOf(id)' = RowsOf(id)
  BY <1>1 DEF RowsOf
<1>4. ASSUME plan.reliable, NEW d \in plan.configs PROVE RowsFit(d)'
  <2>1. RowsFit(d) /\ d.name \in Names
    BY <1>4, PlanConfig DEF Placed, Whole3, Complete
  <2>2. d.name \in exist => nets'[d.name] = nets[d.name]
    BY <1>2, <2>1
  <2>3. QED
    BY <1>2, <1>3, <2>1, <2>2 DEF RowsFit
<1>5. ASSUME ~MayFail PROVE RowsPlanned'
  <2>1. RowsPlanned
    BY <1>5 DEF Placed
  <2>2. QED
    BY <1>1, <1>3, <2>1, WalledPlanned DEF RowsPlanned, Whole3
<1>6. QED
  BY <1>1, <1>2, <1>4, <1>5, ReasonSame DEF Placed

LEMMA BeginsPlaced ==
    ASSUME plan' = plan, IInv, Whole3, ListOK, Placed, NEW c \in Config,
           NEW on \in SUBSET Clients, Begins(c, on)
    PROVE  Placed'
<1>1. PICK new : new = [cfg |-> c, iface |-> InterfaceFor(c.dev), sess |-> on]
  OBVIOUS
<1>2. /\ c \in plan.configs /\ \A v \in Up : v.cfg.name # c.name
      /\ Up' = Up \cup {new} /\ Walled(c)
      /\ sets' = [sets EXCEPT ![c.name] = on \cap Inside(Made(c))]
      /\ rows' = rows \cup ({c.id} \X on) /\ on \in Restored(Made(c), c.id)
      /\ runfiles = exist
  BY <1>1 DEF Begins, Fresh, Placed
<1>3. /\ c.name \in Names /\ exist' = exist \cup {c.name} /\ runfiles' = exist'
      /\ \A n \in Names : n # c.name => nets'[n] = nets[n]
      /\ nets'[c.name] = Made(c) /\ Made(c) \in Nets
      /\ Made(c) = IF c.name \in exist THEN nets[c.name] ELSE c.net
  BY <1>2, WalledNets DEF Whole3
<1>4. /\ sets'[c.name] = on \cap Inside(Made(c))
      /\ \A n \in Names : n # c.name => sets'[n] = sets[n]
  BY <1>2, <1>3 DEF IInv, Outside
<1>5. new.cfg = c /\ new.sess = on
  BY <1>1
<1>6. ASSUME plan.reliable
      PROVE  on = RowsOf(c.id) /\ rows' = rows /\ RowsOf(c.id) \subseteq Fit(Made(c))
  <2>1. RowsFit(c)
    BY <1>2, <1>6 DEF Placed
  <2>2. RowsOf(c.id) \subseteq Fit(Made(c))
    BY <1>3, <2>1 DEF RowsFit
  <2>3. on = RowsOf(c.id)
    BY <1>2, <1>3, <2>2, RestoredFit
  <2>4. {c.id} \X on \subseteq rows
    BY <2>3 DEF RowsOf
  <2>5. QED
    BY <1>2, <2>2, <2>3, <2>4
<1>7. InPlaces(new)'
  <2>1. c.name \in exist' /\ sets'[c.name] = on \cap Inside(nets'[c.name])
    BY <1>3, <1>4
  <2>2. plan.reliable => RowsOf(c.id)' = on
    BY <1>6 DEF RowsOf
  <2>3. QED
    BY <1>5, <2>1, <2>2 DEF InPlaces, Inside
<1>8. ASSUME NEW v \in Up PROVE InPlaces(v)'
  <2>1. v.cfg.name # c.name /\ InPlaces(v) /\ v.cfg \in plan.configs
    BY <1>2, UpParts DEF Placed, Whole3
  <2>2. v.cfg.id # c.id /\ v.cfg.name \in Names
    BY <1>2, <2>1, PlanConfig DEF Whole3, Orderly, NumbersKept, InPlaces, exist
  <2>3. \A r : r[1] = v.cfg.id => (r \in rows' <=> r \in rows)
    BY <1>2, <2>2
  <2>4. v.cfg.name \in exist'
    BY <1>3, <2>1 DEF InPlaces
  <2>5. QED
    BY <1>3, <1>4, <2>1, <2>2, <2>3, <2>4, OthersInPlaces
<1>9. ASSUME plan.reliable, NEW d \in plan.configs PROVE RowsFit(d)'
  <2>1. RowsFit(d) /\ d.name \in Names
    BY <1>9, PlanConfig DEF Placed, Whole3, Complete
  <2>2. RowsOf(d.id)' = RowsOf(d.id)
    BY <1>6, <1>9 DEF RowsOf
  <2>3. CASE d.name = c.name
    <3>1. d.id = c.id
      BY <1>2, <2>3 DEF Whole3, Orderly, NumbersKept
    <3>2. QED
      BY <1>3, <1>6, <1>9, <2>2, <2>3, <3>1 DEF RowsFit, Fit, Known, Inside
  <2>4. CASE d.name # c.name
    BY <1>3, <2>1, <2>2, <2>4 DEF RowsFit, Fit, Known, Inside
  <2>5. QED
    BY <2>3, <2>4
<1>10. ASSUME ~MayFail PROVE RowsPlanned'
  <2>1. RowsPlanned /\ plan.reliable
    BY <1>10 DEF Placed, MayFail
  <2>2. \A id : RowsOf(id)' = RowsOf(id)
    BY <1>6, <2>1 DEF RowsOf
  <2>3. QED
    BY <1>2, <2>1, <2>2, WalledPlanned DEF RowsPlanned, Whole3
<1>11. QED
  BY <1>2, <1>3, <1>5, <1>7, <1>8, <1>9, <1>10, ReasonSame DEF Placed

LEMMA GoesOnPlaced ==
    ASSUME plan' = plan, IInv, Whole3, ListOK, Placed, NEW u \in Up, NEW c \in Config,
           GoesOn(u, c) \/ GoOnFails(u, c)
    PROVE  Placed'
<1> DEFINE new == [cfg |-> c, iface |-> get_interface(tab, c.dev), sess |-> u.sess]
<1>1. /\ SameServer(c, u.cfg) /\ Up' \subseteq Up \cup {new}
      /\ runfiles' = runfiles \cup {c.name} /\ UNCHANGED <<kernel, rows>>
  BY DEF GoesOn, GoOnFails
<1>2. InPlaces(u) /\ u.cfg \in plan.configs
  BY UpParts DEF Placed, Whole3
<1>3. c.name = u.cfg.name /\ c.id = u.cfg.id
  BY <1>1, <1>2 DEF SameServer, Whole3, Orderly, NumbersKept
<1>4. /\ UNCHANGED <<nets, sets>> /\ exist' = exist
      /\ \A id : RowsOf(id)' = RowsOf(id)
  BY <1>1 DEF kernel, exist, RowsOf
<1>5. runfiles' = exist'
  BY <1>1, <1>2, <1>3, <1>4 DEF Placed, InPlaces
<1>6. \A v : RowsFit(v)' = RowsFit(v) /\ InPlaces(v)' = InPlaces(v)
  BY <1>4 DEF RowsFit, InPlaces
<1>7. RowsPlanned' = RowsPlanned /\ MayFail' = MayFail
  BY <1>4, ReasonSame DEF RowsPlanned, PlannedNet
<1>8. InPlaces(new)
  BY <1>2, <1>3 DEF InPlaces
<1>9. QED
  BY <1>1, <1>5, <1>6, <1>7, <1>8 DEF Placed

LEMMA EndsPlaced ==
    ASSUME plan' = plan, IInv, Whole3, ListOK, Placed, NEW u \in Up, Ends(u)
    PROVE  Placed'
<1>1. /\ Up' = Up \ {u} /\ Leftover(u) /\ InPlaces(u) /\ runfiles = exist
      /\ u.cfg.name \in Names /\ u.cfg \in plan.configs
  BY UpParts DEF Ends, Placed, InPlaces, exist, Whole3
<1>2. /\ nets' = [nets EXCEPT ![u.cfg.name] = NoNet]
      /\ sets' = [sets EXCEPT ![u.cfg.name] = {}]
      /\ runfiles' = runfiles \ {u.cfg.name}
      /\ nets \in [Names -> Nets \cup {NoNet}] /\ sets \in [Names -> SUBSET Clients]
  BY <1>1 DEF Leftover, InPlaces, IInv, Outside
<1>3. \A n \in Names : n # u.cfg.name => nets'[n] = nets[n] /\ sets'[n] = sets[n]
  BY <1>2
<1>4. exist' = exist \ {u.cfg.name} /\ runfiles' = exist'
  BY <1>1, <1>2, <1>3 DEF exist
<1>5. rows' \subseteq rows /\ \A r \in rows : r[1] # u.cfg.id => r \in rows'
  <2>1. rows' \in RowsLeft(u.cfg, u.sess) \/ rows' = rows
    BY <1>1 DEF Leftover
  <2>2. QED
    BY <2>1, RowsLeftOthers
<1>6. ASSUME plan.reliable PROVE RowsOf(u.cfg.id)' = {}
  <2>1. rows' \in RowsLeft(u.cfg, u.sess)
    BY <1>1, <1>6 DEF Leftover, InPlaces
  <2>2. RowsOf(u.cfg.id) \subseteq Fit(nets[u.cfg.name])
    BY <1>1, <1>6 DEF Placed, RowsFit, InPlaces
  <2>3. rows' = rows \ ({u.cfg.id} \X u.sess)
    BY <1>6, <2>1, <2>2, RowsLeftFit
  <2>4. RowsOf(u.cfg.id) = u.sess
    BY <1>1, <1>6 DEF InPlaces
  <2>5. QED
    BY <2>3, <2>4 DEF RowsOf
<1>7. ASSUME NEW v \in Up, v # u PROVE InPlaces(v)'
  <2>1. v.cfg.name # u.cfg.name /\ v.cfg.id # u.cfg.id /\ InPlaces(v)
    BY <1>7, UpParts DEF Placed, Whole3
  <2>2. v.cfg.name \in Names /\ v.cfg.name \in exist'
    BY <1>4, <2>1 DEF InPlaces, exist
  <2>3. \A r : r[1] = v.cfg.id => (r \in rows' <=> r \in rows)
    BY <1>5, <2>1
  <2>4. QED
    BY <1>3, <2>1, <2>2, <2>3, OthersInPlaces
<1>8. ASSUME plan.reliable, NEW d \in plan.configs PROVE RowsFit(d)'
  <2>1. RowsFit(d) /\ d.name \in Names
    BY <1>8, PlanConfig DEF Placed, Whole3, Complete
  <2>2. CASE d.name = u.cfg.name
    <3>1. d.id = u.cfg.id
      BY <1>1, <2>2 DEF Whole3, Orderly, NumbersKept
    <3>2. QED
      BY <1>4, <1>6, <1>8, <2>2, <3>1 DEF RowsFit
  <2>3. CASE d.name # u.cfg.name
    <3>1. d.id # u.cfg.id
      BY <1>1, <2>3 DEF Whole3, Orderly, NumbersKept
    <3>2. \A r : r[1] = d.id => (r \in rows' <=> r \in rows)
      BY <1>5, <3>1
    <3>3. QED
      BY <1>3, <1>4, <2>1, <2>3, <3>2, OthersFit
  <2>4. QED
    BY <2>2, <2>3
<1>9. ASSUME ~MayFail PROVE RowsPlanned'
  <2>1. RowsPlanned
    BY <1>9 DEF Placed
  <2>2. \A id : RowsOf(id)' \subseteq RowsOf(id)
    BY <1>5 DEF RowsOf
  <2>3. \A n \in exist' : n \in exist /\ nets'[n] = nets[n]
    BY <1>3, <1>4 DEF exist
  <2>4. QED
    BY <2>1, <2>2, <2>3 DEF RowsPlanned, PlannedNet
<1>10. QED
  BY <1>1, <1>4, <1>7, <1>8, <1>9, ReasonSame DEF Placed

LEMMA HasNowPlaced ==
    ASSUME plan' = plan, IInv, Whole3, ListOK, Placed, NEW u \in Up, NEW S,
           HasNow(u, S), sets'[u.cfg.name] = S \cap Inside(nets[u.cfg.name]),
           plan.reliable => RowsOf(u.cfg.id)' = S /\ S \subseteq Fit(nets[u.cfg.name]),
           ~MayFail => S \subseteq plan.clients,
           \A m \in Names : m # u.cfg.name => sets'[m] = sets[m],
           \A r : r[1] # u.cfg.id => (r \in rows' <=> r \in rows)
    PROVE  Placed'
<1> DEFINE new == [cfg |-> u.cfg, iface |-> u.iface, sess |-> S]
<1>1. /\ Up' = (Up \ {u}) \cup {new} /\ UNCHANGED <<nets, runfiles>> /\ exist' = exist
      /\ InPlaces(u) /\ u.cfg \in plan.configs
  BY UpParts DEF HasNow, exist, Placed, Whole3
<1>2. InPlaces(new)'
  BY <1>1 DEF InPlaces
<1>3. ASSUME NEW v \in Up, v # u PROVE InPlaces(v)'
  <2>1. v.cfg.name # u.cfg.name /\ v.cfg.id # u.cfg.id /\ InPlaces(v)
    BY <1>3, UpParts DEF Placed, Whole3
  <2>2. v.cfg.name \in Names /\ v.cfg.name \in exist'
    BY <1>1, <2>1 DEF InPlaces, exist
  <2>3. QED
    BY <1>1, <2>1, <2>2, OthersInPlaces
<1>4. \A d \in plan.configs : d.name = u.cfg.name <=> d.id = u.cfg.id
  BY <1>1 DEF Whole3, Orderly, NumbersKept
<1>5. ASSUME plan.reliable, NEW d \in plan.configs PROVE RowsFit(d)'
  <2>1. RowsFit(d)
    BY <1>5 DEF Placed
  <2>2. CASE d.name = u.cfg.name
    BY <1>1, <1>4, <1>5, <2>2 DEF RowsFit, InPlaces
  <2>3. CASE d.name # u.cfg.name
    BY <1>1, <1>4, <2>1, <2>3, OthersFit
  <2>4. QED
    BY <2>2, <2>3
<1>6. ASSUME ~MayFail PROVE RowsPlanned'
  <2>1. RowsPlanned /\ plan.reliable
    BY <1>6 DEF Placed, MayFail
  <2>2. ASSUME NEW d \in plan.configs PROVE RowsOf(d.id)' \subseteq plan.clients
    <3>1. CASE d.id = u.cfg.id
      BY <1>6, <2>1, <3>1
    <3>2. CASE d.id # u.cfg.id
      <4>1. RowsOf(d.id)' = RowsOf(d.id)
        BY <3>2 DEF RowsOf
      <4>2. QED
        BY <2>1, <4>1 DEF RowsPlanned
    <3>3. QED
      BY <3>1, <3>2
  <2>3. QED
    BY <1>1, <2>1, <2>2 DEF RowsPlanned, PlannedNet
<1>7. QED
  BY <1>1, <1>2, <1>3, <1>5, <1>6, ReasonSame DEF Placed

(* With nothing to go wrong, sessions are of those who log in, and these   *)
(* are inside of the network.                                              *)
LEMMA SessionsInside ==
    ASSUME Placed, ~MayFail, NEW u \in Up, u.cfg \in plan.configs
    PROVE  /\ u.sess \subseteq plan.clients
           /\ plan.clients \subseteq Inside(nets[u.cfg.name])
<1>1. RowsPlanned /\ plan.reliable /\ InPlaces(u)
  BY DEF Placed, MayFail
<1>2. u.sess \subseteq plan.clients
  BY <1>1 DEF InPlaces, RowsPlanned
<1>3. PICK c \in plan.configs : c.net = nets[u.cfg.name]
  BY <1>1 DEF InPlaces, RowsPlanned, PlannedNet
<1>4. plan.clients \subseteq Inside(c.net)
  BY DEF MayFail
<1>5. QED
  BY <1>2, <1>3, <1>4

LEMMA JoinsPlaced ==
    ASSUME plan' = plan, IInv, Whole3, ListOK, Placed, NEW u \in Up,
           NEW m \in Clients, Joins(u, m)
    PROVE  Placed'
<1>1. /\ HasNow(u, u.sess \cup {m}) /\ rows' = rows \cup {<<u.cfg.id, m>>}
      /\ sets' = [sets EXCEPT ![u.cfg.name] =
                     @ \cup ({m} \cap Inside(nets[u.cfg.name]))]
      /\ InPlaces(u) /\ u.cfg.name \in Names /\ u.cfg \in plan.configs
      /\ \E c \in plan.clients : m = Known(nets[u.cfg.name], c)
  BY UpParts DEF Joins, Placed, InPlaces, exist, Whole3, MemberFor
<1>2. PICK c \in plan.clients : m = Known(nets[u.cfg.name], c)
  BY <1>1
<1>3. RowsOf(u.cfg.id)' = RowsOf(u.cfg.id) \cup {m}
  BY <1>1 DEF RowsOf
<1>4. /\ sets'[u.cfg.name] = (u.sess \cup {m}) \cap Inside(nets[u.cfg.name])
      /\ \A n \in Names : n # u.cfg.name => sets'[n] = sets[n]
  <2>1. /\ sets'[u.cfg.name] = sets[u.cfg.name] \cup ({m} \cap Inside(nets[u.cfg.name]))
        /\ \A n \in Names : n # u.cfg.name => sets'[n] = sets[n]
    BY <1>1 DEF IInv, Outside
  <2>2. QED
    BY <1>1, <2>1 DEF InPlaces
<1>5. ASSUME plan.reliable
      PROVE  /\ RowsOf(u.cfg.id)' = u.sess \cup {m}
             /\ u.sess \cup {m} \subseteq Fit(nets[u.cfg.name])
  <2>1. RowsOf(u.cfg.id) = u.sess /\ RowsFit(u.cfg)
    BY <1>1, <1>5 DEF InPlaces, Placed
  <2>2. nets[u.cfg.name] \in Nets
    BY <1>1 DEF InPlaces, exist, IInv, Outside
  <2>3. c \in Clients
    BY <1>2, VServersAssumption DEF IInv, Bounds, Plan
  <2>4. QED
    BY <1>1, <1>2, <1>3, <2>1, <2>2, <2>3, FitKnown DEF RowsFit, InPlaces
<1>6. ASSUME ~MayFail PROVE u.sess \cup {m} \subseteq plan.clients
  <2>1. u.sess \subseteq plan.clients /\ c \in Inside(nets[u.cfg.name])
    BY <1>1, <1>6, SessionsInside
  <2>2. m = c
    BY <1>2, <2>1 DEF Known
  <2>3. QED
    BY <2>1, <2>2
<1>7. \A r : r[1] # u.cfg.id => (r \in rows' <=> r \in rows)
  BY <1>1
<1>8. QED
  BY <1>1, <1>4, <1>5, <1>6, <1>7, HasNowPlaced

LEMMA LeavesPlaced ==
    ASSUME plan' = plan, IInv, Whole3, ListOK, Placed, NEW u \in Up,
           NEW c \in Clients, Leaves(u, c)
    PROVE  Placed'
<1>1. /\ HasNow(u, u.sess \ {c}) /\ rows' \in RowsLeft(u.cfg, {c})
      /\ sets' = [sets EXCEPT ![u.cfg.name] = @ \ {c}]
      /\ InPlaces(u) /\ u.cfg.name \in Names /\ u.cfg \in plan.configs
  BY UpParts DEF Leaves, Placed, InPlaces, exist, Whole3
<1>2. /\ sets'[u.cfg.name] = (u.sess \ {c}) \cap Inside(nets[u.cfg.name])
      /\ \A n \in Names : n # u.cfg.name => sets'[n] = sets[n]
  <2>1. /\ sets'[u.cfg.name] = sets[u.cfg.name] \ {c}
        /\ \A n \in Names : n # u.cfg.name => sets'[n] = sets[n]
    BY <1>1 DEF IInv, Outside
  <2>2. QED
    BY <1>1, <2>1 DEF InPlaces
<1>3. ASSUME plan.reliable
      PROVE  /\ RowsOf(u.cfg.id)' = u.sess \ {c}
             /\ u.sess \ {c} \subseteq Fit(nets[u.cfg.name])
  <2>1. /\ RowsOf(u.cfg.id) = u.sess
        /\ RowsOf(u.cfg.id) \subseteq Fit(nets[u.cfg.name])
    BY <1>1, <1>3 DEF InPlaces, Placed, RowsFit
  <2>2. rows' = rows \ ({u.cfg.id} \X {c})
    BY <1>1, <1>3, <2>1, RowsLeftFit
  <2>3. RowsOf(u.cfg.id)' = RowsOf(u.cfg.id) \ {c}
    BY <2>2 DEF RowsOf
  <2>4. QED
    BY <2>1, <2>3
<1>4. ASSUME ~MayFail PROVE u.sess \ {c} \subseteq plan.clients
  BY <1>1, <1>4, SessionsInside
<1>5. \A r : r[1] # u.cfg.id => (r \in rows' <=> r \in rows)
  BY <1>1, RowsLeftOthers
<1>6. QED
  BY <1>1, <1>2, <1>3, <1>4, <1>5, HasNowPlaced

LEMMA PlacedStep ==
    ASSUME plan' = plan, IInv, Whole3, ListOK, Placed, UpStep PROVE Placed'
BY QuietPlaced, BeginFailsPlaced, BeginsPlaced, GoesOnPlaced, EndsPlaced, JoinsPlaced,
   LeavesPlaced DEF UpStep

LEMMA WholeSame == ASSUME plan' = plan PROVE Whole3' = Whole3
BY OrderlySame DEF Whole3, Complete

LEMMA PlacedInvariant == Spec => []PlacedInv
<1>1. Init => PlacedInv
  <2> SUFFICES ASSUME Init PROVE Placed
    BY DEF PlacedInv
  <2>1. DOMAIN list = {} /\ runfiles = {} /\ rows = {} /\ exist = {}
    BY DEF Init, exist
  <2>2. Up = {} /\ \A id : RowsOf(id) = {}
    BY <2>1 DEF Up, RowsOf
  <2>3. QED
    BY <2>1, <2>2 DEF Placed, RowsFit, RowsPlanned
<1>2. IInv /\ ListInv /\ Exited /\ PlacedInv /\ [Next]_vars => PlacedInv'
  <2> SUFFICES ASSUME IInv, ListInv, Exited, PlacedInv, [Next]_vars, Whole3'
               PROVE  Placed'
    BY DEF PlacedInv
  <2>1. plan' = plan /\ Whole3 /\ Orderly
    BY PlanSame, WholeSame DEF Whole3
  <2>2. QED
    BY <2>1, UpSteps, PlacedStep DEF ListInv, PlacedInv
<1>3. QED
  BY <1>1, <1>2, Invariant, ListInvariant, ExitedInvariant, PTL DEF Spec
-----------------------------------------------------------------------------
(* The table as a set of entries, when a name finds the entry of that name *)
(* and no other.                                                           *)

Entries(t) == {t.list[j] : j \in DOMAIN t.list}

Line(d, i, h, b) == [dev |-> d, ifb |-> i, hit |-> h, init |-> b]

(* The table a is t with the entry g in the place of e.                     *)
Swapped(a, t, e, g) == Entries(a) = (Entries(t) \ {e}) \cup {g}

(* The table a is t with one entry more.                                   *)
Extended(a, t, g) == Entries(a) = Entries(t) \cup {g}

Exact(t, d) == \A e \in Entries(t) : <<e.dev, d>> \in StartsWith <=> e.dev = d

NoEntry(t, d) == \A e \in Entries(t) : e.dev # d
Reserves(a, t, i) == a.reserved = t.reserved \cup Mask(i)

DevsApart(t) == \A e, f \in Entries(t) : e.dev = f.dev => e = f

LEMMA LineParts ==
    ASSUME NEW d, NEW i, NEW h, NEW b
    PROVE  /\ Line(d, i, h, b).dev = d /\ Line(d, i, h, b).ifb = i
           /\ Line(d, i, h, b).hit = h /\ Line(d, i, h, b).init = b
BY DEF Line

LEMMA EntryParts ==
    ASSUME NEW t, TabOK(t), NEW e \in Entries(t)
    PROVE  /\ e \in Entry /\ e.dev \in Devs /\ e.ifb \in Ifbs /\ e.ifb # NoIfb
           /\ e.hit \in Nat \ {0} /\ e.init \in BOOLEAN /\ e.ifb \in t.reserved
           /\ e = Line(e.dev, e.ifb, e.hit, e.init)
           /\ \A f \in Entries(t) : f.ifb = e.ifb => f = e
<1>1. t.list \in Seq(Entry) /\ Apart(t)
  BY DEF TabOK, Table
<1>2. PICK j \in DOMAIN t.list : e = t.list[j]
  BY DEF Entries
<1>3. e \in Entry
  BY <1>1, <1>2
<1>4. e.ifb \in t.reserved
  BY <1>1, <1>2 DEF Apart
<1>5. \A f \in Entries(t) : f.ifb = e.ifb => f = e
  BY <1>1, <1>2 DEF Apart, Entries
<1>6. e.ifb # NoIfb
  BY <1>3, InterfacesAssumption DEF Entry, NoIfb, Ifbs
<1>7. QED
  BY <1>3, <1>4, <1>5, <1>6 DEF Entry, Line

(* The entries of a list with one element replaced.                        *)
LEMMA OneEntryChanged ==
    ASSUME NEW t, TabOK(t), NEW L, NEW m \in DOMAIN t.list,
           DOMAIN L = DOMAIN t.list,
           \A j \in DOMAIN t.list : j # m => L[j] = t.list[j]
    PROVE  {L[j] : j \in DOMAIN L} = (Entries(t) \ {t.list[m]}) \cup {L[m]}
<1>1. \A j \in DOMAIN t.list : t.list[j] = t.list[m] => j = m
  BY DEF TabOK, Apart
<1>2. QED
  BY <1>1 DEF Entries

LEMMA FoundEntry ==
    ASSUME NEW t, TabOK(t), NEW d, Exact(t, d), DevsApart(t),
           NEW e \in Entries(t), e.dev = d
    PROVE  \E m \in DOMAIN t.list :
              /\ t.list[m] = e
              /\ Found(t.list, d) = {m}
              /\ Min(Found(t.list, d)) = m
<1>1. PICK m \in DOMAIN t.list : t.list[m] = e
  BY DEF Entries
<1>2. \A j \in DOMAIN t.list : t.list[j] = t.list[m] => j = m
  BY DEF TabOK, Apart
<1>3. \A j \in DOMAIN t.list : <<t.list[j].dev, d>> \in StartsWith <=> j = m
  <2>1. \A j \in DOMAIN t.list : t.list[j] \in Entries(t)
    BY DEF Entries
  <2>2. QED
    BY <1>1, <1>2, <2>1 DEF Exact, DevsApart
<1>4. Found(t.list, d) = {m}
  BY <1>3 DEF Found
<1>5. m \in Nat
  BY DEF TabOK, Table
<1>6. Min({m}) = m
  BY <1>5, MinExists
<1>7. QED
  BY <1>1, <1>4, <1>6

LEMMA NothingFound ==
    ASSUME NEW t, NEW d, Exact(t, d), NoEntry(t, d)
    PROVE  Found(t.list, d) = {}
BY DEF Exact, NoEntry, Entries, Found

LEMMA GetEntry ==
    ASSUME NEW t, TabOK(t), NEW d, Exact(t, d), DevsApart(t),
           NEW e \in Entries(t), e.dev = d
    PROVE  get_interface(t, d) = e.ifb
BY FoundEntry DEF get_interface

LEMMA AppendCounts ==
    ASSUME NEW t, TabOK(t), NEW d, Exact(t, d), DevsApart(t),
           NEW e \in Entries(t), e.dev = d
    PROVE  LET a == append_interface(t, d) IN
           /\ Swapped(a, t, e, Line(e.dev, e.ifb, e.hit + 1, e.init))
           /\ a.reserved = t.reserved
<1>1. PICK m \in DOMAIN t.list : /\ t.list[m] = e /\ Found(t.list, d) = {m}
                                 /\ Min(Found(t.list, d)) = m
  BY FoundEntry
<1>2. PICK L : L = [t.list EXCEPT ![m].hit = @ + 1]
  OBVIOUS
<1>3. append_interface(t, d) = [t EXCEPT !.list = L]
  <2>1. d \in Devs
    BY EntryParts
  <2>2. QED
    BY <1>1, <1>2, <2>1 DEF append_interface
<1>4. t \in [list : Seq(Entry), reserved : SUBSET Ifbs] /\ t.list \in Seq(Entry)
  BY DEF TabOK, Table
<1>5. append_interface(t, d).list = L /\ append_interface(t, d).reserved = t.reserved
  BY <1>3, <1>4
<1>6. /\ DOMAIN L = DOMAIN t.list /\ L[m] = [e EXCEPT !.hit = e.hit + 1]
      /\ \A j \in DOMAIN t.list : j # m => L[j] = t.list[j]
  BY <1>1, <1>2, <1>4
<1>7. L[m] = Line(e.dev, e.ifb, e.hit + 1, e.init)
  <2>1. e = Line(e.dev, e.ifb, e.hit, e.init)
    BY EntryParts
  <2>2. QED
    BY <1>6, <2>1 DEF Line
<1>8. {L[j] : j \in DOMAIN L} = (Entries(t) \ {e}) \cup {L[m]}
  BY <1>1, <1>6, OneEntryChanged
<1>9. QED
  BY <1>5, <1>7, <1>8 DEF Entries, Swapped

LEMMA AppendAdds ==
    ASSUME NEW t, TabOK(t), NEW d \in Devs, Exact(t, d), NoEntry(t, d),
           NEW i, i = ifb_interface_reserve(t.reserved), i # NoIfb
    PROVE  LET a == append_interface(t, d) IN
           /\ Entries(a) = Entries(t) \cup
                              {Line(d, i, 1, FALSE)}
           /\ a.reserved = t.reserved \cup Mask(i)
<1>1. PICK item : item = Line(d, i, 1, FALSE)
  OBVIOUS
<1>2. append_interface(t, d) = [list |-> Append(t.list, item),
                               reserved |-> t.reserved \cup Mask(i)]
  BY <1>1, NothingFound DEF append_interface, Line
<1>3. t.list \in Seq(Entry)
  BY DEF TabOK, Table
<1>4. PICK n : n = Len(t.list) + 1
  OBVIOUS
<1>5. PICK L : L = Append(t.list, item)
  OBVIOUS
<1>6. /\ DOMAIN L = DOMAIN t.list \cup {n} /\ L[n] = item
      /\ \A j \in DOMAIN t.list : L[j] = t.list[j]
      /\ n \notin DOMAIN t.list
  BY <1>3, <1>4, <1>5
<1>7. {L[j] : j \in DOMAIN L} = Entries(t) \cup {item}
  BY <1>6 DEF Entries
<1>8. PICK a : a = append_interface(t, d)
  OBVIOUS
<1>9. a.list = L /\ a.reserved = t.reserved \cup Mask(i)
  BY <1>2, <1>5, <1>8
<1>10. Entries(a) = Entries(t) \cup {item}
  BY <1>7, <1>9 DEF Entries
<1>11. QED
  BY <1>1, <1>8, <1>9, <1>10

LEMMA SetInitEntry ==
    ASSUME NEW t, TabOK(t), NEW e \in Entries(t), NEW b
    PROVE  LET a == SetInit(t, e.ifb, b) IN
           /\ Swapped(a, t, e, Line(e.dev, e.ifb, e.hit, b))
           /\ a.reserved = t.reserved
<1>1. PICK m \in DOMAIN t.list : t.list[m] = e
  BY DEF Entries
<1>2. \A j \in DOMAIN t.list : t.list[j].ifb = e.ifb => j = m
  BY <1>1 DEF TabOK, Apart
<1>3. PICK L : L = [j \in DOMAIN t.list |->
                       IF t.list[j].ifb = e.ifb THEN [t.list[j] EXCEPT !.init = b]
                       ELSE t.list[j]]
  OBVIOUS
<1>4. t \in [list : Seq(Entry), reserved : SUBSET Ifbs]
  BY DEF TabOK, Table
<1>5. SetInit(t, e.ifb, b) = [t EXCEPT !.list = L]
  BY <1>3 DEF SetInit
<1>6. SetInit(t, e.ifb, b).list = L /\ SetInit(t, e.ifb, b).reserved = t.reserved
  BY <1>4, <1>5
<1>7. /\ DOMAIN L = DOMAIN t.list /\ L[m] = [e EXCEPT !.init = b]
      /\ \A j \in DOMAIN t.list : j # m => L[j] = t.list[j]
  BY <1>1, <1>2, <1>3
<1>8. L[m] = Line(e.dev, e.ifb, e.hit, b)
  <2>1. e = Line(e.dev, e.ifb, e.hit, e.init)
    BY EntryParts
  <2>2. QED
    BY <1>7, <2>1 DEF Line
<1>9. {L[j] : j \in DOMAIN L} = (Entries(t) \ {e}) \cup {L[m]}
  BY <1>1, <1>7, OneEntryChanged
<1>10. QED
  BY <1>6, <1>8, <1>9 DEF Entries, Swapped

LEMMA RemoveCounts ==
    ASSUME NEW t, TabOK(t), NEW d, Exact(t, d), DevsApart(t),
           NEW e \in Entries(t), e.dev = d, e.hit > 1
    PROVE  LET a == remove_interface(t, d) IN
           /\ Swapped(a, t, e, Line(e.dev, e.ifb, e.hit - 1, e.init))
           /\ a.reserved = t.reserved
<1>1. PICK m \in DOMAIN t.list : t.list[m] = e /\ Found(t.list, d) = {m}
  BY FoundEntry
<1>2. t \in [list : Seq(Entry), reserved : SUBSET Ifbs] /\ t.list \in Seq(Entry)
  BY DEF TabOK, Table
<1>3. /\ {j \in {m} : t.list[j].hit <= 1} = {}
      /\ \A j \in DOMAIN t.list : j \in {m} /\ j <= Len(t.list) <=> j = m
  <2>1. e.hit \in Nat
    BY EntryParts
  <2>2. QED
    BY <1>1, <1>2, <2>1
<1>4. PICK L : L = [j \in DOMAIN t.list |->
                       IF j \in {m} /\ j <= Len(t.list)
                       THEN [t.list[j] EXCEPT !.hit = @ - 1] ELSE t.list[j]]
  OBVIOUS
<1>5. remove_interface(t, d) = [t EXCEPT !.list = L]
  BY <1>1, <1>3, <1>4 DEF remove_interface
<1>6. remove_interface(t, d).list = L /\ remove_interface(t, d).reserved = t.reserved
  BY <1>2, <1>5
<1>7. /\ DOMAIN L = DOMAIN t.list /\ L[m] = [e EXCEPT !.hit = e.hit - 1]
      /\ \A j \in DOMAIN t.list : j # m => L[j] = t.list[j]
  BY <1>1, <1>3, <1>4
<1>8. L[m] = Line(e.dev, e.ifb, e.hit - 1, e.init)
  <2>1. e = Line(e.dev, e.ifb, e.hit, e.init)
    BY EntryParts
  <2>2. QED
    BY <1>7, <2>1 DEF Line
<1>9. {L[j] : j \in DOMAIN L} = (Entries(t) \ {e}) \cup {L[m]}
  BY <1>1, <1>7, OneEntryChanged
<1>10. QED
  BY <1>6, <1>8, <1>9 DEF Entries, Swapped

(* The elements of a list without the one at m.                            *)
InList(x, s) == \E j \in DOMAIN s : x = s[j]
InRest(x, s, m) == \E j \in DOMAIN s \ {m} : x = s[j]

LEMMA RemovedElements ==
    ASSUME NEW S, NEW s \in Seq(S), NEW m \in DOMAIN s
    PROVE  \A x : InList(x, RemoveAt(s, m)) <=> InRest(x, s, m)
<1> DEFINE r == RemoveAt(s, m)
<1>1. /\ Len(s) \in Nat /\ DOMAIN s = 1 .. Len(s) /\ m \in 1 .. Len(s)
      /\ DOMAIN r = 1 .. Len(s) - 1
      /\ \A j \in 1 .. Len(s) - 1 : r[j] = IF j < m THEN s[j] ELSE s[j + 1]
  BY RemoveAtSeq
<1> HIDE DEF r
<1>2. ASSUME NEW j \in DOMAIN r PROVE \E i \in DOMAIN s \ {m} : r[j] = s[i]
  <2>1. CASE j < m
    BY <1>1, <2>1
  <2>2. CASE ~(j < m)
    <3>1. j + 1 \in DOMAIN s \ {m}
      BY <1>1, <2>2
    <3>2. QED
      BY <1>1, <2>2, <3>1
  <2>3. QED
    BY <2>1, <2>2
<1>3. ASSUME NEW i \in DOMAIN s \ {m} PROVE \E j \in DOMAIN r : r[j] = s[i]
  <2>1. CASE i < m
    BY <1>1, <2>1
  <2>2. CASE ~(i < m)
    <3>1. i - 1 \in 1 .. Len(s) - 1 /\ ~(i - 1 < m) /\ (i - 1) + 1 = i
      BY <1>1, <2>2
    <3>2. r[i - 1] = s[i]
      BY <1>1, <3>1
    <3>3. QED
      BY <1>1, <3>1, <3>2
  <2>3. QED
    BY <2>1, <2>2
<1>4. QED
  BY <1>2, <1>3 DEF r, InList, InRest

LEMMA RemoveLast ==
    ASSUME NEW t, TabOK(t), NEW d, Exact(t, d), DevsApart(t),
           NEW e \in Entries(t), e.dev = d, e.hit <= 1
    PROVE  LET a == remove_interface(t, d) IN
           /\ Entries(a) = Entries(t) \ {e}
           /\ a.reserved = t.reserved \ {e.ifb}
<1>1. PICK m \in DOMAIN t.list : /\ t.list[m] = e /\ Found(t.list, d) = {m}
                                 /\ Min(Found(t.list, d)) = m
  BY FoundEntry
<1>2. t.list \in Seq(Entry)
  BY DEF TabOK, Table
<1>3. {j \in {m} : t.list[j].hit <= 1} = {m}
  BY <1>1
<1>4. Min({m}) = m
  BY <1>1
<1>5. PICK L : L = [j \in DOMAIN t.list |->
                       IF j \in {m} /\ j <= m
                       THEN [t.list[j] EXCEPT !.hit = @ - 1] ELSE t.list[j]]
  OBVIOUS
<1>6. remove_interface(t, d) =
          [list |-> RemoveAt(L, m), reserved |-> t.reserved \ {e.ifb}]
  BY <1>1, <1>3, <1>4, <1>5 DEF remove_interface, ifb_interface_release
<1> DEFINE all == {L[j] : j \in DOMAIN t.list}
<1>7. L \in Seq(all) /\ DOMAIN L = DOMAIN t.list
  <2>1. L = [j \in DOMAIN t.list |-> L[j]] /\ \A j \in DOMAIN t.list : L[j] \in all
    BY <1>5
  <2> HIDE DEF all
  <2>2. QED
    BY <1>2, <2>1, ReplacedSeq
<1> HIDE DEF all
<1>8. PICK r : r = RemoveAt(L, m)
  OBVIOUS
<1>9. \A x : InList(x, r) <=> InRest(x, L, m)
  <2>1. m \in DOMAIN L
    BY <1>7
  <2>2. QED
    BY <1>7, <1>8, <2>1, RemovedElements
<1>10. \A j \in DOMAIN t.list : j # m => L[j] = t.list[j] /\ t.list[j] # e
  <2>1. \A j \in DOMAIN t.list : j # m => L[j] = t.list[j]
    BY <1>5
  <2>2. \A j \in DOMAIN t.list : t.list[j] = e => j = m
    BY <1>1 DEF TabOK, Apart
  <2>3. QED
    BY <2>1, <2>2
<1>11. \A x : InRest(x, L, m) <=> x \in Entries(t) /\ x # e
  BY <1>1, <1>7, <1>10 DEF Entries, InRest
<1>12. QED
  BY <1>6, <1>8, <1>9, <1>11 DEF Entries, InList

(* An entry changed keeps its name.                                        *)
LEMMA SameKeys ==
    ASSUME NEW t, NEW d, Exact(t, d), DevsApart(t), NEW e \in Entries(t), NEW g,
           g.dev = e.dev, NEW a, Swapped(a, t, e, g)
    PROVE  Exact(a, d) /\ DevsApart(a)
BY DEF Exact, DevsApart, Swapped
(* The shaping of an entry is started, unless it already is, or is found    *)
(* to be there, or the interface is missing; b: the entry says so.         *)
Pair(e) == <<e.dev, e.ifb>>
Shapes(e, b) ==
    \/ /\ shaped' = shaped
       /\ b = e.init
       /\ e.init \/ Pair(e) \in shaped \/ ~plan.reliable
    \/ /\ ~e.init
       /\ Pair(e) \notin shaped
       /\ shaped' = shaped \cup {Pair(e)}
       /\ b = TRUE

LEMMA OneWithIfb ==
    ASSUME NEW t, TabOK(t), NEW e \in Entries(t)
    PROVE  /\ Shaping(t, e.ifb) = {Pair(e)}
           /\ Inited(t, e.ifb) <=> e.init
           /\ \E m \in DOMAIN t.list : WithIfb(t, e.ifb) = {m} /\ t.list[m] = e
<1>1. PICK m \in DOMAIN t.list : t.list[m] = e
  BY DEF Entries
<1>2. WithIfb(t, e.ifb) = {m}
  BY <1>1 DEF WithIfb, TabOK, Apart
<1>3. Shaping(t, e.ifb) = {Pair(e)}
  BY <1>1, <1>2 DEF Shaping, Pair
<1>4. QED
  BY <1>1, <1>2, <1>3 DEF Inited

LEMMA StartEntry ==
    ASSUME NEW t, TabOK(t), NEW e \in Entries(t), bandwidth_start(t, e.ifb)
    PROVE  \E b \in BOOLEAN : /\ Swapped(tab', t, e, Line(e.dev, e.ifb, e.hit, b))
                              /\ tab'.reserved = t.reserved
                              /\ Shapes(e, b)
<1>1. /\ Shaping(t, e.ifb) = {Pair(e)} /\ (Inited(t, e.ifb) <=> e.init)
      /\ e.init \in BOOLEAN /\ e = Line(e.dev, e.ifb, e.hit, e.init)
  BY OneWithIfb, EntryParts
<1>2. /\ shaped' \in ShapedBy(t, e.ifb)
      /\ tab' = IF shaped' = shaped THEN t ELSE SetInit(t, e.ifb, TRUE)
  BY DEF bandwidth_start
<1>3. CASE shaped' = shaped
  <2>1. Swapped(tab', t, e, Line(e.dev, e.ifb, e.hit, e.init))
    BY <1>1, <1>2, <1>3 DEF Swapped
  <2>2. e.init \/ Pair(e) \in shaped \/ ~plan.reliable
    <3>1. SUFFICES ASSUME ~e.init, Pair(e) \notin shaped, plan.reliable PROVE FALSE
      OBVIOUS
    <3>2. shaped' = shaped \cup {Pair(e)}
      BY <1>1, <1>2, <3>1 DEF ShapedBy
    <3>3. QED
      BY <1>3, <3>1, <3>2
  <2>3. QED
    BY <1>1, <1>2, <1>3, <2>1, <2>2 DEF Shapes
<1>4. CASE shaped' # shaped
  <2>1. shaped' = shaped \cup {Pair(e)} /\ ~e.init /\ Pair(e) \notin shaped
    BY <1>1, <1>2, <1>4 DEF ShapedBy
  <2>2. PICK yes : yes = TRUE
    OBVIOUS
  <2>3. tab' = SetInit(t, e.ifb, yes)
    BY <1>2, <1>4, <2>2
  <2>4. /\ Swapped(tab', t, e, Line(e.dev, e.ifb, e.hit, yes))
        /\ tab'.reserved = t.reserved
    BY <2>3, SetInitEntry
  <2>5. Shapes(e, yes)
    BY <2>1, <2>2 DEF Shapes
  <2>6. QED
    BY <2>2, <2>4, <2>5
<1>5. QED
  BY <1>3, <1>4

LEMMA BeginOnEntry ==
    ASSUME TabOK(tab), NEW d \in Devs, Exact(tab, d), DevsApart(tab),
           NEW e \in Entries(tab), e.dev = d,
           NEW f, f = InterfaceFor(d), bandwidth_start(append_interface(tab, d), f)
    PROVE  /\ f = e.ifb
           /\ \E b \in BOOLEAN : /\ Swapped(tab', tab, e, Line(d, f, e.hit + 1, b))
                                 /\ tab'.reserved = tab.reserved
                                 /\ Shapes(e, b)
<1>1. PICK t : t = append_interface(tab, d)
  OBVIOUS
<1>2. PICK g : g = Line(e.dev, e.ifb, e.hit + 1, e.init)
  OBVIOUS
<1>3. \A h \in Entries(tab) : h.ifb = e.ifb => h = e
  BY EntryParts
<1>4. g.dev = d /\ g.ifb = e.ifb /\ g.hit = e.hit + 1 /\ g.init = e.init
  BY <1>2, LineParts
<1>5. Swapped(t, tab, e, g) /\ t.reserved = tab.reserved
  BY <1>1, <1>2, AppendCounts
<1>6. TabOK(t) /\ Exact(t, d) /\ DevsApart(t)
  BY <1>1, <1>4, <1>5, AppendOK, SameKeys
<1>7. g \in Entries(t) /\ g.dev = d /\ g.ifb = e.ifb
  BY <1>4, <1>5 DEF Swapped
<1>8. f = e.ifb
  BY <1>1, <1>6, <1>7, GetEntry DEF InterfaceFor
<1>9. PICK b \in BOOLEAN : /\ Swapped(tab', t, g, Line(g.dev, g.ifb, g.hit, b))
                           /\ tab'.reserved = t.reserved
                           /\ Shapes(g, b)
  <2>1. bandwidth_start(t, g.ifb)
    BY <1>1, <1>7, <1>8
  <2>2. QED
    BY <1>6, <1>7, <2>1, StartEntry
<1>10. g \notin Entries(tab) \ {e}
  BY <1>3, <1>7
<1>11. Swapped(tab', tab, e, Line(d, f, e.hit + 1, b))
  BY <1>4, <1>5, <1>8, <1>9, <1>10 DEF Swapped
<1>12. Shapes(e, b)
  BY <1>4, <1>7, <1>9 DEF Shapes, Pair
<1>13. QED
  BY <1>5, <1>8, <1>9, <1>11, <1>12

(* The table gets an entry for d, which has none. *)
BeginNew(d, f) ==
    /\ NoEntry(tab, d)
    /\ f = ifb_interface_reserve(tab.reserved)
    /\ Reserves(tab', tab, f)
    /\ \E b \in BOOLEAN : /\ Extended(tab', tab, Line(d, f, 1, b))
                          /\ Shapes(Line(d, f, 1, FALSE), b)

LEMMA BeginNewEntry ==
    ASSUME TabOK(tab), NEW d \in Devs, Exact(tab, d), DevsApart(tab), NoEntry(tab, d),
           NEW f, f = InterfaceFor(d), f # NoIfb,
           bandwidth_start(append_interface(tab, d), f)
    PROVE  BeginNew(d, f)
<1>1. PICK t : t = append_interface(tab, d)
  OBVIOUS
<1>2. PICK i : i = ifb_interface_reserve(tab.reserved)
  OBVIOUS
<1>3. i # NoIfb
  <2>1. Found(tab.list, d) = {}
    BY NothingFound
  <2>2. SUFFICES ASSUME i = NoIfb PROVE FALSE
    OBVIOUS
  <2>3. append_interface(tab, d) = tab
    BY <1>2, <2>1, <2>2 DEF append_interface
  <2>4. QED
    BY <2>1, <2>3 DEF get_interface, InterfaceFor
<1>4. PICK g : g = Line(d, i, 1, FALSE)
  OBVIOUS
<1>5. Entries(t) = Entries(tab) \cup {g} /\ t.reserved = tab.reserved \cup Mask(i)
  BY <1>1, <1>2, <1>3, <1>4, AppendAdds, ZenonT(30)
<1>6. g \in Entries(t) /\ g.dev = d /\ g.ifb = i /\ g.hit = 1
  BY <1>4, <1>5 DEF Line
<1>7. TabOK(t) /\ Exact(t, d) /\ DevsApart(t)
  <2>1. <<d, d>> \in StartsWith
    BY InterfacesAssumption
  <2>2. QED
    BY <1>1, <1>5, <1>6, <2>1, AppendOK DEF Exact, NoEntry, DevsApart
<1>8. f = i
  BY <1>1, <1>6, <1>7, GetEntry DEF InterfaceFor
<1>9. PICK b \in BOOLEAN : /\ Swapped(tab', t, g, Line(g.dev, g.ifb, g.hit, b))
                           /\ tab'.reserved = t.reserved
                           /\ Shapes(g, b)
  <2>1. bandwidth_start(t, g.ifb)
    BY <1>1, <1>6, <1>8
  <2>2. QED
    BY <1>6, <1>7, <2>1, StartEntry
<1>10. g \notin Entries(tab)
  BY <1>6 DEF NoEntry
<1>11. Extended(tab', tab, Line(d, f, 1, b))
  BY <1>5, <1>6, <1>8, <1>9, <1>10 DEF Swapped, Extended
<1>12. QED
  BY <1>2, <1>4, <1>5, <1>8, <1>9, <1>11 DEF Reserves, BeginNew

LEMMA EndOnEntry ==
    ASSUME TabOK(tab), NEW s, NEW e \in Entries(tab), e.dev = s.cfg.dev,
           e.ifb = s.iface, Exact(tab, s.cfg.dev), DevsApart(tab), BandwidthCleanup(s)
    PROVE  /\ e.hit > 1 =>
                 /\ Swapped(tab', tab, e, Line(e.dev, e.ifb, e.hit - 1, e.init))
                 /\ tab'.reserved = tab.reserved
                 /\ shaped' = shaped
           /\ e.hit <= 1 =>
                 /\ Entries(tab') = Entries(tab) \ {e}
                 /\ tab'.reserved = tab.reserved \ {e.ifb}
                 /\ shaped' \in {shaped, shaped \ {Pair(e)}}
                 /\ e.init /\ plan.reliable /\ Pair(e) \in shaped =>
                        shaped' = shaped \ {Pair(e)}
<1>1. PICK m \in DOMAIN tab.list : WithIfb(tab, s.iface) = {m} /\ tab.list[m] = e
  BY OneWithIfb
<1>2. Shaping(tab, s.iface) = {Pair(e)}
  BY OneWithIfb
<1>3. /\ e.hit \in Nat
      /\ \A h \in Entries(tab) : h.ifb = e.ifb => h = e
  BY EntryParts
<1>4. PICK no : no = FALSE
  OBVIOUS
<1>5. /\ shaped' \in ShapedAfter(s)
      /\ tab' = remove_interface(IF shaped' = shaped THEN tab
                                 ELSE SetInit(tab, e.ifb, no), s.cfg.dev)
  BY <1>4 DEF BandwidthCleanup
<1>6. ASSUME e.hit > 1
      PROVE  /\ Swapped(tab', tab, e, Line(e.dev, e.ifb, e.hit - 1, e.init))
             /\ tab'.reserved = tab.reserved
             /\ shaped' = shaped
  <2>1. shaped' = shaped
    BY <1>1, <1>3, <1>5, <1>6 DEF ShapedAfter
  <2>2. tab' = remove_interface(tab, s.cfg.dev)
    BY <1>5, <2>1
  <2>3. QED
    BY <1>6, <2>1, <2>2, RemoveCounts
<1>7. ASSUME e.hit <= 1
      PROVE  /\ Entries(tab') = Entries(tab) \ {e}
             /\ tab'.reserved = tab.reserved \ {e.ifb}
             /\ shaped' \in {shaped, shaped \ {Pair(e)}}
             /\ e.init /\ plan.reliable /\ Pair(e) \in shaped =>
                    shaped' = shaped \ {Pair(e)}
  <2>1. /\ shaped' \in {shaped, shaped \ {Pair(e)}}
        /\ e.init /\ plan.reliable /\ Pair(e) \in shaped =>
               shaped' = shaped \ {Pair(e)}
    BY <1>1, <1>2, <1>5, <1>7 DEF ShapedAfter
  <2>2. CASE shaped' = shaped
    <3>1. tab' = remove_interface(tab, s.cfg.dev)
      BY <1>5, <2>2
    <3>2. QED
      BY <1>7, <2>1, <3>1, RemoveLast
  <2>3. CASE shaped' # shaped
    <3>1. PICK b : b = SetInit(tab, e.ifb, no)
      OBVIOUS
    <3>2. PICK g : g = Line(e.dev, e.ifb, e.hit, no)
      OBVIOUS
    <3>3. g.dev = e.dev /\ g.ifb = e.ifb /\ g.hit = e.hit
      BY <3>2, LineParts
    <3>4. Swapped(b, tab, e, g) /\ b.reserved = tab.reserved
      BY <3>1, <3>2, SetInitEntry
    <3>5. TabOK(b) /\ Exact(b, s.cfg.dev) /\ DevsApart(b)
      <4>1. TabOK(b)
        BY <1>4, <3>1, SetInitOK
      <4>2. QED
        BY <3>3, <3>4, <4>1, SameKeys
    <3>6. g \in Entries(b) /\ g.dev = s.cfg.dev /\ g.hit <= 1 /\ g.ifb = e.ifb
      BY <1>7, <3>3, <3>4 DEF Swapped
    <3>7. tab' = remove_interface(b, s.cfg.dev)
      BY <1>5, <2>3, <3>1
    <3>8. Entries(tab') = Entries(b) \ {g} /\ tab'.reserved = b.reserved \ {g.ifb}
      BY <3>5, <3>6, <3>7, RemoveLast
    <3>9. g \notin Entries(tab) \ {e}
      BY <1>3, <3>6
    <3>10. Entries(tab') = Entries(tab) \ {e}
      BY <3>4, <3>8, <3>9 DEF Swapped
    <3>11. QED
      BY <2>1, <3>4, <3>6, <3>8, <3>10
  <2>4. QED
    BY <2>2, <2>3
<1>8. QED
  BY <1>6, <1>7
-----------------------------------------------------------------------------
(* The entries count the servers in service. *)

(* What the theorems about the interfaces assume besides.                  *)
Steady == Orderly /\ DevsKept /\ DevsDiffer

(* The names of the servers in service that use an interface.              *)
UserNames(d) == {v.cfg.name : v \in {u \in Up : u.cfg.dev = d}}

Planned(d) == \E c \in plan.configs : c.dev = d

EntryCounts(e) ==
    /\ e.hit = Cardinality(UserNames(e.dev))
    /\ Planned(e.dev)
    /\ e.init \/ plan.reliable => Pair(e) \in shaped

HasEntry(t, u) == \E e \in Entries(t) : e.dev = u.cfg.dev /\ e.ifb = u.iface

(* Bits below the sign of an int are reserved for an entry each.           *)
LowReserved(t) ==
    \A b \in t.reserved : b < IntBits - 1 => \E e \in Entries(t) : e.ifb = b

Counted ==
    /\ \A e \in Entries(tab) : EntryCounts(e)
    /\ DevsApart(tab)
    /\ \A u \in Up : HasEntry(tab, u)
    /\ LowReserved(tab)

CountedInv == Steady => Counted

-----------------------------------------------------------------------------

LEMMA UsersFinite ==
    ASSUME IInv, ListOK, NEW d
    PROVE  IsFiniteSet(UserNames(d))
<1> DEFINE S == {list[i].cfg.name : i \in DOMAIN list}
           f == [i \in DOMAIN list |-> list[i].cfg.name]
<1>1. IsFiniteSet(DOMAIN list)
  BY ListParts, UpTo
<1>2. f \in Surjection(DOMAIN list, S)
  BY DEF Surjection
<1>3. IsFiniteSet(S)
  BY <1>1, <1>2, FS_Surjection
<1>4. UserNames(d) \subseteq S
  <2>1. ASSUME NEW u \in Up PROVE u.cfg.name \in S
    <3>1. PICK i \in DOMAIN list : u = Core(list[i])
      BY DEF Up
    <3>2. u.cfg.name = list[i].cfg.name
      BY <3>1 DEF Core
    <3>3. QED
      BY <3>2
  <2>2. QED
    BY <2>1 DEF UserNames
<1>5. QED
  BY <1>3, <1>4, FS_Subset

(* The table tells the planned names apart.                                *)
LEMMA ExactHere ==
    ASSUME IInv, Steady, Counted, NEW c \in plan.configs, c.dev \in Devs
    PROVE  Exact(tab, c.dev)
<1>1. ASSUME NEW e \in Entries(tab), <<e.dev, c.dev>> \in StartsWith
      PROVE  e.dev = c.dev
  BY <1>1 DEF Counted, EntryCounts, Planned, Steady, DevsDiffer
<1>2. <<c.dev, c.dev>> \in StartsWith
  BY InterfacesAssumption
<1>3. QED
  BY <1>1, <1>2 DEF Exact

LEMMA CountedKept ==
    ASSUME Counted, plan' = plan, tab' = tab, shaped' = shaped,
           \A d : UserNames(d)' = UserNames(d),
           \A u \in Up' : \E v \in Up : v.cfg.dev = u.cfg.dev /\ v.iface = u.iface
    PROVE  Counted'
<1>1. \A e : EntryCounts(e)' <=> EntryCounts(e)
  BY DEF EntryCounts, Planned
<1>2. \A u \in Up' : HasEntry(tab, u)
  BY DEF Counted, HasEntry
<1>3. QED
  BY <1>1, <1>2 DEF Counted, DevsApart, LowReserved, HasEntry, Entries

LEMMA NoneCounted == ASSUME Up' = {}, tab' = NoInterfaces PROVE Counted'
<1>1. tab'.list = <<>> /\ tab'.reserved = {}
  BY DEF NoInterfaces
<1>2. Entries(tab') = {}
  BY <1>1 DEF Entries
<1>3. QED
  BY <1>1, <1>2 DEF Counted, DevsApart, LowReserved, Entries

LEMMA QuietCounted ==
    ASSUME Counted, plan' = plan, Quiet PROVE Counted'
<1>1. Up' = Up /\ tab' = tab /\ shaped' = shaped
  BY DEF Quiet, outside
<1>2. QED
  BY <1>1, CountedKept DEF UserNames

(* The users of the interfaces when a server with another record takes the *)
(* place of one of the same name and interface.                            *)
LEMMA SameUsers ==
    ASSUME NEW u \in Up, NEW new, Up' = (Up \ {u}) \cup {new},
           new.cfg.name = u.cfg.name, new.cfg.dev = u.cfg.dev, NEW d
    PROVE  UserNames(d)' = UserNames(d)
<1>1. ASSUME NEW n PROVE n \in UserNames(d)' <=> n \in UserNames(d)
  <2>1. n \in UserNames(d)' <=> \E v \in Up' : v.cfg.dev = d /\ n = v.cfg.name
    BY DEF UserNames
  <2>2. n \in UserNames(d) <=> \E v \in Up : v.cfg.dev = d /\ n = v.cfg.name
    BY DEF UserNames
  <2>3. QED
    BY <2>1, <2>2
<1>2. QED
  BY <1>1

LEMMA HasNowCounted ==
    ASSUME Counted, plan' = plan, NEW u \in Up, NEW S, HasNow(u, S)
    PROVE  Counted'
<1>1. PICK new : new = [cfg |-> u.cfg, iface |-> u.iface, sess |-> S]
  OBVIOUS
<1>2. Up' = (Up \ {u}) \cup {new} /\ tab' = tab /\ shaped' = shaped
  BY <1>1 DEF HasNow
<1>3. new.cfg = u.cfg /\ new.iface = u.iface
  BY <1>1
<1>4. \A d : UserNames(d)' = UserNames(d)
  BY <1>2, <1>3, SameUsers
<1>5. QED
  BY <1>2, <1>3, <1>4, CountedKept

(* An entry whose users stay counts them after the step too.               *)
LEMMA OtherCounts ==
    ASSUME plan' = plan, NEW x, EntryCounts(x), UserNames(x.dev)' = UserNames(x.dev),
           Pair(x) \in shaped => Pair(x) \in shaped'
    PROVE  EntryCounts(x)'
BY DEF EntryCounts, Planned, Pair

LEMMA ShapesMore ==
    ASSUME NEW e, NEW b, Shapes(e, b), e.init => Pair(e) \in shaped
    PROVE  shaped \subseteq shaped' /\ (b \/ plan.reliable => Pair(e) \in shaped')
BY DEF Shapes

LEMMA Found2 ==
    ASSUME NEW t, NEW d, get_interface(t, d) # NoIfb
    PROVE  d \in Devs
<1>1. Found(t.list, d) # {}
  BY DEF get_interface
<1>2. QED
  BY <1>1, InterfacesAssumption DEF Found

LEMMA GoesOnCounted ==
    ASSUME IInv, Steady, ListOK, Counted, plan' = plan,
           NEW u \in Up, NEW c \in Config, GoesOn(u, c)
    PROVE  /\ Counted'
           /\ \E e \in Entries(tab) :
                 /\ e.dev = u.cfg.dev /\ e.ifb = u.iface
                 /\ \E b \in BOOLEAN :
                       /\ Swapped(tab', tab, e, Line(e.dev, e.ifb, e.hit, b))
                       /\ Shapes(e, b)
<1>1. PICK new : new = [cfg |-> c, iface |-> get_interface(tab, c.dev), sess |-> u.sess]
  OBVIOUS
<1>2. /\ SameServer(c, u.cfg) /\ Up' = (Up \ {u}) \cup {new}
      /\ bandwidth_start(tab, get_interface(tab, c.dev))
      /\ c.dev \in Devs
  BY <1>1, Found2 DEF GoesOn
<1>3. u.cfg \in plan.configs
  BY UpParts DEF Steady
<1>4. c.dev = u.cfg.dev /\ c.name = u.cfg.name /\ c \in plan.configs
  BY <1>2, <1>3 DEF SameServer, Steady, DevsKept
<1>5. PICK e \in Entries(tab) : e.dev = u.cfg.dev /\ e.ifb = u.iface
  BY DEF Counted, HasEntry
<1>6. TabOK(tab) /\ DevsApart(tab) /\ Exact(tab, c.dev) /\ EntryCounts(e)
  BY <1>2, <1>4, ExactHere DEF IInv, Memory, Counted
<1>7. get_interface(tab, c.dev) = e.ifb
  BY <1>4, <1>5, <1>6, GetEntry
<1>8. PICK b \in BOOLEAN : /\ Swapped(tab', tab, e, Line(e.dev, e.ifb, e.hit, b))
                           /\ tab'.reserved = tab.reserved
                           /\ Shapes(e, b)
  BY <1>2, <1>6, <1>7, StartEntry
<1>9. PICK g : g = Line(e.dev, e.ifb, e.hit, b)
  OBVIOUS
<1>10. /\ \A x : x \in Entries(tab') <=> x = g \/ (x \in Entries(tab) /\ x # e)
       /\ g.dev = e.dev /\ g.ifb = e.ifb /\ g.hit = e.hit /\ g.init = b
       /\ Pair(g) = Pair(e)
  BY <1>8, <1>9 DEF Swapped, Line, Pair
<1>11. new.cfg = c /\ new.iface = e.ifb
  BY <1>1, <1>7
<1>12. \A d : UserNames(d)' = UserNames(d)
  BY <1>2, <1>4, <1>11, SameUsers
<1>13. shaped \subseteq shaped' /\ (b \/ plan.reliable => Pair(e) \in shaped')
  BY <1>6, <1>8, ShapesMore DEF EntryCounts
<1>14. EntryCounts(g)'
  BY <1>6, <1>10, <1>12, <1>13 DEF EntryCounts, Planned, Pair
<1>15. \A x \in Entries(tab) : EntryCounts(x)'
  BY <1>12, <1>13, OtherCounts DEF Counted
<1>16. \A v \in Up' : HasEntry(tab', v)
  BY <1>2, <1>4, <1>5, <1>10, <1>11 DEF Counted, HasEntry
<1>17. DevsApart(tab')
  BY <1>6, <1>10 DEF DevsApart
<1>18. LowReserved(tab')
  BY <1>8, <1>10 DEF Counted, LowReserved
<1>19. \A x \in Entries(tab') : EntryCounts(x)'
  BY <1>10, <1>14, <1>15
<1>20. Counted'
  BY <1>16, <1>17, <1>18, <1>19 DEF Counted, DevsApart, LowReserved, HasEntry, Entries
<1>21. QED
  BY <1>5, <1>8, <1>20

LEMMA MaskLow ==
    ASSUME NEW r, NEW i, i = ifb_interface_reserve(r), i # NoIfb,
           NEW b \in Mask(i), b < IntBits - 1
    PROVE  b = i
<1>1. FreeIfbs(r) # {} /\ i = Min(FreeIfbs(r))
  BY DEF ifb_interface_reserve
<1>2. i \in Mask(i)
  BY <1>1, ReserveFree
<1>3. IntBits \in Nat /\ MaxIfb \in Nat
  BY InterfacesAssumption
<1>4. CASE i % IntBits = IntBits - 1
  BY <1>3, <1>4 DEF Mask, Ifbs
<1>5. CASE i % IntBits # IntBits - 1
  BY <1>2, <1>5 DEF Mask
<1>6. QED
  BY <1>4, <1>5

LEMMA UsersBegin ==
    ASSUME NEW c, NEW new, new.cfg = c, Up' = Up \cup {new}, Fresh(c)
    PROVE  /\ UserNames(c.dev)' = UserNames(c.dev) \cup {c.name}
           /\ \A d : d # c.dev => UserNames(d)' = UserNames(d)
           /\ c.name \notin UserNames(c.dev)
<1>1. \A d, n : n \in UserNames(d)' <=> \E v \in Up' : v.cfg.dev = d /\ n = v.cfg.name
  BY DEF UserNames
<1>2. \A d, n : n \in UserNames(d) <=> \E v \in Up : v.cfg.dev = d /\ n = v.cfg.name
  BY DEF UserNames
<1>3. c.name \notin UserNames(c.dev)
  BY <1>2 DEF Fresh
<1>4. \A n : n \in UserNames(c.dev)' <=> n \in UserNames(c.dev) \/ n = c.name
  BY <1>1, <1>2
<1>5. \A d : d # c.dev => \A n : n \in UserNames(d)' <=> n \in UserNames(d)
  BY <1>1, <1>2
<1>6. QED
  BY <1>3, <1>4, <1>5

(* What the beginning of a server does to the table.                       *)
BeginOn(e, f) ==
    /\ e.dev = f
    /\ \E b \in BOOLEAN : /\ Swapped(tab', tab, e, Line(f, e.ifb, e.hit + 1, b))
                          /\ Shapes(e, b)
LEMMA BeginsCounted ==
    ASSUME IInv, Steady, ListOK, Counted, plan' = plan, NEW c \in Config,
           NEW on, Begins(c, on)
    PROVE  /\ Counted'
           /\ \/ \E e \in Entries(tab) : BeginOn(e, c.dev)
              \/ BeginNew(c.dev, InterfaceFor(c.dev))
<1>1. PICK f : f = InterfaceFor(c.dev)
  OBVIOUS
<1>2. PICK new : new = [cfg |-> c, iface |-> f, sess |-> on]
  OBVIOUS
<1>3. /\ Fresh(c) /\ f # NoIfb /\ Up' = Up \cup {new} /\ c.dev \in Devs
      /\ bandwidth_start(append_interface(tab, c.dev), f)
  BY <1>1, <1>2, Found2 DEF Begins, InterfaceFor
<1>4. c \in plan.configs /\ new.cfg = c /\ new.iface = f
  BY <1>2, <1>3 DEF Fresh
<1>5. TabOK(tab) /\ DevsApart(tab) /\ Exact(tab, c.dev)
  BY <1>3, <1>4, ExactHere DEF IInv, Memory, Counted
<1>6. /\ UserNames(c.dev)' = UserNames(c.dev) \cup {c.name}
      /\ \A d : d # c.dev => UserNames(d)' = UserNames(d)
      /\ c.name \notin UserNames(c.dev)
  BY <1>3, <1>4, UsersBegin
<1>7. IsFiniteSet(UserNames(c.dev)) /\ Cardinality(UserNames(c.dev)) \in Nat
  BY UsersFinite, FS_CardinalityType
<1>8. Cardinality(UserNames(c.dev) \cup {c.name}) = Cardinality(UserNames(c.dev)) + 1
  BY <1>6, <1>7, FS_AddElement
<1>9. Planned(c.dev)'
  BY <1>4 DEF Planned
<1>10. CASE \E e \in Entries(tab) : e.dev = c.dev
  <2>1. PICK e \in Entries(tab) : e.dev = c.dev
    BY <1>10
  <2>2. EntryCounts(e)
    BY <2>1 DEF Counted
  <2>3. PICK b \in BOOLEAN :
          /\ Swapped(tab', tab, e, Line(c.dev, f, e.hit + 1, b))
          /\ f = e.ifb /\ tab'.reserved = tab.reserved /\ Shapes(e, b)
    BY <1>1, <1>3, <1>5, <2>1, BeginOnEntry
  <2>4. PICK g : g = Line(c.dev, f, e.hit + 1, b)
    OBVIOUS
  <2>5. /\ \A x : x \in Entries(tab') <=> x = g \/ (x \in Entries(tab) /\ x # e)
        /\ g.dev = c.dev /\ g.ifb = e.ifb /\ g.hit = e.hit + 1 /\ g.init = b
    BY <2>3, <2>4 DEF Swapped, Line
  <2>6. shaped \subseteq shaped' /\ (b \/ plan.reliable => Pair(e) \in shaped')
    BY <2>2, <2>3, ShapesMore DEF EntryCounts
  <2>7. EntryCounts(g)'
    <3>1. g.hit = Cardinality(UserNames(c.dev)')
      BY <1>6, <1>8, <2>1, <2>2, <2>5 DEF EntryCounts
    <3>2. Pair(g) = Pair(e)
      BY <2>1, <2>5 DEF Pair
    <3>3. QED
      BY <1>9, <2>5, <2>6, <3>1, <3>2 DEF EntryCounts, Pair
  <2>8. \A x \in Entries(tab') : EntryCounts(x)'
    <3>1. ASSUME NEW x \in Entries(tab), x # e PROVE EntryCounts(x)'
      <4>1. x.dev # c.dev /\ EntryCounts(x)
        BY <1>5, <2>1, <3>1 DEF Counted, DevsApart
      <4>2. QED
        BY <1>6, <2>6, <4>1, OtherCounts
    <3>2. QED
      BY <2>5, <2>7, <3>1
  <2>9. DevsApart(tab')
    BY <1>5, <2>1, <2>5 DEF DevsApart
  <2>10. \A u \in Up' : HasEntry(tab', u)
    BY <1>3, <1>4, <2>1, <2>3, <2>5 DEF Counted, HasEntry
  <2>11. LowReserved(tab')
    BY <2>3, <2>5 DEF Counted, LowReserved
  <2>12. BeginOn(e, c.dev)
    BY <2>1, <2>3 DEF BeginOn
  <2>13. QED
    BY <2>8, <2>9, <2>10, <2>11, <2>12
      DEF Counted, DevsApart, HasEntry, LowReserved, Entries
<1>11. CASE \A e \in Entries(tab) : e.dev # c.dev
  <2>1. NoEntry(tab, c.dev)
    BY <1>11 DEF NoEntry
  <2>2. BeginNew(c.dev, f)
    BY <1>1, <1>3, <1>5, <2>1, BeginNewEntry
  <2>3. PICK b \in BOOLEAN : /\ Extended(tab', tab, Line(c.dev, f, 1, b))
                             /\ Shapes(Line(c.dev, f, 1, FALSE), b)
    BY <2>2 DEF BeginNew
  <2>4. PICK g, h : g = Line(c.dev, f, 1, b) /\ h = Line(c.dev, f, 1, FALSE)
    OBVIOUS
  <2>5. /\ g.dev = c.dev /\ g.ifb = f /\ g.hit = 1 /\ g.init = b
        /\ Entries(tab') = Entries(tab) \cup {g}
        /\ Pair(h) = Pair(g) /\ ~h.init
    BY <2>3, <2>4 DEF Line, Extended, Pair
  <2>6. shaped \subseteq shaped' /\ (b \/ plan.reliable => Pair(g) \in shaped')
    BY <2>3, <2>4, <2>5, ShapesMore
  <2>7. UserNames(c.dev) = {}
    BY <1>11 DEF UserNames, Counted, HasEntry
  <2>8. EntryCounts(g)'
    <3>1. g.hit = Cardinality(UserNames(c.dev)')
      BY <1>6, <1>8, <2>5, <2>7, FS_EmptySet
    <3>2. QED
      BY <1>9, <2>5, <2>6, <3>1 DEF EntryCounts, Pair
  <2>9. \A x \in Entries(tab') : EntryCounts(x)'
    <3>1. ASSUME NEW x \in Entries(tab) PROVE EntryCounts(x)'
      <4>1. x.dev # c.dev /\ EntryCounts(x)
        BY <1>11 DEF Counted
      <4>2. QED
        BY <1>6, <2>6, <4>1, OtherCounts
    <3>2. QED
      BY <2>5, <2>8, <3>1
  <2>10. DevsApart(tab')
    BY <1>5, <1>11, <2>5 DEF DevsApart
  <2>11. \A u \in Up' : HasEntry(tab', u)
    BY <1>3, <1>4, <2>5 DEF Counted, HasEntry
  <2>12. LowReserved(tab')
    <3>1. \A x \in Mask(f) : x < IntBits - 1 => x = f
      BY <1>3, <2>2, MaskLow DEF BeginNew
    <3>2. QED
      BY <2>2, <2>5, <3>1 DEF Counted, LowReserved, Reserves, BeginNew
  <2>13. QED
    BY <1>1, <2>2, <2>9, <2>10, <2>11, <2>12
      DEF Counted, DevsApart, HasEntry, LowReserved, Entries
<1>12. QED
  BY <1>10, <1>11

LEMMA UsersEnd ==
    ASSUME IInv, Orderly, ListOK, NEW u \in Up, Up' = Up \ {u}
    PROVE  /\ UserNames(u.cfg.dev)' = UserNames(u.cfg.dev) \ {u.cfg.name}
           /\ \A d : d # u.cfg.dev => UserNames(d)' = UserNames(d)
           /\ u.cfg.name \in UserNames(u.cfg.dev)
<1>1. \A d, n : n \in UserNames(d)' <=> \E v \in Up' : v.cfg.dev = d /\ n = v.cfg.name
  BY DEF UserNames
<1>2. \A d, n : n \in UserNames(d) <=> \E v \in Up : v.cfg.dev = d /\ n = v.cfg.name
  BY DEF UserNames
<1>3. \A v \in Up : v.cfg.name = u.cfg.name => v = u
  BY UpParts
<1>4. \A n : n \in UserNames(u.cfg.dev)' <=>
                n \in UserNames(u.cfg.dev) /\ n # u.cfg.name
  BY <1>1, <1>2, <1>3
<1>5. \A d : d # u.cfg.dev => \A n : n \in UserNames(d)' <=> n \in UserNames(d)
  BY <1>1, <1>2
<1>6. u.cfg.name \in UserNames(u.cfg.dev)
  BY <1>2
<1>7. UserNames(u.cfg.dev)' = UserNames(u.cfg.dev) \ {u.cfg.name}
  BY <1>4
<1>8. ASSUME NEW d, d # u.cfg.dev PROVE UserNames(d)' = UserNames(d)
  <2>1. \A n : n \in UserNames(d)' <=> n \in UserNames(d)
    BY <1>5, <1>8
  <2>2. QED
    BY <2>1
<1>9. QED
  BY <1>6, <1>7, <1>8

(* What the end of a server does to the table.                             *)
EndOn(e) ==
    \/ /\ Swapped(tab', tab, e, Line(e.dev, e.ifb, e.hit - 1, e.init))
       /\ shaped' = shaped
    \/ /\ Entries(tab') = Entries(tab) \ {e}
       /\ e.init /\ plan.reliable /\ Pair(e) \in shaped => shaped' = shaped \ {Pair(e)}

LEMMA EndsCounted ==
    ASSUME IInv, Steady, ListOK, Counted, plan' = plan, NEW u \in Up, Ends(u)
    PROVE  Counted' /\ \E e \in Entries(tab) : EndOn(e)
<1>1. Up' = Up \ {u} /\ BandwidthCleanup(u)
  BY DEF Ends
<1>2. PICK e \in Entries(tab) : e.dev = u.cfg.dev /\ e.ifb = u.iface
  BY DEF Counted, HasEntry
<1>3. /\ TabOK(tab) /\ DevsApart(tab) /\ EntryCounts(e)
      /\ e.dev \in Devs /\ e.hit \in Nat \ {0}
      /\ \A f \in Entries(tab) : f.ifb = e.ifb => f = e
  BY EntryParts DEF IInv, Memory, Counted
<1>4. Exact(tab, u.cfg.dev)
  <2>1. u.cfg \in plan.configs
    BY UpParts DEF Steady
  <2>2. QED
    BY <1>2, <1>3, <2>1, ExactHere
<1>5. /\ UserNames(e.dev)' = UserNames(e.dev) \ {u.cfg.name}
      /\ \A d : d # e.dev => UserNames(d)' = UserNames(d)
      /\ u.cfg.name \in UserNames(e.dev)
  BY <1>1, <1>2, UsersEnd DEF Steady
<1>6. IsFiniteSet(UserNames(e.dev)) /\ Cardinality(UserNames(e.dev)) \in Nat
  BY UsersFinite, FS_CardinalityType
<1>7. Cardinality(UserNames(e.dev) \ {u.cfg.name}) = e.hit - 1
  <2>1. e.hit = Cardinality(UserNames(e.dev))
    BY <1>3 DEF EntryCounts
  <2>2. PICK S, n : S = UserNames(e.dev) /\ n = u.cfg.name
    OBVIOUS
  <2>3. Cardinality(S \ {n}) = IF n \in S THEN Cardinality(S) - 1 ELSE Cardinality(S)
    BY <1>6, <2>2, FS_RemoveElement
  <2>4. QED
    BY <1>5, <1>6, <2>1, <2>2, <2>3
<1>8. CASE e.hit > 1
  <2>1. PICK g : g = Line(e.dev, e.ifb, e.hit - 1, e.init)
    OBVIOUS
  <2>2. Swapped(tab', tab, e, g) /\ tab'.reserved = tab.reserved /\ shaped' = shaped
    BY <1>1, <1>2, <1>3, <1>4, <1>8, <2>1, EndOnEntry
  <2>3. /\ \A x : x \in Entries(tab') <=> x = g \/ (x \in Entries(tab) /\ x # e)
        /\ g.dev = e.dev /\ g.ifb = e.ifb /\ g.hit = e.hit - 1 /\ g.init = e.init
        /\ Pair(g) = Pair(e)
    BY <2>1, <2>2 DEF Swapped, Line, Pair
  <2>4. EntryCounts(g)'
    BY <1>3, <1>5, <1>7, <2>2, <2>3 DEF EntryCounts, Planned, Pair
  <2>5. \A x \in Entries(tab') : EntryCounts(x)'
    <3>1. ASSUME NEW x \in Entries(tab), x # e PROVE EntryCounts(x)'
      <4>1. x.dev # e.dev /\ EntryCounts(x)
        BY <1>3, <3>1 DEF Counted, DevsApart
      <4>2. QED
        BY <1>5, <2>2, <4>1, OtherCounts
    <3>2. QED
      BY <2>3, <2>4, <3>1
  <2>6. DevsApart(tab')
    BY <1>3, <2>3 DEF DevsApart
  <2>7. \A v \in Up' : HasEntry(tab', v)
    BY <1>1, <2>3 DEF Counted, HasEntry
  <2>8. LowReserved(tab')
    BY <2>2, <2>3 DEF Counted, LowReserved
  <2>9. EndOn(e)
    BY <2>1, <2>2 DEF EndOn
  <2>10. QED
    BY <2>5, <2>6, <2>7, <2>8, <2>9
      DEF Counted, DevsApart, HasEntry, LowReserved, Entries
<1>9. CASE e.hit <= 1
  <2>1. /\ Entries(tab') = Entries(tab) \ {e} /\ tab'.reserved = tab.reserved \ {e.ifb}
        /\ shaped' \in {shaped, shaped \ {Pair(e)}}
        /\ e.init /\ plan.reliable /\ Pair(e) \in shaped =>
               shaped' = shaped \ {Pair(e)}
    BY <1>1, <1>2, <1>3, <1>4, <1>9, EndOnEntry
  <2>2. \A x \in Entries(tab') : EntryCounts(x)'
    <3>1. ASSUME NEW x \in Entries(tab), x # e PROVE EntryCounts(x)'
      <4>1. x.dev # e.dev /\ EntryCounts(x) /\ Pair(x) # Pair(e)
        BY <1>3, <3>1 DEF Counted, DevsApart, Pair
      <4>2. QED
        BY <1>5, <2>1, <4>1, OtherCounts
    <3>2. QED
      BY <2>1, <3>1
  <2>3. DevsApart(tab')
    BY <1>3, <2>1 DEF DevsApart
  <2>4. UserNames(e.dev) \ {u.cfg.name} = {}
    <3>1. IsFiniteSet(UserNames(e.dev) \ {u.cfg.name})
      BY <1>6, FS_RemoveElement
    <3>2. Cardinality(UserNames(e.dev) \ {u.cfg.name}) = 0
      BY <1>3, <1>7, <1>9
    <3>3. QED
      BY <3>1, <3>2, FS_EmptySet
  <2>5. \A v \in Up' : v.cfg.dev # e.dev
    <3>1. \A v \in Up : v.cfg.dev = e.dev => v.cfg.name \in UserNames(e.dev)
      BY DEF UserNames
    <3>2. \A v \in Up : v.cfg.name = u.cfg.name => v = u
      BY UpParts DEF Steady
    <3>3. QED
      BY <1>1, <2>4, <3>1, <3>2
  <2>6. \A v \in Up' : HasEntry(tab', v)
    BY <1>1, <2>1, <2>5 DEF Counted, HasEntry
  <2>7. LowReserved(tab')
    BY <2>1 DEF Counted, LowReserved
  <2>8. EndOn(e)
    BY <2>1 DEF EndOn
  <2>9. QED
    BY <2>2, <2>3, <2>6, <2>7, <2>8
      DEF Counted, DevsApart, HasEntry, LowReserved, Entries
<1>10. QED
  BY <1>3, <1>8, <1>9

LEMMA CountedStep ==
    ASSUME IInv, Steady, ListOK, Counted, plan' = plan, UpStep PROVE Counted'
<1>1. CASE Quiet
  BY <1>1, QuietCounted
<1>2. CASE Over \/ \E u \in Up : CutShort(u)
  BY <1>2, NoneCounted DEF Over, CutShort
<1>3. ASSUME NEW c \in Config, BeginFails(c) \/ \E on \in SUBSET Clients : Begins(c, on)
      PROVE  Counted'
  BY <1>3, BeginsCounted, NoneCounted DEF BeginFails
<1>4. ASSUME NEW u \in Up, NEW c \in Config, GoesOn(u, c) \/ GoOnFails(u, c)
      PROVE  Counted'
  BY <1>4, GoesOnCounted, NoneCounted DEF GoOnFails
<1>5. ASSUME NEW u \in Up, Ends(u) PROVE Counted'
  BY <1>5, EndsCounted
<1>6. ASSUME NEW u \in Up, NEW c \in Clients, Joins(u, c) \/ Leaves(u, c)
      PROVE  Counted'
  BY <1>6, HasNowCounted DEF Joins, Leaves
<1>7. QED
  BY <1>1, <1>2, <1>3, <1>4, <1>5, <1>6 DEF UpStep

LEMMA SteadySame == ASSUME plan' = plan PROVE Steady' = Steady
BY OrderlySame DEF Steady, DevsKept, DevsDiffer

LEMMA CountedInvariant == Spec => []CountedInv
<1>1. Init => CountedInv
  <2> SUFFICES ASSUME Init PROVE Counted
    BY DEF CountedInv
  <2>1. tab.list = <<>> /\ tab.reserved = {} /\ DOMAIN list = {}
    BY DEF Init, NoInterfaces
  <2>2. Entries(tab) = {} /\ Up = {}
    BY <2>1 DEF Entries, Up
  <2>3. QED
    BY <2>1, <2>2 DEF Counted, DevsApart, LowReserved
<1>2. IInv /\ ListInv /\ Exited /\ CountedInv /\ [Next]_vars => CountedInv'
  <2> SUFFICES ASSUME IInv, ListInv, Exited, CountedInv, [Next]_vars, Steady'
               PROVE  Counted'
    BY DEF CountedInv
  <2>1. plan' = plan /\ Steady /\ Orderly
    BY PlanSame, SteadySame DEF Steady
  <2>2. QED
    BY <2>1, UpSteps, CountedStep DEF ListInv, CountedInv
<1>3. QED
  BY <1>1, <1>2, Invariant, ListInvariant, ExitedInvariant, PTL DEF Spec

(* As many users as names of users: the names differ.                      *)
LEMMA UsersAreNames ==
    ASSUME IInv, ListOK, at = "serve", NEW d
    PROVE  Cardinality(Users(d)) = Cardinality(UserNames(d))
<1> DEFINE f == [i \in Users(d) |-> list[i].cfg.name]
<1>1. \A i \in DOMAIN list : Core(list[i]) \in Up
  BY DEF ListOK, Fits, Up
<1>2. \A i \in DOMAIN list : Core(list[i]).cfg = list[i].cfg
  BY DEF Core
<1>3. IsFiniteSet(Users(d))
  <2>1. IsFiniteSet(DOMAIN list)
    BY ListParts, UpTo
  <2>2. Users(d) \subseteq DOMAIN list
    BY DEF Users
  <2>3. QED
    BY <2>1, <2>2, FS_Subset
<1>4. ASSUME NEW i \in Users(d) PROVE list[i].cfg.name \in UserNames(d)
  BY <1>1, <1>2 DEF Users, UserNames
<1>5. ASSUME NEW n \in UserNames(d) PROVE \E i \in Users(d) : n = list[i].cfg.name
  <2>1. PICK u \in Up : u.cfg.dev = d /\ n = u.cfg.name
    BY DEF UserNames
  <2>2. PICK i \in DOMAIN list : u = Core(list[i])
    BY DEF Up
  <2>3. QED
    BY <1>2, <2>1, <2>2 DEF Users
<1>6. \A i, j \in Users(d) : list[i].cfg.name = list[j].cfg.name => i = j
  BY DEF ListOK, NamesDiffer, Users
<1>7. f \in Surjection(Users(d), UserNames(d))
  BY <1>4, <1>5 DEF Surjection
<1>8. f \in Injection(Users(d), UserNames(d))
  BY <1>4, <1>6 DEF Injection, IsInjective
<1>9. QED
  BY <1>3, <1>7, <1>8, FS_Surjection

-----------------------------------------------------------------------------
(* No start, no reload and no end fails without a reason. *)

FewDevs == Cardinality({c.dev : c \in plan.configs}) < IntBits

(* An ifb device is left for an interface that is planned and has none.    *)
LEMMA IfbLeft ==
    ASSUME IInv, Steady, Complete, Counted, FewDevs, NEW c \in plan.configs,
           NoEntry(tab, c.dev)
    PROVE  ifb_interface_reserve(tab.reserved) # NoIfb
<1> DEFINE low == 0 .. IntBits - 2
           P == {x.dev : x \in plan.configs}
           Q == P \ {c.dev}
           f == [b \in low |-> (CHOOSE e \in Entries(tab) : e.ifb = b).dev]
<1>1. MaxIfb \in Nat /\ IntBits \in Nat /\ IntBits >= 1 /\ IntBits <= MaxIfb
  BY InterfacesAssumption
<1>2. IsFiniteSet(P) /\ c.dev \in P
  <2>1. P \subseteq Devs
    BY PlanConfig DEF Complete, Config
  <2>2. QED
    BY <2>1, InterfacesAssumption, FS_Subset
<1>3. IsFiniteSet(Q) /\ Cardinality(Q) = Cardinality(P) - 1 /\ Cardinality(P) \in Nat
  <2>1. PICK S, d : S = P /\ d = c.dev
    OBVIOUS
  <2> HIDE DEF P
  <2>2. QED
    BY <1>2, <2>1, FS_RemoveElement, FS_CardinalityType
<1>4. IsFiniteSet(low) /\ Cardinality(low) = IntBits - 1
  <2>1. 0 \in Int /\ IntBits - 2 \in Int /\ (0 > IntBits - 2 => IntBits - 1 = 0)
    BY <1>1
  <2>2. QED
    BY <1>1, <2>1, FS_Interval
<1>5. Cardinality(Q) < Cardinality(low)
  BY <1>1, <1>3, <1>4 DEF FewDevs
<1>6. ASSUME low \subseteq tab.reserved PROVE FALSE
  <2>1. ASSUME NEW b \in low
        PROVE  \E e \in Entries(tab) : e.ifb = b
    BY <1>1, <1>6 DEF Counted, LowReserved
  <2>2. ASSUME NEW b \in low
        PROVE  \E e \in Entries(tab) : e.ifb = b /\ f[b] = e.dev
    BY <2>1
  <2>3. \A e \in Entries(tab) : e.dev \in Q
    BY DEF Counted, EntryCounts, Planned, NoEntry
  <2>4. f \in [low -> Q]
    BY <2>1, <2>3
  <2> HIDE DEF f, Q, low
  <2>5. PICK x, y \in low : x # y /\ f[x] = f[y]
    BY <1>3, <1>4, <1>5, <2>4, FS_PigeonHole
  <2>6. QED
    BY <2>2, <2>5 DEF Counted, DevsApart
<1>7. PICK b \in low : b \notin tab.reserved
  BY <1>6
<1>8. b \in Ifbs /\ Mask(b) = {b}
  BY <1>1 DEF Ifbs, Mask
<1>9. b \in FreeIfbs(tab.reserved)
  BY <1>7, <1>8 DEF FreeIfbs
<1>10. Min(FreeIfbs(tab.reserved)) \in Ifbs
  <2>1. FreeIfbs(tab.reserved) \subseteq Nat /\ FreeIfbs(tab.reserved) \subseteq Ifbs
    BY <1>1 DEF FreeIfbs, Ifbs
  <2>2. QED
    BY <1>9, <2>1, MinExists
<1>11. QED
  BY <1>1, <1>9, <1>10 DEF ifb_interface_reserve, Ifbs, NoIfb

LEMMA InterfaceThere ==
    ASSUME IInv, Steady, Complete, Counted, FewDevs, NEW c \in plan.configs
    PROVE  InterfaceFor(c.dev) # NoIfb
<1>1. PICK d : d = c.dev
  OBVIOUS
<1>2. TabOK(tab) /\ DevsApart(tab) /\ Exact(tab, d) /\ d \in Devs
  BY <1>1, PlanConfig, ExactHere DEF IInv, Memory, Counted, Complete, Config
<1>3. <<d, d>> \in StartsWith
  BY <1>2, InterfacesAssumption
<1>4. PICK a : a = append_interface(tab, d)
  OBVIOUS
<1>5. TabOK(a)
  BY <1>2, <1>4, AppendOK
<1>6. Found(a.list, d) # {}
  <2>1. CASE NoEntry(tab, d)
    <3>1. PICK i : i = ifb_interface_reserve(tab.reserved)
      OBVIOUS
    <3>2. i # NoIfb
      BY <1>1, <2>1, <3>1, IfbLeft
    <3>3. PICK g : g = Line(d, i, 1, FALSE)
      OBVIOUS
    <3>4. Entries(a) = Entries(tab) \cup {g}
      BY <1>2, <1>4, <2>1, <3>1, <3>2, <3>3, AppendAdds, ZenonT(30)
    <3>5. g.dev = d
      BY <3>3 DEF Line
    <3>6. QED
      BY <1>3, <3>4, <3>5 DEF Entries, Found
  <2>2. CASE ~NoEntry(tab, d)
    <3>1. PICK e \in Entries(tab) : e.dev = d
      BY <2>2 DEF NoEntry
    <3>2. Found(tab.list, d) # {}
      BY <1>3, <3>1 DEF Entries, Found
    <3>3. tab.list \in Seq(Entry) /\ Found(tab.list, d) \subseteq DOMAIN tab.list
      BY <1>2 DEF TabOK, Table, Found
    <3>4. PICK m : m = Min(Found(tab.list, d))
      OBVIOUS
    <3>5. a = [tab EXCEPT !.list[m].hit = @ + 1]
      BY <1>2, <1>4, <3>2, <3>4 DEF append_interface
    <3>6. tab \in [list : Seq(Entry), reserved : SUBSET Ifbs]
      BY <1>2 DEF TabOK, Table
    <3>7. /\ DOMAIN a.list = DOMAIN tab.list
          /\ \A j \in DOMAIN tab.list : a.list[j].dev = tab.list[j].dev
      BY <3>3, <3>5, <3>6 DEF Entry
    <3>8. QED
      BY <3>2, <3>7 DEF Found
  <2>3. QED
    BY <2>1, <2>2
<1>7. \A m \in Found(a.list, d) : a.list[m].ifb # NoIfb
  BY <1>5, EntryParts DEF Entries, Found
<1>8. Found(a.list, d) \subseteq Nat
  BY <1>5 DEF TabOK, Table, Found
<1>9. Min(Found(a.list, d)) \in Found(a.list, d)
  BY <1>6, <1>8, MinExists
<1>10. QED
  BY <1>1, <1>4, <1>6, <1>7, <1>9 DEF InterfaceFor, get_interface

LEMMA FewThere ==
    ASSUME IInv, ~MayFail
    PROVE  FewDevs /\ Steady /\ Whole3 /\ Complete /\ Orderly /\ plan.reliable
<1>1. Complete /\ Steady /\ Orderly /\ plan.reliable
  BY DEF MayFail, Steady, Orderly
<1>2. {c.dev : c \in plan.configs} \subseteq Devs
  BY <1>1, PlanConfig DEF Complete, Config
<1>3. Cardinality({c.dev : c \in plan.configs}) \in Nat
  BY <1>2, InterfacesAssumption, FS_Subset, FS_CardinalityType
<1>4. IntBits \in Nat
  BY InterfacesAssumption
<1>5. FewDevs
  BY <1>3, <1>4 DEF MayFail, FewDevs
<1>6. QED
  BY <1>1, <1>5 DEF Whole3

LEMMA NoFailure ==
    ASSUME IInv, ListOK, Placed, Counted, ~MayFail, at # "failed", UpStep
    PROVE  at' # "failed"
<1>1. FewDevs /\ Steady /\ Whole3 /\ Complete /\ Orderly /\ plan.reliable
  BY FewThere
<1>2. ASSUME NEW c \in Config PROVE ~BeginFails(c)
  <2> SUFFICES ASSUME BeginFails(c) PROVE FALSE
    OBVIOUS
  <2>1. c \in plan.configs /\ c.name # NoName
    BY <1>1 DEF BeginFails, Fresh, Complete
  <2>2. InterfaceFor(c.dev) # NoIfb
    BY <1>1, <2>1, InterfaceThere
  <2>3. Walled(c) /\ runfiles = exist
    BY <2>1 DEF BeginFails, Placed
  <2>4. Made(c) \in Nets
    BY <1>1, <2>1, <2>3, WalledNets
  <2>5. QED
    BY <1>1, <2>1, <2>2, <2>4, VServersAssumption DEF BeginFails
<1>3. ASSUME NEW u \in Up, NEW c \in Config PROVE ~GoOnFails(u, c)
  <2> SUFFICES ASSUME SameServer(c, u.cfg) PROVE get_interface(tab, c.dev) # NoIfb
    BY DEF GoOnFails
  <2>1. c \in plan.configs /\ u.cfg \in plan.configs /\ c.dev \in Devs
    BY <1>1, UpParts DEF SameServer, Complete, Config
  <2>2. PICK d : d = c.dev
    OBVIOUS
  <2>3. u.cfg.dev = d
    BY <1>1, <2>1, <2>2 DEF SameServer, Steady, DevsKept
  <2>4. PICK e \in Entries(tab) : e.dev = d
    BY <2>3 DEF Counted, HasEntry
  <2>5. TabOK(tab) /\ DevsApart(tab) /\ Exact(tab, d)
    BY <1>1, <2>1, <2>2, ExactHere DEF IInv, Memory, Counted
  <2>6. get_interface(tab, d) = e.ifb /\ e.ifb # NoIfb
    BY <2>4, <2>5, GetEntry, EntryParts
  <2>7. QED
    BY <2>2, <2>6
<1>4. ASSUME NEW u \in Up PROVE ~CutShort(u)
  <2>1. u.cfg \in plan.configs
    BY <1>1, UpParts
  <2>2. u.sess \subseteq Inside(nets[u.cfg.name])
    BY <2>1, SessionsInside
  <2>3. QED
    BY <1>1, <2>2 DEF CutShort
<1>5. CASE Quiet \/ Over
  BY <1>5 DEF Quiet, Over
<1>6. QED
  BY <1>2, <1>3, <1>4, <1>5 DEF UpStep, Begins, GoesOn, Ends, Joins, Leaves, HasNow

(* A start, a reload or an end fails only for a reason among those listed. *)
THEOREM FailuresHaveReasons == Spec => []FailsForAReason
<1>1. Init => FailsForAReason
  BY DEF Init, FailsForAReason
<1>2. IInv /\ ListInv /\ Exited /\ PlacedInv /\ CountedInv /\ FailsForAReason
         /\ [Next]_vars => FailsForAReason'
  <2> SUFFICES ASSUME IInv, ListInv, Exited, PlacedInv, CountedInv, FailsForAReason,
                      [Next]_vars, ~FailsForAReason'
               PROVE  FALSE
    OBVIOUS
  <2>1. ~MayFail /\ at' = "failed"
    BY PlanSame, ReasonSame DEF FailsForAReason
  <2>2. Steady /\ Orderly /\ Whole3
    BY <2>1, FewThere
  <2>3. at # "failed"
    BY <2>1 DEF FailsForAReason
  <2>4. ListOK /\ Placed /\ Counted
    BY <2>2 DEF ListInv, PlacedInv, CountedInv
  <2>5. QED
    BY <2>1, <2>2, <2>3, <2>4, UpSteps, NoFailure
<1>3. QED
  BY <1>1, <1>2, Invariant, ListInvariant, ExitedInvariant, PlacedInvariant,
     CountedInvariant, PTL DEF Spec

-----------------------------------------------------------------------------
(* What there is when nothing was ever cut short. *)

Matches ==
    /\ \A n \in exist : \E u \in Up : u.cfg.name = n
    /\ \A u \in Up : nets[u.cfg.name] = u.cfg.net
    /\ \A e \in Entries(tab) : e.init
    /\ \A p \in shaped : \E e \in Entries(tab) : p = Pair(e)

Untouched == Undisturbed => Matches

(* A change of the table that keeps all started and shaped.                *)
LEMMA SwappedMatches ==
    ASSUME Matches, NEW e \in Entries(tab), NEW d, NEW h, NEW b,
           Swapped(tab', tab, e, Line(d, e.ifb, h, b)), d = e.dev,
           b = e.init, shaped' = shaped
    PROVE  /\ \A x \in Entries(tab') : x.init
           /\ \A p \in shaped' : \E x \in Entries(tab') : p = Pair(x)
<1>1. PICK g : g = Line(d, e.ifb, h, b)
  OBVIOUS
<1>2. /\ \A x : x \in Entries(tab') <=> x = g \/ (x \in Entries(tab) /\ x # e)
      /\ g.init = e.init /\ Pair(g) = Pair(e)
  BY <1>1 DEF Swapped, Line, Pair
<1>3. QED
  BY <1>2 DEF Matches

LEMMA StartedShapes ==
    ASSUME NEW e, e.init, NEW b, Shapes(e, b) PROVE b = e.init /\ shaped' = shaped
BY DEF Shapes

LEMMA BeginsMatches ==
    ASSUME IInv, Steady, Whole3, ListOK, Placed, Counted, Matches, plan.reliable,
           plan' = plan, NEW c \in Config, NEW on, Begins(c, on)
    PROVE  Matches'
<1>1. PICK new : new = [cfg |-> c, iface |-> InterfaceFor(c.dev), sess |-> on]
  OBVIOUS
<1>2. /\ c \in plan.configs /\ \A v \in Up : v.cfg.name # c.name
      /\ Up' = Up \cup {new} /\ Walled(c) /\ new.cfg = c /\ runfiles = exist
  BY <1>1 DEF Begins, Fresh, Placed
<1>3. /\ exist' = exist \cup {c.name} /\ c.name \notin exist
      /\ nets'[c.name] = c.net
      /\ \A n \in Names : n # c.name => nets'[n] = nets[n]
  <2>1. c.name \notin exist
    BY <1>2 DEF Matches
  <2>2. QED
    BY <1>2, <2>1, WalledNets DEF Whole3
<1>4. /\ \A n \in exist' : \E u \in Up' : u.cfg.name = n
      /\ \A u \in Up' : nets'[u.cfg.name] = u.cfg.net
  <2>1. \A u \in Up : u.cfg.name \in Names
    BY DEF Placed, InPlaces, exist
  <2>2. QED
    BY <1>2, <1>3, <2>1 DEF Matches
<1>5. CASE \E e \in Entries(tab) : BeginOn(e, c.dev)
  <2>1. PICK e \in Entries(tab) : BeginOn(e, c.dev)
    BY <1>5
  <2>2. PICK b \in BOOLEAN : /\ Swapped(tab', tab, e, Line(c.dev, e.ifb, e.hit + 1, b))
                             /\ Shapes(e, b) /\ e.dev = c.dev
    BY <2>1 DEF BeginOn
  <2>3. b = e.init /\ shaped' = shaped
    BY <2>1, <2>2, StartedShapes DEF Matches
  <2>4. /\ \A x \in Entries(tab') : x.init
        /\ \A p \in shaped' : \E x \in Entries(tab') : p = Pair(x)
    BY <2>2, <2>3, SwappedMatches
  <2>5. QED
    BY <1>4, <2>4 DEF Matches, Entries
<1>6. CASE BeginNew(c.dev, InterfaceFor(c.dev))
  <2>1. PICK f : f = InterfaceFor(c.dev)
    OBVIOUS
  <2>2. PICK b \in BOOLEAN : /\ Extended(tab', tab, Line(c.dev, f, 1, b))
                             /\ Shapes(Line(c.dev, f, 1, FALSE), b)
                             /\ NoEntry(tab, c.dev)
    BY <1>6, <2>1 DEF BeginNew
  <2>3. PICK g, h : g = Line(c.dev, f, 1, b) /\ h = Line(c.dev, f, 1, FALSE)
    OBVIOUS
  <2>4. /\ Entries(tab') = Entries(tab) \cup {g} /\ g.init = b
        /\ Pair(h) = Pair(g) /\ ~h.init /\ h.dev = c.dev
    BY <2>2, <2>3 DEF Line, Extended, Pair
  <2>5. Pair(h) \notin shaped
    <3>1. \A e \in Entries(tab) : Pair(e) # Pair(h)
      BY <2>2, <2>4 DEF NoEntry, Pair
    <3>2. QED
      BY <3>1 DEF Matches
  <2>6. b = TRUE /\ shaped' = shaped \cup {Pair(g)}
    BY <2>2, <2>3, <2>4, <2>5 DEF Shapes
  <2>7. /\ \A x \in Entries(tab') : x.init
        /\ \A p \in shaped' : \E x \in Entries(tab') : p = Pair(x)
    BY <2>4, <2>6 DEF Matches
  <2>8. QED
    BY <1>4, <2>7 DEF Matches, Entries
<1>7. QED
  BY <1>5, <1>6, BeginsCounted

LEMMA GoesOnMatches ==
    ASSUME IInv, Steady, Whole3, ListOK, Placed, Counted, Matches,
           plan' = plan, NEW u \in Up, NEW c \in Config, GoesOn(u, c)
    PROVE  Matches'
<1>1. PICK new : new = [cfg |-> c, iface |-> get_interface(tab, c.dev), sess |-> u.sess]
  OBVIOUS
<1>2. /\ c.name = u.cfg.name /\ c.net = u.cfg.net /\ new.cfg = c
      /\ Up' = (Up \ {u}) \cup {new} /\ nets' = nets /\ exist' = exist
  BY <1>1 DEF GoesOn, SameServer, kernel, exist
<1>3. /\ \A n \in exist' : \E v \in Up' : v.cfg.name = n
      /\ \A v \in Up' : nets'[v.cfg.name] = v.cfg.net
  BY <1>2 DEF Matches
<1>4. PICK e \in Entries(tab) :
          \E b \in BOOLEAN : /\ Swapped(tab', tab, e, Line(e.dev, e.ifb, e.hit, b))
                            /\ Shapes(e, b)
  BY GoesOnCounted
<1>5. PICK b \in BOOLEAN : /\ Swapped(tab', tab, e, Line(e.dev, e.ifb, e.hit, b))
                           /\ Shapes(e, b)
  BY <1>4
<1>6. b = e.init /\ shaped' = shaped
  BY <1>4, <1>5, StartedShapes DEF Matches
<1>7. /\ \A x \in Entries(tab') : x.init
      /\ \A p \in shaped' : \E x \in Entries(tab') : p = Pair(x)
  BY <1>5, <1>6, SwappedMatches
<1>8. QED
  BY <1>3, <1>7 DEF Matches, Entries

LEMMA EndsMatches ==
    ASSUME IInv, Steady, Whole3, ListOK, Placed, Counted, Matches, plan.reliable,
           plan' = plan, NEW u \in Up, Ends(u)
    PROVE  Matches'
<1>1. /\ Up' = Up \ {u} /\ Leftover(u) /\ InPlaces(u) /\ runfiles = exist
      /\ u.cfg.name \in Names
  BY DEF Ends, Placed, InPlaces, exist
<1>2. nets' = [nets EXCEPT ![u.cfg.name] = NoNet] /\ nets \in [Names -> Nets \cup {NoNet}]
  BY <1>1 DEF Leftover, InPlaces, IInv, Outside
<1>3. /\ \A n \in Names : n # u.cfg.name => nets'[n] = nets[n]
      /\ exist' = exist \ {u.cfg.name}
  BY <1>1, <1>2 DEF exist
<1>4. /\ \A n \in exist' : \E v \in Up' : v.cfg.name = n
      /\ \A v \in Up' : nets'[v.cfg.name] = v.cfg.net
  <2>1. \A v \in Up : v.cfg.name = u.cfg.name => v = u
    BY UpParts DEF Steady
  <2>2. \A v \in Up : v.cfg.name \in Names
    BY DEF Placed, InPlaces, exist
  <2>3. QED
    BY <1>1, <1>3, <2>1, <2>2 DEF Matches
<1>5. PICK e \in Entries(tab) : EndOn(e)
  BY EndsCounted
<1>6. CASE /\ Swapped(tab', tab, e, Line(e.dev, e.ifb, e.hit - 1, e.init))
           /\ shaped' = shaped
  <2>1. /\ \A x \in Entries(tab') : x.init
        /\ \A p \in shaped' : \E x \in Entries(tab') : p = Pair(x)
    BY <1>6, SwappedMatches
  <2>2. QED
    BY <1>4, <2>1 DEF Matches, Entries
<1>7. CASE /\ Entries(tab') = Entries(tab) \ {e}
           /\ e.init /\ plan.reliable /\ Pair(e) \in shaped =>
                  shaped' = shaped \ {Pair(e)}
  <2>1. shaped' = shaped \ {Pair(e)}
    BY <1>7 DEF Matches, Counted, EntryCounts
  <2>2. /\ \A x \in Entries(tab') : x.init
        /\ \A p \in shaped' : \E x \in Entries(tab') : p = Pair(x)
    BY <1>7, <2>1 DEF Matches
  <2>3. QED
    BY <1>4, <2>2 DEF Matches, Entries
<1>8. QED
  BY <1>5, <1>6, <1>7 DEF EndOn

LEMMA HasNowMatches ==
    ASSUME Matches, NEW u \in Up, NEW S, HasNow(u, S)
    PROVE  Matches'
<1>1. PICK new : new = [cfg |-> u.cfg, iface |-> u.iface, sess |-> S]
  OBVIOUS
<1>2. /\ Up' = (Up \ {u}) \cup {new} /\ new.cfg = u.cfg /\ exist' = exist
      /\ UNCHANGED <<tab, nets, shaped>>
  BY <1>1 DEF HasNow, exist
<1>3. QED
  BY <1>2 DEF Matches, Entries

LEMMA DownsStay == ASSUME IInv, [Next]_vars, downs' = 0 PROVE downs = 0
<1>1. downs' = downs \/ downs' = downs + 1
  BY DEF Next, vars, Daemon, register_vserver, ReadDone, ReloadUnmarked, ReloadNew,
       ReloadKept, ReloadReset, ReloadDone, CleanUnused, UnusedDone, InitOne,
       InitDone, ExitOne, ExitDone, Boot, Hangup, Terminate, Crash, PollingFails,
       Login, Stop, bounds
<1>2. downs \in Nat
  BY VServersAssumption DEF IInv, Bounds
<1>3. QED
  BY <1>1, <1>2

LEMMA UntouchedStep ==
    ASSUME IInv, ListOK, Placed, Counted, Matches, ~MayFail, plan' = plan,
           at' # "failed", downs' = 0, UpStep
    PROVE  Matches'
<1>1. FewDevs /\ Steady /\ Whole3 /\ Complete /\ Orderly /\ plan.reliable
  BY FewThere
<1>2. CASE Quiet
  BY <1>2 DEF Quiet, outside, kernel, Matches, exist, Entries
<1>3. ~Over /\ \A u : ~CutShort(u)
  BY DEF Over, CutShort
<1>4. ASSUME NEW c \in Config, BeginFails(c) \/ \E on \in SUBSET Clients : Begins(c, on)
      PROVE  Matches'
  BY <1>1, <1>4, BeginsMatches DEF BeginFails
<1>5. ASSUME NEW u \in Up, NEW c \in Config, GoesOn(u, c) \/ GoOnFails(u, c)
      PROVE  Matches'
  BY <1>1, <1>5, GoesOnMatches DEF GoOnFails
<1>6. ASSUME NEW u \in Up, Ends(u) PROVE Matches'
  BY <1>1, <1>6, EndsMatches
<1>7. ASSUME NEW u \in Up, NEW c \in Clients, Joins(u, c) \/ Leaves(u, c)
      PROVE  Matches'
  BY <1>7, HasNowMatches DEF Joins, Leaves
<1>8. QED
  BY <1>2, <1>3, <1>4, <1>5, <1>6, <1>7 DEF UpStep

LEMMA UntouchedInvariant == Spec => []Untouched
<1>1. Init => Untouched
  <2> SUFFICES ASSUME Init PROVE Matches
    BY DEF Untouched
  <2>1. tab.list = <<>> /\ DOMAIN list = {} /\ shaped = {} /\ exist = {}
    BY DEF Init, NoInterfaces, exist
  <2>2. Entries(tab) = {} /\ Up = {}
    BY <2>1 DEF Entries, Up
  <2>3. QED
    BY <2>1, <2>2 DEF Matches
<1>2. IInv /\ ListInv /\ Exited /\ PlacedInv /\ CountedInv /\ FailsForAReason
         /\ FailsForAReason' /\ Untouched /\ [Next]_vars => Untouched'
  <2> SUFFICES ASSUME IInv, ListInv, Exited, PlacedInv, CountedInv, FailsForAReason',
                      Untouched, [Next]_vars, Undisturbed'
               PROVE  Matches'
    BY DEF Untouched
  <2>1. plan' = plan /\ ~MayFail /\ downs = 0 /\ downs' = 0 /\ at' # "failed"
    BY PlanSame, ReasonSame, DownsStay DEF Undisturbed, FailsForAReason
  <2>2. Steady /\ Orderly /\ Whole3
    BY <2>1, FewThere
  <2>3. ListOK /\ Placed /\ Counted /\ Matches
    BY <2>1, <2>2 DEF ListInv, PlacedInv, CountedInv, Untouched, Undisturbed
  <2>4. QED
    BY <2>1, <2>2, <2>3, UpSteps, UntouchedStep
<1>3. QED
  BY <1>1, <1>2, Invariant, ListInvariant, ExitedInvariant, PlacedInvariant,
     CountedInvariant, FailuresHaveReasons, PTL DEF Spec

(* What is served has its rules and its set, which lets through exactly    *)
(* the sessions in its network, and dbset knows exactly those there are;   *)
(* and the network is the file's where no process was cut short.           *)
THEOREM SessionsAreInPlace == Spec => []ServedInThreePlaces
<1>1. IInv /\ ListInv /\ PlacedInv /\ Untouched => ServedInThreePlaces
  <2> SUFFICES ASSUME IInv, ListOK, Placed, Untouched, at = "serve",
                      NEW i \in DOMAIN list
               PROVE  LET n == list[i].cfg.name IN
                      /\ list[i].map
                      /\ n \in runfiles \cap exist
                      /\ sets[n] = list[i].sess \cap Inside(nets[n])
                      /\ plan.reliable => RowsOf(list[i].cfg.id) = list[i].sess
                      /\ Undisturbed => nets[n] = list[i].cfg.net
    BY DEF ServedInThreePlaces, ListInv, PlacedInv, Whole3, Orderly
  <2>1. list[i].map
    BY DEF ListOK, Fits
  <2>2. Core(list[i]) \in Up
    BY <2>1 DEF Up
  <2>3. Core(list[i]).cfg = list[i].cfg /\ Core(list[i]).sess = list[i].sess
    BY DEF Core
  <2>4. InPlaces(Core(list[i])) /\ runfiles = exist
    BY <2>2 DEF Placed
  <2>5. Undisturbed => nets[list[i].cfg.name] = list[i].cfg.net
    BY <2>2, <2>3 DEF Untouched, Matches
  <2>6. QED
    BY <2>1, <2>3, <2>4, <2>5 DEF InPlaces
<1>2. QED
  BY <1>1, Invariant, ListInvariant, PlacedInvariant, UntouchedInvariant, PTL

(* Every virtual server served has its interface's entry, which counts the *)
(* servers that use it, and what is marked as started is shaped.           *)
THEOREM InterfacesAreCounted == Spec => []InterfacesCounted
<1>1. IInv /\ ListInv /\ CountedInv /\ Untouched => InterfacesCounted
  <2> SUFFICES ASSUME IInv, ListOK, Counted, Untouched, at = "serve"
               PROVE  /\ \A i \in DOMAIN list : \E j \in DOMAIN tab.list :
                            /\ tab.list[j].ifb = list[i].iface
                            /\ tab.list[j].dev = list[i].cfg.dev
                      /\ \A j \in DOMAIN tab.list :
                            /\ tab.list[j].hit = Cardinality(Users(tab.list[j].dev))
                            /\ plan.reliable \/ tab.list[j].init =>
                                   <<tab.list[j].dev, tab.list[j].ifb>> \in shaped
                            /\ Undisturbed => tab.list[j].init
                      /\ Undisturbed => shaped = InTable
    BY DEF InterfacesCounted, ListInv, CountedInv, Steady, Orderly
  <2>1. ASSUME NEW i \in DOMAIN list
        PROVE  \E j \in DOMAIN tab.list : /\ tab.list[j].ifb = list[i].iface
                                         /\ tab.list[j].dev = list[i].cfg.dev
    <3>1. Core(list[i]) \in Up
      BY DEF ListOK, Fits, Up
    <3>2. Core(list[i]).cfg = list[i].cfg /\ Core(list[i]).iface = list[i].iface
      BY DEF Core
    <3>3. PICK e \in Entries(tab) : e.dev = list[i].cfg.dev /\ e.ifb = list[i].iface
      BY <3>1, <3>2 DEF Counted, HasEntry
    <3>4. QED
      BY <3>3 DEF Entries
  <2>2. ASSUME NEW j \in DOMAIN tab.list
        PROVE  /\ tab.list[j].hit = Cardinality(Users(tab.list[j].dev))
               /\ plan.reliable \/ tab.list[j].init =>
                      <<tab.list[j].dev, tab.list[j].ifb>> \in shaped
               /\ Undisturbed => tab.list[j].init
    <3>1. EntryCounts(tab.list[j]) /\ tab.list[j] \in Entries(tab)
      BY DEF Counted, Entries
    <3>2. QED
      BY <3>1, UsersAreNames DEF EntryCounts, Pair, Untouched, Matches
  <2>3. ASSUME Undisturbed PROVE shaped = InTable
    <3>1. \A p \in shaped : \E e \in Entries(tab) : p = Pair(e)
      BY <2>3 DEF Untouched, Matches
    <3>2. \A e \in Entries(tab) : Pair(e) \in shaped
      BY <2>3 DEF Counted, EntryCounts, Undisturbed, MayFail
    <3>3. InTable = {Pair(e) : e \in Entries(tab)}
      BY DEF InTable, Entries, Pair
    <3>4. QED
      BY <3>1, <3>2, <3>3
  <2>4. QED
    BY <2>1, <2>2, <2>3
<1>2. QED
  BY <1>1, Invariant, ListInvariant, CountedInvariant, UntouchedInvariant, PTL

-----------------------------------------------------------------------------
(* What a reload does to the sessions, and what it leaves. *)

InReload == at \in Reloading /\ at' \in Reloading \cup {"serve"} /\ Moves

(* The steps of a reload that keep every server in service: what becomes   *)
(* of each has its name, and its sessions at least.                        *)
Continues ==
    \A u \in Up : \E v \in Up' : v.cfg.name = u.cfg.name /\ u.sess \subseteq v.sess

LEMMA ContinuesKeeps ==
    ASSUME IInv, Orderly, ListOK, Continues, NEW n
    PROVE  SessionsOf(list, n) \subseteq SessionsOf(list', n)
<1> SUFFICES ASSUME NEW c \in SessionsOf(list, n) PROVE c \in SessionsOf(list', n)
  OBVIOUS
<1>1. PICK i \in DOMAIN list : list[i].cfg.name = n /\ c \in list[i].sess
  BY DEF SessionsOf
<1>2. list[i].map
  BY <1>1 DEF ListOK, Marks
<1>3. Core(list[i]) \in Up
  BY <1>2 DEF Up
<1>4. PICK v \in Up' : /\ v.cfg.name = Core(list[i]).cfg.name
                       /\ Core(list[i]).sess \subseteq v.sess
  BY <1>3 DEF Continues
<1>5. v.cfg.name = n /\ c \in v.sess
  BY <1>1, <1>4 DEF Core
<1>6. PICK j \in DOMAIN list' : v = Core(list'[j])
  BY DEF Up
<1>7. list'[j].cfg.name = n /\ c \in list'[j].sess
  BY <1>5, <1>6 DEF Core
<1>8. QED
  BY <1>7 DEF SessionsOf

(* The sessions of one server end, those of the others go on.              *)
LEMMA OneEnds ==
    ASSUME IInv, Orderly, ListOK, NEW i \in DOMAIN list, Up' = Up \ {Core(list[i])},
           \A c \in Wanted : c.name = list[i].cfg.name => c.net # list[i].cfg.net,
           NEW m \in DOMAIN list
    PROVE  KeepsSessions(list[m])
<1>1. CASE m = i
  BY <1>1 DEF KeepsSessions
<1>2. CASE m # i
  <2>1. PICK n : n = list[m].cfg.name
    OBVIOUS
  <2>2. n # list[i].cfg.name
    BY <1>2, <2>1 DEF ListOK, NamesDiffer
  <2>3. ASSUME NEW c \in SessionsOf(list, n) PROVE c \in SessionsOf(list', n)
    <3>1. PICK j \in DOMAIN list : list[j].cfg.name = n /\ c \in list[j].sess
      BY DEF SessionsOf
    <3>2. list[j].map
      BY <3>1 DEF ListOK, Marks
    <3>3. Core(list[j]) \in Up
      BY <3>2 DEF Up
    <3>4. Core(list[j]).cfg = list[j].cfg /\ Core(list[i]).cfg = list[i].cfg
      BY DEF Core
    <3>5. Core(list[j]) \in Up'
      BY <2>2, <3>1, <3>3, <3>4
    <3>6. PICK l \in DOMAIN list' : Core(list[j]) = Core(list'[l])
      BY <3>5 DEF Up
    <3>7. list'[l].cfg.name = n /\ c \in list'[l].sess
      BY <3>1, <3>6 DEF Core
    <3>8. QED
      BY <3>7 DEF SessionsOf
  <2>4. QED
    BY <2>1, <2>3 DEF KeepsSessions
<1>3. QED
  BY <1>1, <1>2

(* The settings the readable files have for a name are one.                *)
LEMMA OneWanted ==
    ASSUME Orderly, ListOK, NEW j \in DOMAIN files, files[j].readable,
           NEW c \in Wanted, c.name = files[j].config.name
    PROVE  c = files[j].config
<1>1. PICK m \in DOMAIN files : files[m].readable /\ c = files[m].config
  BY DEF Wanted
<1>2. m = j
  BY <1>1 DEF ListOK, FromPlan, Directory, Orderly
<1>3. QED
  BY <1>1, <1>2

LEMMA ResetHasReason ==
    ASSUME IInv, Orderly, ListOK, ReloadReset, at' # "failed"
    PROVE  \E i \in DOMAIN list :
              /\ Up' = Up \ {Core(list[i])}
              /\ \A c \in Wanted : c.name = list[i].cfg.name => c.net # list[i].cfg.net
<1>1. PICK i \in DOMAIN list :
          i = k /\ at = "reload" /\ list[i].flag = "RESET" /\ list[i] \in Server
  BY AtElement DEF ReloadReset, At
<1>2. list[i].map
  BY <1>1 DEF ListOK, Fits, Reloading
<1>3. PICK e : e = WasReset(list[i])
  OBVIOUS
<1>4. list' = [list EXCEPT ![i] = e] /\ e.map = FALSE
  <2>1. ~CleanupFails(list[k])
    BY DEF CleanupFails, Die, GoTo
  <2>2. QED
    BY <1>1, <1>2, <1>3, <2>1, WasResetParts DEF ReloadReset, Replaced, WasReset
<1>5. Up' = Up \ {Core(list[i])}
  BY <1>2, <1>4, UpChanged
<1>6. Marks(list[i]) /\ Named /\ Meant(i)
  <2>1. i \in Nat
    BY <1>1, ListParts
  <2>2. QED
    BY <1>1, <2>1 DEF ListOK, Meant
<1>7. PICK j \in DOMAIN files : files[j].readable /\ files[j].config = list[i].dummy
  BY <1>6 DEF Named, HasRead
<1>8. list[i].dummy.name = list[i].cfg.name /\ list[i].dummy.net # list[i].cfg.net
  BY <1>1, <1>6 DEF Marks
<1>9. QED
  BY <1>5, <1>7, <1>8, OneWanted

LEMMA UnusedHasReason ==
    ASSUME IInv, Orderly, ListOK, at = "unused", NEW i \in DOMAIN list,
           list[i].flag = "NONE", NEW c \in Wanted
    PROVE  c.name # list[i].cfg.name
<1>1. PICK j \in DOMAIN files : files[j].readable /\ c = files[j].config
  BY DEF Wanted
<1>2. HasRead(j) /\ Named
  BY <1>1 DEF HasRead, ListOK
<1>3. PICK m \in DOMAIN list : Meant(m) /\ list[m].dummy = c
  BY <1>1, <1>2 DEF Named
<1>4. list[m].flag # "NONE" /\ list[m].cfg.name = c.name
  BY <1>3 DEF Meant, ListOK, Marks
<1>5. QED
  BY <1>4 DEF ListOK, NamesDiffer

LEMMA StopStays == ASSUME IInv, NEW i \in DOMAIN list, NEW c, Stop(i, c) PROVE ~Moves
<1>1. /\ at' = at /\ k' = k /\ list' = [list EXCEPT ![i].sess = list[i].sess \ {c}]
      /\ list \in Seq(Server)
  BY DEF Stop, IInv, Memory
<1>2. PICK e : e = [list[i] EXCEPT !.sess = list[i].sess \ {c}]
  OBVIOUS
<1>3. e.flag = list[i].flag /\ list' = [list EXCEPT ![i] = e]
  BY <1>1, <1>2 DEF Server
<1>4. Len(list') = Len(list) /\ \A j \in DOMAIN list : list'[j].flag = list[j].flag
  BY <1>1, <1>3
<1>5. QED
  BY <1>1, <1>4 DEF Moves

LEMMA QuietContinues == ASSUME Quiet PROVE Continues
BY DEF Quiet, Continues

LEMMA BeginsContinues == ASSUME NEW c, NEW on, Begins(c, on) PROVE Continues
BY DEF Begins, Continues

LEMMA GoesOnContinues == ASSUME NEW u, NEW c, GoesOn(u, c) PROVE Continues
<1>1. PICK new : new = [cfg |-> c, iface |-> get_interface(tab, c.dev), sess |-> u.sess]
  OBVIOUS
<1>2. Up' = (Up \ {u}) \cup {new} /\ c.name = u.cfg.name
  BY <1>1 DEF GoesOn, SameServer
<1>3. new.cfg = c /\ new.sess = u.sess
  BY <1>1
<1>4. QED
  BY <1>2, <1>3 DEF Continues

(* A reload ends sessions only of servers that no readable file names with *)
(* the clients they have.                                                  *)
LEMMA ReloadKeeps ==
    ASSUME IInv, Orderly, ListOK, Next, InReload, NEW m \in DOMAIN list
    PROVE  KeepsSessions(list[m])
<1>1. at' # "failed" /\ at' # "down" /\ at \in Reloading
  BY DEF InReload, Reloading
<1>2. CASE ReloadReset
  BY <1>1, <1>2, ResetHasReason, OneEnds
<1>3. CASE CleanUnused
  <2>1. ~Die("failed")
    BY <1>1 DEF Die, GoTo
  <2>2. PICK i \in DOMAIN list : list[i].flag = "NONE" /\ Cut(i)
    BY <1>3, <2>1, UnusedCut
  <2>3. at = "unused" /\ list[i].map
    BY <1>3, <2>2 DEF CleanUnused, ListOK, Fits, Reloading
  <2>4. Up' = Up \ {Core(list[i])}
    BY <2>2, <2>3, UpCut
  <2>5. \A c \in Wanted : c.name # list[i].cfg.name
    BY <2>2, <2>3, UnusedHasReason
  <2>6. QED
    BY <2>4, <2>5, OneEnds
<1>4. CASE Continues
  BY <1>4, ContinuesKeeps DEF KeepsSessions
<1>5. CASE ReadDone
  <2>1. list' = list
    BY <1>1, <1>5 DEF ReadDone, Die, GoTo, memory
  <2>2. QED
    BY <2>1 DEF KeepsSessions
<1>6. CASE register_vserver \/ ReloadUnmarked \/ ReloadDone \/ UnusedDone
  <2>1. ~Die("failed")
    BY <1>1 DEF Die, GoTo
  <2>2. QED
    BY <1>4, <1>6, <2>1, RegisterUp, ReloadUnmarkedUp, QuietPhases, QuietContinues
<1>7. CASE ReloadNew
  BY <1>1, <1>4, <1>7, ReloadNewUp, BeginsContinues DEF Starting, BeginFails
<1>8. CASE ReloadKept
  BY <1>1, <1>4, <1>8, ReloadKeptUp, GoesOnContinues DEF GoOnFails
<1>9. ~(InitOne \/ InitDone \/ ExitOne \/ ExitDone \/ Terminate \/ Crash
         \/ PollingFails)
  BY <1>1 DEF InitOne, InitDone, ExitOne, ExitDone, Terminate, Crash, PollingFails, At,
              Reloading, Die, GoTo
<1>10. /\ \A dir : ~Boot(dir) /\ ~Hangup(dir)
       /\ \A id, c : ~Login(id, c)
  BY <1>1 DEF Boot, Hangup, Login, Reloading
<1>11. \A c : \A i \in DOMAIN list : ~Stop(i, c)
  BY StopStays DEF InReload
<1>12. QED
  BY <1>2, <1>3, <1>5, <1>6, <1>7, <1>8, <1>9, <1>10, <1>11 DEF Next, Daemon

(* No step of vserver_reload or vserver_unused_cleanup takes a session     *)
(* from a virtual server whose file is there with the same clients.        *)
THEOREM ReloadsKeepSessions == Spec => ReloadKeepsSessions
<1>1. IInv /\ ListInv /\ [Next]_vars =>
         [ReloadStep => \A i \in DOMAIN list : KeepsSessions(list[i])]_vars
  <2> SUFFICES ASSUME IInv, ListInv, Next, ReloadStep, NEW i \in DOMAIN list
               PROVE  KeepsSessions(list[i])
    OBVIOUS
  <2>1. Orderly /\ InReload
    BY DEF ReloadStep, Orderly, InReload
  <2>2. QED
    BY <2>1, ReloadKeeps DEF ListInv
<1>2. QED
  BY <1>1, Invariant, ListInvariant, PTL DEF Spec, ReloadKeepsSessions

(* What a reload takes off the list leaves no rules and no set, and of the *)
(* rows of its sessions what it could not read.                            *)
LEMMA CutLeavesNothing ==
    ASSUME IInv, Whole3, ListOK, Placed, NEW i \in DOMAIN list, list[i].map,
           NEW walked \in BOOLEAN, rh_task_cleanup(list[i], walked)
    PROVE  LeavesNothing(list[i])
<1>1. Core(list[i]) \in Up
  BY DEF Up
<1>2. PICK c : c = list[i].cfg
  OBVIOUS
<1>3. Core(list[i]).cfg = c /\ Core(list[i]).sess = list[i].sess
  BY <1>2 DEF Core
<1>4. /\ c.name \in exist /\ runfiles = exist /\ c.name \in Names
      /\ plan.reliable => RowsFit(c)
  <2>1. c \in plan.configs
    BY <1>2 DEF ListOK, FromPlan
  <2>2. QED
    BY <1>1, <1>3, <2>1 DEF Placed, InPlaces, exist
<1>5. /\ c.name \in exist /\ plan.reliable => walked
      /\ rows' \in IF walked THEN RowsLeft(c, list[i].sess) ELSE {rows}
      /\ nets' = [nets EXCEPT ![c.name] = NoNet]
      /\ runfiles' = runfiles \ {c.name}
      /\ nets \in [Names -> Nets \cup {NoNet}]
  BY <1>2, <1>4 DEF rh_task_cleanup, IInv, Outside
<1>6. c.name \notin runfiles' \cup exist'
  BY <1>4, <1>5 DEF exist
<1>7. PICK S : S = list[i].sess
  OBVIOUS
<1>8. ASSUME plan.reliable PROVE ({c.id} \X S) \cap rows' = {}
  <2>1. rows' = rows \ ({c.id} \X S)
    BY <1>4, <1>5, <1>7, <1>8, RowsLeftFit DEF RowsFit
  <2>2. QED
    BY <2>1
<1>9. ({c.id} \X (S \cap Inside(nets[c.name]))) \cap rows' = {} \/ rows' = rows
  <2>1. CASE ~walked
    BY <1>5, <2>1
  <2>2. CASE walked
    <3>1. rows' \in RowsLeft(c, S)
      BY <1>5, <1>7, <2>2
    <3>2. \E any : /\ rows' = rows \ ({c.id} \X any)
                   /\ S \cap Inside(nets[c.name]) \subseteq any
      BY <3>1 DEF RowsLeft
    <3>3. QED
      BY <3>2
  <2>3. QED
    BY <2>1, <2>2
<1>10. QED
  BY <1>2, <1>6, <1>7, <1>8, <1>9 DEF LeavesNothing

LEMMA RemovedLeaves ==
    ASSUME IInv, Whole3, ListOK, Placed, Next, InReload, at = "unused",
           NEW m \in DOMAIN list
    PROVE  list[m].cfg \in Serving' \/ LeavesNothing(list[m])
<1>1. at' # "failed" /\ at' # "down"
  BY DEF InReload, Reloading
<1>2. CASE CleanUnused
  <2>1. ~Die("failed")
    BY <1>1 DEF Die, GoTo
  <2>2. PICK i \in DOMAIN list :
            /\ list[i].flag = "NONE" /\ Cut(i)
            /\ \E walked \in BOOLEAN : rh_task_cleanup(list[i], walked)
    BY <1>2, <2>1, UnusedCut DEF Whole3
  <2>3. list[i].map
    BY <2>2 DEF ListOK, Fits, Reloading
  <2>4. CASE m = i
    BY <2>2, <2>3, <2>4, CutLeavesNothing
  <2>5. CASE m # i
    <3>1. PICK j \in DOMAIN list' : list'[j] = list[m]
      BY <2>2, <2>5, CutOthers
    <3>2. QED
      BY <3>1 DEF Serving
  <2>6. QED
    BY <2>4, <2>5
<1>3. CASE UnusedDone
  BY <1>3 DEF UnusedDone, memory, Serving
<1>4. ~(\/ register_vserver \/ ReadDone \/ ReloadUnmarked \/ ReloadNew \/ ReloadKept
        \/ ReloadReset \/ ReloadDone \/ InitOne \/ InitDone \/ ExitOne \/ ExitDone
        \/ Terminate \/ Crash \/ PollingFails)
  BY <1>1 DEF register_vserver, ReadDone, ReloadUnmarked, ReloadNew, ReloadKept,
              ReloadReset, ReloadDone, InitOne, InitDone, ExitOne, ExitDone, Terminate,
              Crash, PollingFails, At, Die, GoTo
<1>5. /\ \A dir : ~Boot(dir) /\ ~Hangup(dir)
      /\ \A id, c : ~Login(id, c)
  BY DEF Boot, Hangup, Login
<1>6. \A c : \A i \in DOMAIN list : ~Stop(i, c)
  BY StopStays DEF InReload
<1>7. QED
  BY <1>2, <1>3, <1>4, <1>5, <1>6 DEF Next, Daemon

(* A virtual server that vserver_unused_cleanup takes off the list leaves  *)
(* no rules, no set and no row of its sessions, if its set could be read.  *)
THEOREM WhatIsRemovedLeavesNothing == Spec => RemovedLeaveNothing
<1>1. IInv /\ ListInv /\ PlacedInv /\ [Next]_vars =>
         [ReloadStep /\ Complete /\ at = "unused" =>
             \A i \in DOMAIN list :
                 list[i].cfg \in Serving' \/ LeavesNothing(list[i])]_vars
  <2> SUFFICES ASSUME IInv, ListInv, PlacedInv, Next, ReloadStep, Complete,
                      at = "unused", NEW i \in DOMAIN list
               PROVE  list[i].cfg \in Serving' \/ LeavesNothing(list[i])
    OBVIOUS
  <2>1. Whole3 /\ Orderly /\ InReload
    BY DEF ReloadStep, Whole3, Orderly, InReload
  <2>2. QED
    BY <2>1, RemovedLeaves DEF ListInv, PlacedInv
<1>2. QED
  BY <1>1, Invariant, ListInvariant, PlacedInvariant, PTL DEF Spec, RemovedLeaveNothing
===============================================================================
