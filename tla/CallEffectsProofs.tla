-------------------------- MODULE CallEffectsProofs --------------------------
(***************************************************************************)
(* Theorems about what the calls of VCManager bring about.                 *)
(*                                                                         *)
(* First Propagation, for any sets of leaves, servers and virtual clusters,*)
(* any trees to start from and any number of calls.                        *)
(*                                                                         *)
(* Then PortControl, for any configuration, cabling and numbering of the   *)
(* ports.  Neither of the two parts uses the other one.                    *)
(***************************************************************************)
EXTENDS Propagation, PortControl, VCManagerProofs, SequenceLemmas

(* The spine controller's books, with what VCManagerProofs proves of them. *)
S == INSTANCE VCManagerProofs WITH
  spineOf <- sSpineOf, leafOf <- sLeafOf, vcs <- sVcs,
  serverVCs <- sServerVCs, leafVCs <- sLeafVCs

-----------------------------------------------------------------------------
(* Types: the packets of a channel are of its kind and name what exists.   *)

TypesOf(k) == IF k = "vc" THEN {"addVC", "removeVC"} ELSE {k}
NodesOf(k) ==
  IF k \in LeafKinds THEN Leaves ELSE IF k = "vc" THEN VCIds ELSE Servers
PacketsOf(k) == {m \in Packets : m.type \in TypesOf(k) /\ m.node \in NodesOf(k)}
ToSpine(k) == {m \in PacketsOf(k) : k = "newServer" => m.leaf \in Leaves}
ToLeaf(k) == {m \in PacketsOf(k) : k \in {"newServer", "failedServer"} => m.leaf \in Leaves}

QueuesTypeOK ==
  /\ gone \in SUBSET Leaves
  /\ chan \in [Kinds -> Seq(Packets)] /\ \A k \in Kinds : chan[k] \in Seq(ToSpine(k))
  /\ eg \in [Kinds -> Seq(Packets)] /\ \A k \in Kinds : eg[k] \in Seq(ToLeaf(k))
  /\ bcast \in PacketsOf("vc") \cup {None}
  /\ mgr \in [LeafKinds -> Seq(Leaves)]
  /\ mgrUp \in BOOLEAN

LeavesTypeOK ==
  /\ ctrl \in [Leaves -> {"down", "fetching", "listening", "up"}]
  /\ lServers \in [Leaves -> SUBSET Servers]
  /\ lVCs \in [Leaves -> [VCIds -> (SUBSET Servers) \cup {None}]]

\* what the handler that put a message did still holds when it is sent
ToldIsFresh ==
  told # None => /\ told.type = "newServer" => leafOf[told.node] # None
                 /\ told.type = "addVC" => vcs[told.node] # None

(* The books of both controllers are consistent whatever the channels do.  *)
BooksInv ==
  /\ BooksOK /\ told \in Msg \cup {None} /\ ToldIsFresh
  /\ S!BooksOK
  /\ QueuesTypeOK /\ LeavesTypeOK

-----------------------------------------------------------------------------
(* A leaf controller that is not up has no virtual clusters.               *)
LeafInv ==
  /\ LeafVCsOfServers
  /\ \A l \in Leaves : ctrl[l] \in {"down", "fetching"} => lVCs[l] = NoVCs

(* A client that does not wait: the message that starts the controller of  *)
(* a leaf is in one place at most, and finds no controller.                *)
HasBeen(l) == spineOf[l] # None \/ l \in gone

Told(l) == told # None /\ told.type = "newLeaf" /\ told.node = l
Has(queue, l) == \E i \in 1 .. Len(queue) : queue[i].node = l
InChan(l) == Has(chan["newLeaf"], l)
InEg(l) == Has(eg["newLeaf"], l)
Names(queue, l) == \E i \in 1 .. Len(queue) : queue[i] = l
InMgr(l) == Names(mgr["newLeaf"], l)
Waits(l) == Told(l) \/ InChan(l) \/ InEg(l) \/ InMgr(l)

Once(queue) == \A i, j \in 1 .. Len(queue) : queue[i].node = queue[j].node => i = j
NamesOnce(queue) == \A i, j \in 1 .. Len(queue) : queue[i] = queue[j] => i = j

StartsOnce ==
  /\ \A l \in Leaves : Waits(l) => HasBeen(l) /\ ctrl[l] = "down"
  /\ \A l \in Leaves : ~HasBeen(l) => ctrl[l] = "down"
  /\ \A l \in Leaves : /\ ~(Told(l) /\ (InChan(l) \/ InEg(l) \/ InMgr(l)))
                       /\ ~(InChan(l) /\ (InEg(l) \/ InMgr(l)))
                       /\ ~(InEg(l) /\ InMgr(l))
  /\ Once(chan["newLeaf"]) /\ Once(eg["newLeaf"]) /\ NamesOnce(mgr["newLeaf"])

-----------------------------------------------------------------------------
(* A client that waits: at most one message is under way, and the state of *)
(* everything it has not reached yet is the one before the call.           *)

SameBooks ==
  /\ spineOf = sSpineOf /\ leafOf = sLeafOf
  /\ vcs = sVcs /\ serverVCs = sServerVCs /\ leafVCs = sLeafVCs

Only(k, m) == [j \in Kinds |-> IF j = k THEN <<m>> ELSE <<>>]

(* The central controller has handled the call of message m, the spine has *)
(* not: what the handler computes, read from the spine's books.            *)
AheadNewLeaf(l) ==
  /\ sSpineOf[l] = None
  /\ spineOf = [sSpineOf EXCEPT ![l] = TheSpine] /\ leafOf = sLeafOf
  /\ vcs = sVcs /\ serverVCs = sServerVCs /\ leafVCs = sLeafVCs

VCAfterLeaf(v, l) ==
  IF v \in S!EmptiedByLeaf(l) THEN None
  ELSE IF v \in sLeafVCs[l]
       THEN [sVcs[v] EXCEPT !.servers = @ \ S!LostWithLeaf(v, l), !.leaves = @ \ {l}]
       ELSE sVcs[v]
LeafVCsAfterLeaf(o, l) ==
  IF o = l THEN {} ELSE sLeafVCs[o] \ {v \in S!EmptiedByLeaf(l) : o \in sVcs[v].leaves}

AheadFailedLeaf(l) ==
  /\ sSpineOf[l] # None
  /\ spineOf = [sSpineOf EXCEPT ![l] = None]
  /\ \A s \in Servers : leafOf[s] = IF sLeafOf[s] = l THEN None ELSE sLeafOf[s]
  /\ \A v \in VCIds : vcs[v] = VCAfterLeaf(v, l)
  /\ \A s \in Servers : serverVCs[s] = S!ServerVCsAfter(s, l)
  /\ \A o \in Leaves : leafVCs[o] = LeafVCsAfterLeaf(o, l)

AheadNewServer(s, l) ==
  /\ sSpineOf[l] # None /\ sLeafOf[s] = None
  /\ leafOf = [sLeafOf EXCEPT ![s] = l] /\ spineOf = sSpineOf
  /\ vcs = sVcs /\ serverVCs = sServerVCs /\ leafVCs = sLeafVCs

VCAfterServer(v, s) ==
  IF v \in S!EmptiedByServer(s) THEN None
  ELSE IF v \in sServerVCs[s]
       THEN [sVcs[v] EXCEPT !.servers = @ \ {s}, !.leaves = S!LeavesLeft(sVcs[v], s)]
       ELSE sVcs[v]
LeafVCsAfterServer(o, s) ==
  sLeafVCs[o] \ {v \in sServerVCs[s] :
                   \/ o = sLeafOf[s] /\ o \notin S!LeavesLeft(sVcs[v], s)
                   \/ v \in S!EmptiedByServer(s) /\ o \in S!LeavesLeft(sVcs[v], s)}

AheadFailedServer(s) ==
  /\ sLeafOf[s] # None /\ S!Detached(s)
  /\ leafOf = [sLeafOf EXCEPT ![s] = None] /\ spineOf = sSpineOf
  /\ \A v \in VCIds : vcs[v] = VCAfterServer(v, s)
  /\ serverVCs = [sServerVCs EXCEPT ![s] = {}]
  /\ \A o \in Leaves : leafVCs[o] = LeafVCsAfterServer(o, s)

AheadAddVC(v, servers) ==
  /\ sVcs[v] = None /\ S!AllExist(servers)
  /\ spineOf = sSpineOf /\ leafOf = sLeafOf
  /\ vcs = [sVcs EXCEPT ![v] = S!NewVC(Spines, servers)]
  /\ serverVCs = [s \in Servers |-> sServerVCs[s] \cup {w \in {v} : s \in S!NewVC(Spines, servers).servers}]
  /\ leafVCs = [l \in Leaves |-> sLeafVCs[l] \cup {w \in {v} : l \in S!NewVC(Spines, servers).leaves}]

AheadRemoveVC(v) ==
  /\ sVcs[v] # None
  /\ spineOf = sSpineOf /\ leafOf = sLeafOf
  /\ vcs = [sVcs EXCEPT ![v] = None]
  /\ serverVCs = [s \in Servers |-> sServerVCs[s] \ {w \in {v} : s \in sVcs[v].servers}]
  /\ leafVCs = [l \in Leaves |-> sLeafVCs[l] \ {w \in {v} : l \in sVcs[v].leaves}]

Ahead(m) ==
  \/ m.type = "newLeaf" /\ AheadNewLeaf(m.node)
  \/ m.type = "failedLeaf" /\ AheadFailedLeaf(m.node)
  \/ m.type = "newServer" /\ AheadNewServer(m.node, m.leaf)
  \/ m.type = "failedServer" /\ AheadFailedServer(m.node)
  \/ m.type = "addVC" /\ AheadAddVC(m.node, m.servers)
  \/ m.type = "removeVC" /\ AheadRemoveVC(m.node)

\* the packet Put makes of told
ToldPacket ==
  Packet(told.type, told.node,
         IF told.type = "newServer" THEN leafOf[told.node] ELSE None,
         IF told.type = "addVC" THEN vcs[told.node].servers ELSE {}, {})

(* A leaf controller that has everything the spine has told the leaves.    *)
LeafVC(l, v) ==
  IF sVcs[v] # None /\ l \in sVcs[v].leaves THEN sVcs[v].servers \cap S!Children(l) ELSE None

Runs(l) == ctrl[l] = IF sSpineOf[l] = None THEN "down" ELSE "up"
Settled(l) ==
  /\ Runs(l)
  /\ lServers[l] = S!Children(l)
  /\ \A v \in VCIds : lVCs[l][v] = LeafVC(l, v)

LeavesAtRest ==
  /\ Empty(eg) /\ bcast = None /\ Empty(mgr)
  /\ \A l \in Leaves : Settled(l)

AtRest == told = None /\ Empty(chan) /\ SameBooks /\ LeavesAtRest
AtCentral == told # None /\ Empty(chan) /\ Ahead(ToldPacket) /\ LeavesAtRest
ToTheSpine ==
  /\ told = None /\ LeavesAtRest
  /\ \E k \in Kinds : \E m \in ToSpine(k) : chan = Only(k, m) /\ Ahead(m)

(* What a message on its way from the spine still changes.                 *)
LeafStarting(l) ==
  /\ sSpineOf[l] # None /\ S!Children(l) = {} /\ lServers[l] = {} /\ lVCs[l] = NoVCs
  /\ bcast = None
  /\ \A o \in Leaves \ {l} : Settled(o)
  /\ \/ /\ \E m \in ToLeaf("newLeaf") : m.node = l /\ eg = Only("newLeaf", m)
        /\ Empty(mgr) /\ ctrl[l] = "down"
     \/ Empty(eg) /\ mgr["newLeaf"] = <<l>> /\ mgr["failedLeaf"] = <<>> /\ ctrl[l] = "down"
     \/ Empty(eg) /\ Empty(mgr) /\ ctrl[l] \in {"fetching", "listening"}

LeafStopping(l) ==
  /\ sSpineOf[l] = None /\ S!Children(l) = {} /\ ctrl[l] = "up"
  /\ bcast = None
  /\ \A o \in Leaves \ {l} : Settled(o)
  /\ \/ /\ \E m \in ToLeaf("failedLeaf") : m.node = l /\ eg = Only("failedLeaf", m)
        /\ Empty(mgr)
     \/ Empty(eg) /\ mgr["newLeaf"] = <<>> /\ mgr["failedLeaf"] = <<l>>

ServerComing(s, l) ==
  /\ sSpineOf[l] # None /\ s \in S!Children(l)
  /\ bcast = None /\ Empty(mgr)
  /\ \E m \in ToLeaf("newServer") : m.node = s /\ m.leaf = l /\ eg = Only("newServer", m)
  /\ \A o \in Leaves : /\ Runs(o)
                       /\ lServers[o] = IF o = l THEN S!Children(o) \ {s} ELSE S!Children(o)
                       /\ \A v \in VCIds : lVCs[o][v] = LeafVC(o, v)

ServerGoing(s, l) ==
  /\ sSpineOf[l] # None /\ s \notin S!Children(l)
  /\ bcast = None /\ Empty(mgr)
  /\ \E m \in ToLeaf("failedServer") : m.node = s /\ m.leaf = l /\ eg = Only("failedServer", m)
  /\ \A o \in Leaves : /\ Runs(o)
                       /\ lServers[o] = IF o = l THEN S!Children(o) \cup {s} ELSE S!Children(o)
                       /\ \A v \in VCIds :
                            LeafVC(o, v) = IF o = l THEN VCsWithout(lVCs[o], s)[v] ELSE lVCs[o][v]

VCSpreading(m) ==
  /\ Empty(mgr)
  /\ \/ bcast = None /\ eg = Only("vc", m)
     \/ bcast = m /\ m.dsts # {} /\ Empty(eg)
  /\ \A o \in Leaves :
       /\ Runs(o)
       /\ lServers[o] = S!Children(o)
       /\ \A v \in VCIds : v # m.node \/ o \notin m.dsts => lVCs[o][v] = LeafVC(o, v)
  /\ \A o \in m.dsts : sSpineOf[o] # None
  /\ \/ /\ m.type = "addVC"
        /\ sVcs[m.node] # None /\ m.servers = sVcs[m.node].servers
        /\ \A o \in m.dsts : o \in sVcs[m.node].leaves /\ lVCs[o][m.node] = None
     \/ /\ m.type = "removeVC"
        /\ sVcs[m.node] = None
        /\ \A o \in m.dsts : lVCs[o][m.node] # None

ToTheLeaves ==
  /\ told = None /\ Empty(chan) /\ SameBooks
  /\ \/ \E l \in Leaves : LeafStarting(l)
     \/ \E l \in Leaves : LeafStopping(l)
     \/ \E s \in Servers, l \in Leaves : ServerComing(s, l)
     \/ \E s \in Servers, l \in Leaves : ServerGoing(s, l)
     \/ \E m \in ToLeaf("vc") : VCSpreading(m)

OneAtATime == mgrUp /\ (AtRest \/ AtCentral \/ ToTheSpine \/ ToTheLeaves)

-----------------------------------------------------------------------------
(* The spine controller's handlers keep its books as the calls of the      *)
(* central controller keep theirs.                                         *)

LEMMA NoneIsNoSpineRecord == None \notin S!VC \cup S!Msg
BY NoneIsNoRecord DEF VC, Msg, S!VC, S!Msg

LEMMA SpineInsertLeaf ==
  ASSUME S!BooksOK, NEW l \in Leaves, Spine!InsertLeaf(l, TheSpine),
         UNCHANGED <<sVcs, sServerVCs, sLeafVCs>>
  PROVE  S!BooksOK'
<1>1. TheSpine \in Spines
  BY OneSpine DEF TheSpine
<1>2. S!InsertLeaf(l, TheSpine)
  BY DEF Spine!InsertLeaf, S!InsertLeaf
<1> QED
  BY <1>1, <1>2, NoneIsNoNode, NoneIsNoSpineRecord, S!InsertLeafKeepsBooks

LEMMA SpineInsertServer ==
  ASSUME S!BooksOK, NEW s \in Servers, NEW l \in Leaves, Spine!InsertServer(s, l),
         UNCHANGED <<sVcs, sServerVCs, sLeafVCs>>
  PROVE  S!BooksOK'
<1>1. S!InsertServer(s, l)
  BY DEF Spine!InsertServer, S!InsertServer
<1> QED
  BY <1>1, NoneIsNoNode, NoneIsNoSpineRecord, S!InsertServerKeepsBooks

LEMMA SpineDetachLeaf ==
  ASSUME S!BooksOK, NEW l \in Leaves, Spine!DetachLeaf(l), Spine!DeleteLeaf(l)
  PROVE  S!BooksOK'
<1>1. S!DetachLeaf(l) /\ S!DeleteLeaf(l)
  BY DEF Spine!DetachLeaf, S!DetachLeaf, Spine!DeleteLeaf, S!DeleteLeaf,
         Spine!EmptiedByLeaf, S!EmptiedByLeaf, Spine!LostWithLeaf, S!LostWithLeaf,
         Spine!ServerVCsAfter, S!ServerVCsAfter, Spine!Children, S!Children
<1> QED
  BY <1>1, NoneIsNoNode, NoneIsNoSpineRecord, S!DetachLeafKeepsBooks

LEMMA SpineDetachServer ==
  ASSUME S!BooksOK, NEW s \in Servers, Spine!DeleteServer(s), Spine!DetachServer(s)
  PROVE  S!BooksOK'
<1>1. S!DeleteServer(s) /\ S!DetachServer(s)
  BY DEF Spine!DetachServer, S!DetachServer, Spine!DeleteServer, S!DeleteServer,
         Spine!EmptiedByServer, S!EmptiedByServer, Spine!LeavesLeft, S!LeavesLeft
<1> QED
  BY <1>1, NoneIsNoNode, NoneIsNoSpineRecord, S!DetachServerKeepsBooks

LEMMA SpineStoreVC ==
  ASSUME S!BooksOK, NEW v \in VCIds, NEW servers \in SUBSET Servers,
         sVcs[v] = None, Spine!AllExist(servers), Spine!StoreVC(v, Spine!NewVC(Spines, servers)),
         UNCHANGED <<sSpineOf, sLeafOf>>
  PROVE  S!BooksOK'
<1>1. /\ S!AllExist(servers) /\ S!StoreVC(v, S!NewVC(Spines, servers))
      /\ UNCHANGED S!treeVars
  BY DEF Spine!AllExist, S!AllExist, Spine!StoreVC, S!StoreVC, Spine!NewVC, S!NewVC, S!treeVars
<1> QED
  BY <1>1, NoneIsNoNode, NoneIsNoSpineRecord, S!StoreVCKeepsBooks

LEMMA SpineDropVC ==
  ASSUME S!BooksOK, NEW v \in VCIds, sVcs[v] # None, Spine!DropVC(v),
         UNCHANGED <<sSpineOf, sLeafOf>>
  PROVE  S!BooksOK'
<1>1. S!DropVC(v) /\ UNCHANGED S!treeVars
  BY DEF Spine!DropVC, S!DropVC, S!treeVars
<1> QED
  BY <1>1, NoneIsNoNode, NoneIsNoSpineRecord, S!DropVCKeepsBooks

-----------------------------------------------------------------------------
(* Packets and channels.                                                   *)

LEMMA PacketValue ==
  ASSUME NEW k \in Kinds, NEW m \in PacketsOf(k)
  PROVE  /\ m \in Packets /\ m # None /\ KindOf(m) = k
         /\ m.leaf \in Leaves \cup {None} /\ m.servers \subseteq Servers /\ m.dsts \subseteq Leaves
         /\ m.type = "newLeaf" <=> k = "newLeaf"
         /\ m.type = "failedLeaf" <=> k = "failedLeaf"
         /\ m.type = "newServer" <=> k = "newServer"
         /\ m.type = "failedServer" <=> k = "failedServer"
         /\ m.type \in {"addVC", "removeVC"} <=> k = "vc"
         /\ m.type \in {"newLeaf", "failedLeaf"} => m.node \in Leaves
         /\ m.type \in {"newServer", "failedServer"} => m.node \in Servers
         /\ m.type \in {"addVC", "removeVC"} => m.node \in VCIds
<1>1. m \in Packets /\ m.type \in TypesOf(k) /\ m.node \in NodesOf(k)
  BY DEF PacketsOf
<1>2. m # None /\ m.leaf \in Leaves \cup {None} /\ m.servers \subseteq Servers /\ m.dsts \subseteq Leaves
  BY <1>1, NoneIsNoData DEF Packets
<1> QED
  BY <1>1, <1>2 DEF Kinds, TypesOf, NodesOf, LeafKinds, KindOf

LEMMA NewPacket ==
  ASSUME NEW k \in Kinds, NEW type \in TypesOf(k), NEW node \in NodesOf(k),
         NEW leaf \in Leaves \cup {None}, NEW servers \in SUBSET Servers, NEW dsts \in SUBSET Leaves
  PROVE  LET m == Packet(type, node, leaf, servers, dsts) IN
         /\ m \in PacketsOf(k)
         /\ m.type = type /\ m.node = node /\ m.leaf = leaf /\ m.servers = servers /\ m.dsts = dsts
<1> DEFINE m == Packet(type, node, leaf, servers, dsts)
<1>1. m.type = type /\ m.node = node /\ m.leaf = leaf /\ m.servers = servers /\ m.dsts = dsts
  BY DEF Packet
<1>2. /\ type \in {"newLeaf", "failedLeaf", "newServer", "failedServer", "addVC", "removeVC"}
      /\ node \in Leaves \cup Servers \cup VCIds
  BY DEF Kinds, TypesOf, NodesOf, LeafKinds
<1>3. m \in Packets
  BY <1>2 DEF Packets, Packet
<1> QED
  BY <1>1, <1>3 DEF PacketsOf

(* A queue keeps the type of each of its channels.                         *)
LEMMA PushKeepsTypes ==
  ASSUME NEW q \in [Kinds -> Seq(Packets)], NEW W \in [Kinds -> SUBSET Packets],
         \A j \in Kinds : q[j] \in Seq(W[j]), NEW k \in Kinds, NEW m \in W[k]
  PROVE  /\ Push(q, k, m) \in [Kinds -> Seq(Packets)]
         /\ \A j \in Kinds : Push(q, k, m)[j] = IF j = k THEN Append(q[k], m) ELSE q[j]
         /\ \A j \in Kinds : Push(q, k, m)[j] \in Seq(W[j])
<1>1. m \in Packets /\ q[k] \in Seq(Packets) /\ q[k] \in Seq(W[k])
  OBVIOUS
<1>2. PICK a \in Seq(W[k]) : a = Append(q[k], m)
  BY <1>1, AppendValue
<1>3. a \in Seq(Packets)
  BY <1>1, <1>2, AppendValue
<1>4. Push(q, k, m) = [q EXCEPT ![k] = a]
  BY <1>2 DEF Push
<1> QED
  BY <1>2, <1>3, <1>4

LEMMA PopKeepsTypes ==
  ASSUME NEW q \in [Kinds -> Seq(Packets)], NEW W \in [Kinds -> SUBSET Packets],
         \A j \in Kinds : q[j] \in Seq(W[j]), NEW k \in Kinds, q[k] # <<>>
  PROVE  /\ Pop(q, k) \in [Kinds -> Seq(Packets)]
         /\ \A j \in Kinds : Pop(q, k)[j] = IF j = k THEN Tail(q[k]) ELSE q[j]
         /\ \A j \in Kinds : Pop(q, k)[j] \in Seq(W[j])
         /\ Head(q[k]) \in W[k]
<1>1. q[k] \in Seq(Packets) /\ q[k] \in Seq(W[k])
  OBVIOUS
<1>2. PICK t \in Seq(W[k]) : t = Tail(q[k])
  BY <1>1, TailValue
<1>3. t \in Seq(Packets)
  BY <1>1, <1>2, TailValue
<1>4. Pop(q, k) = [q EXCEPT ![k] = t]
  BY <1>2 DEF Pop
<1>5. Head(q[k]) \in W[k]
  BY <1>1, TailValue
<1> QED
  BY <1>2, <1>3, <1>4, <1>5

LEMMA PopChan ==
  ASSUME QueuesTypeOK, NEW k \in Kinds, chan[k] # <<>>
  PROVE  /\ Pop(chan, k) \in [Kinds -> Seq(Packets)]
         /\ \A j \in Kinds : Pop(chan, k)[j] = IF j = k THEN Tail(chan[k]) ELSE chan[j]
         /\ \A j \in Kinds : Pop(chan, k)[j] \in Seq(ToSpine(j))
         /\ Head(chan[k]) \in ToSpine(k)
<1> DEFINE W == [j \in Kinds |-> ToSpine(j)]
<1>1. W \in [Kinds -> SUBSET Packets] /\ \A j \in Kinds : W[j] = ToSpine(j)
  BY DEF ToSpine, PacketsOf
<1> HIDE DEF W
<1>2. chan \in [Kinds -> Seq(Packets)] /\ \A j \in Kinds : chan[j] \in Seq(W[j])
  BY <1>1 DEF QueuesTypeOK
<1>3. /\ Pop(chan, k) \in [Kinds -> Seq(Packets)]
      /\ \A j \in Kinds : Pop(chan, k)[j] = IF j = k THEN Tail(chan[k]) ELSE chan[j]
      /\ \A j \in Kinds : Pop(chan, k)[j] \in Seq(W[j])
      /\ Head(chan[k]) \in W[k]
  BY <1>1, <1>2, PopKeepsTypes
<1> QED
  BY <1>1, <1>3

LEMMA PushChan ==
  ASSUME QueuesTypeOK, NEW k \in Kinds, NEW m \in ToSpine(k)
  PROVE  /\ Push(chan, k, m) \in [Kinds -> Seq(Packets)]
         /\ \A j \in Kinds : Push(chan, k, m)[j] = IF j = k THEN Append(chan[k], m) ELSE chan[j]
         /\ \A j \in Kinds : Push(chan, k, m)[j] \in Seq(ToSpine(j))
<1> DEFINE W == [j \in Kinds |-> ToSpine(j)]
<1>1. W \in [Kinds -> SUBSET Packets] /\ \A j \in Kinds : W[j] = ToSpine(j)
  BY DEF ToSpine, PacketsOf
<1> HIDE DEF W
<1>2. m \in W[k]
  BY <1>1
<1>3. chan \in [Kinds -> Seq(Packets)] /\ \A j \in Kinds : chan[j] \in Seq(W[j])
  BY <1>1 DEF QueuesTypeOK
<1>4. /\ Push(chan, k, m) \in [Kinds -> Seq(Packets)]
      /\ \A j \in Kinds : Push(chan, k, m)[j] = IF j = k THEN Append(chan[k], m) ELSE chan[j]
      /\ \A j \in Kinds : Push(chan, k, m)[j] \in Seq(W[j])
  BY <1>1, <1>2, <1>3, PushKeepsTypes
<1> QED
  BY <1>1, <1>4

LEMMA PopEg ==
  ASSUME QueuesTypeOK, NEW k \in Kinds, eg[k] # <<>>
  PROVE  /\ Pop(eg, k) \in [Kinds -> Seq(Packets)]
         /\ \A j \in Kinds : Pop(eg, k)[j] = IF j = k THEN Tail(eg[k]) ELSE eg[j]
         /\ \A j \in Kinds : Pop(eg, k)[j] \in Seq(ToLeaf(j))
         /\ Head(eg[k]) \in ToLeaf(k)
<1> DEFINE W == [j \in Kinds |-> ToLeaf(j)]
<1>1. W \in [Kinds -> SUBSET Packets] /\ \A j \in Kinds : W[j] = ToLeaf(j)
  BY DEF ToLeaf, PacketsOf
<1> HIDE DEF W
<1>2. eg \in [Kinds -> Seq(Packets)] /\ \A j \in Kinds : eg[j] \in Seq(W[j])
  BY <1>1 DEF QueuesTypeOK
<1>3. /\ Pop(eg, k) \in [Kinds -> Seq(Packets)]
      /\ \A j \in Kinds : Pop(eg, k)[j] = IF j = k THEN Tail(eg[k]) ELSE eg[j]
      /\ \A j \in Kinds : Pop(eg, k)[j] \in Seq(W[j])
      /\ Head(eg[k]) \in W[k]
  BY <1>1, <1>2, PopKeepsTypes
<1> QED
  BY <1>1, <1>3

LEMMA PushEg ==
  ASSUME QueuesTypeOK, NEW k \in Kinds, NEW m \in ToLeaf(k)
  PROVE  /\ Push(eg, k, m) \in [Kinds -> Seq(Packets)]
         /\ \A j \in Kinds : Push(eg, k, m)[j] = IF j = k THEN Append(eg[k], m) ELSE eg[j]
         /\ \A j \in Kinds : Push(eg, k, m)[j] \in Seq(ToLeaf(j))
<1> DEFINE W == [j \in Kinds |-> ToLeaf(j)]
<1>1. W \in [Kinds -> SUBSET Packets] /\ \A j \in Kinds : W[j] = ToLeaf(j)
  BY DEF ToLeaf, PacketsOf
<1> HIDE DEF W
<1>2. m \in W[k]
  BY <1>1
<1>3. eg \in [Kinds -> Seq(Packets)] /\ \A j \in Kinds : eg[j] \in Seq(W[j])
  BY <1>1 DEF QueuesTypeOK
<1>4. /\ Push(eg, k, m) \in [Kinds -> Seq(Packets)]
      /\ \A j \in Kinds : Push(eg, k, m)[j] = IF j = k THEN Append(eg[k], m) ELSE eg[j]
      /\ \A j \in Kinds : Push(eg, k, m)[j] \in Seq(W[j])
  BY <1>1, <1>2, <1>3, PushKeepsTypes
<1> QED
  BY <1>1, <1>4

-----------------------------------------------------------------------------
(* The books stay consistent.                                              *)

LEMMA CentralUnchanged ==
  ASSUME BooksOK, told \in Msg \cup {None}, ToldIsFresh, UNCHANGED vars
  PROVE  BooksOK' /\ (told \in Msg \cup {None})' /\ ToldIsFresh'
<1>1. /\ spineOf' = spineOf /\ leafOf' = leafOf /\ vcs' = vcs /\ serverVCs' = serverVCs
      /\ leafVCs' = leafVCs /\ told' = told
  BY DEF vars
<1> QED
  BY <1>1 DEF BooksOK, BooksTypeOK, TreeTypeOK, NoOrphans, ServerListsMatchVCs, LeafListsMatchVCs,
              LeavesAreOfServers, VCServersExist, VCNames, Children, ToldIsFresh

LEMMA SpineUnchanged ==
  ASSUME S!BooksOK, UNCHANGED spineVars
  PROVE  S!BooksOK'
<1>1. /\ sSpineOf' = sSpineOf /\ sLeafOf' = sLeafOf /\ sVcs' = sVcs
      /\ sServerVCs' = sServerVCs /\ sLeafVCs' = sLeafVCs
  BY DEF spineVars
<1> QED
  BY <1>1 DEF S!BooksOK, S!BooksTypeOK, S!TreeTypeOK, S!NoOrphans, S!ServerListsMatchVCs,
              S!LeafListsMatchVCs, S!LeavesAreOfServers, S!VCServersExist, S!VCNames, S!Children

LEMMA InitBooksInv ==
  ASSUME PropInit
  PROVE  BooksInv
<1>1. PICK start \in Starts : spineOf = start.spineOf /\ leafOf = start.leafOf
  BY DEF PropInit
<1>2. TreeTypeOK /\ NoOrphans
  BY <1>1, StartsAssumption DEF TreeTypeOK, NoOrphans
<1>3. /\ vcs = [v \in VCIds |-> None] /\ serverVCs = [s \in Servers |-> {}]
      /\ leafVCs = [l \in Leaves |-> {}] /\ told = None
      /\ sSpineOf = spineOf /\ sLeafOf = leafOf /\ sVcs = vcs
      /\ sServerVCs = serverVCs /\ sLeafVCs = leafVCs
  BY DEF PropInit, NoVCs
<1>4. BooksOK
  BY <1>2, <1>3, EmptyBooks
<1>5. S!BooksOK
  <2>1. S!TreeTypeOK /\ S!NoOrphans
    BY <1>2, <1>3 DEF TreeTypeOK, NoOrphans, S!TreeTypeOK, S!NoOrphans
  <2> QED
    BY <1>3, <2>1, NoneIsNoNode, NoneIsNoSpineRecord, S!EmptyBooks
<1>6. QueuesTypeOK
  <2>1. PICK e \in Seq(Packets) : e = <<>>
    BY EmptyValue
  <2>2. \A T : e \in Seq(T)
    BY <2>1, EmptyValue
  <2>3. chan = [k \in Kinds |-> e] /\ eg = [k \in Kinds |-> e] /\ mgr = [k \in LeafKinds |-> e]
    BY <2>1 DEF PropInit
  <2>4. \A k \in Kinds : e \in Seq(ToSpine(k)) /\ e \in Seq(ToLeaf(k))
    BY <2>2
  <2>5. e \in Seq(Leaves)
    BY <2>2
  <2> QED
    BY <2>3, <2>4, <2>5 DEF PropInit, QueuesTypeOK
<1>7. LeavesTypeOK
  BY <1>2 DEF PropInit, LeavesTypeOK, NoVCs, Children, TreeTypeOK
<1> QED
  BY <1>3, <1>4, <1>5, <1>6, <1>7 DEF BooksInv, ToldIsFresh

LEMMA CallKeepsBooks ==
  ASSUME BooksInv, Call
  PROVE  BooksInv'
<1>1. /\ UNCHANGED <<chan, spineVars, eg, bcast, mgr, mgrUp, leafVars>>
      /\ \/ \E l \in Leaves, sp \in Spines : AddLeaf(l, sp) /\ UNCHANGED gone
         \/ \E l \in Leaves : FailLeaf(l) /\ gone' = gone \cup {l}
         \/ \E s \in Servers, l \in Leaves : AddServer(s, l) /\ UNCHANGED gone
         \/ \E s \in Servers : FailServer(s) /\ UNCHANGED gone
         \/ \E v \in VCIds, servers \in SUBSET Servers : AddVC(v, Spines, servers) /\ UNCHANGED gone
         \/ \E v \in VCIds : RemoveVC(v) /\ UNCHANGED gone
  BY DEF Call
<1>2. Next
  <2>1. Spines \in SUBSET Spines
    OBVIOUS
  <2> QED
    BY <1>1, <2>1 DEF Next
<1>3. BooksOK' /\ (told \in Msg \cup {None})'
  BY <1>2, NextKeepsBooks, NextTells DEF BooksInv
<1>4. ToldIsFresh'
  <2>1. ASSUME NEW l \in Leaves, NEW sp \in Spines, AddLeaf(l, sp)
        PROVE  ToldIsFresh'
    BY <2>1 DEF AddLeaf, Tell, ToldIsFresh
  <2>2. ASSUME NEW l \in Leaves, FailLeaf(l)
        PROVE  ToldIsFresh'
    BY <2>2 DEF FailLeaf, Tell, ToldIsFresh
  <2>3. ASSUME NEW s \in Servers, NEW l \in Leaves, AddServer(s, l)
        PROVE  ToldIsFresh'
    <3>1. told'.type = "newServer" /\ told'.node = s
      BY <2>3 DEF AddServer, Tell
    <3>2. leafOf'[s] = l /\ l # None
      BY <2>3, NoneIsNoNode DEF AddServer, InsertServer, BooksInv, BooksOK, BooksTypeOK, TreeTypeOK
    <3> QED
      BY <3>1, <3>2 DEF ToldIsFresh
  <2>4. ASSUME NEW s \in Servers, FailServer(s)
        PROVE  ToldIsFresh'
    BY <2>4 DEF FailServer, Tell, ToldIsFresh
  <2>5. ASSUME NEW v \in VCIds, NEW servers \in SUBSET Servers, AddVC(v, Spines, servers)
        PROVE  ToldIsFresh'
    <3>1. told'.type = "addVC" /\ told'.node = v
      BY <2>5 DEF AddVC, Tell
    <3>2. vcs'[v] = NewVC(Spines, servers)
      BY <2>5 DEF AddVC, StoreVC, BooksInv, BooksOK, BooksTypeOK
    <3>3. NewVC(Spines, servers) \in VC
      BY <2>5 DEF AddVC, AllExist, NewVC, VC, BooksInv, BooksOK, BooksTypeOK, TreeTypeOK
    <3> QED
      BY <3>1, <3>2, <3>3, NoneIsNoRecord DEF ToldIsFresh
  <2>6. ASSUME NEW v \in VCIds, RemoveVC(v)
        PROVE  ToldIsFresh'
    BY <2>6 DEF RemoveVC, Tell, ToldIsFresh
  <2> QED
    BY <1>1, <2>1, <2>2, <2>3, <2>4, <2>5, <2>6
<1>5. S!BooksOK'
  BY <1>1, SpineUnchanged DEF BooksInv
<1>6. gone' \in SUBSET Leaves
  BY <1>1 DEF BooksInv, QueuesTypeOK
<1>7. QueuesTypeOK' /\ LeavesTypeOK'
  BY <1>1, <1>6 DEF BooksInv, QueuesTypeOK, LeavesTypeOK, leafVars
<1> QED
  BY <1>3, <1>4, <1>5, <1>7 DEF BooksInv

\* the packet Put makes of told
LEMMA ToldPacketValue ==
  ASSUME BooksInv, told # None
  PROVE  /\ KindOf(told) \in Kinds /\ ToldPacket \in ToSpine(KindOf(told))
         /\ ToldPacket.type = told.type /\ ToldPacket.node = told.node
         /\ told.type = "newServer" => ToldPacket.leaf = leafOf[told.node]
         /\ told.type = "addVC" => ToldPacket.servers = vcs[told.node].servers
         /\ KindOf(ToldPacket) = KindOf(told) /\ ToldPacket.dsts = {}
<1> DEFINE k == KindOf(told)
           leaf == IF told.type = "newServer" THEN leafOf[told.node] ELSE None
           servers == IF told.type = "addVC" THEN vcs[told.node].servers ELSE {}
<1>1. told \in Msg /\ ToldIsFresh
  BY DEF BooksInv
<1>2. \/ told.type \in {"newLeaf", "failedLeaf"} /\ told.node \in Leaves
      \/ told.type \in {"newServer", "failedServer"} /\ told.node \in Servers
      \/ told.type \in {"addVC", "removeVC"} /\ told.node \in VCIds
  BY <1>1 DEF Msg
<1>3. k \in Kinds /\ told.type \in TypesOf(k) /\ told.node \in NodesOf(k)
  BY <1>2 DEF KindOf, Kinds, TypesOf, NodesOf, LeafKinds
<1>4. leaf \in Leaves \cup {None} /\ (told.type = "newServer" => leaf \in Leaves)
  BY <1>1, <1>2 DEF ToldIsFresh, BooksInv, BooksOK, BooksTypeOK, TreeTypeOK
<1>5. servers \in SUBSET Servers
  <2>1. CASE told.type = "addVC"
    <3>1. told.node \in VCIds /\ vcs[told.node] # None
      BY <1>1, <1>2, <2>1 DEF ToldIsFresh
    <3>2. vcs[told.node] \in VC
      BY <3>1 DEF BooksInv, BooksOK, BooksTypeOK
    <3> QED
      BY <2>1, <3>2 DEF VC
  <2> QED
    BY <2>1
<1>6. k = "newServer" => told.type = "newServer"
  BY DEF KindOf
<1>7. ToldPacket = Packet(told.type, told.node, leaf, servers, {})
  BY <1>1 DEF ToldPacket
<1> HIDE DEF k, leaf, servers
<1>8. /\ ToldPacket \in PacketsOf(k) /\ ToldPacket.type = told.type /\ ToldPacket.node = told.node
      /\ ToldPacket.leaf = leaf /\ ToldPacket.servers = servers /\ ToldPacket.dsts = {}
  BY <1>3, <1>4, <1>5, <1>7, NewPacket
<1>9. ToldPacket \in ToSpine(k) /\ KindOf(ToldPacket) = k
  BY <1>3, <1>4, <1>6, <1>8, PacketValue DEF ToSpine
<1> QED
  BY <1>3, <1>8, <1>9 DEF k, leaf, servers

LEMMA PutKeepsBooks ==
  ASSUME BooksInv, Put
  PROVE  BooksInv'
<1>1. /\ told # None /\ chan' = Push(chan, KindOf(told), ToldPacket) /\ told' = None
      /\ UNCHANGED <<centralVars, clientVars, spineVars, eg, bcast, mgr, mgrUp, leafVars>>
  BY DEF Put, ToldPacket
<1>2. BooksOK'
  <2>1. /\ spineOf' = spineOf /\ leafOf' = leafOf /\ vcs' = vcs
        /\ serverVCs' = serverVCs /\ leafVCs' = leafVCs
    BY <1>1 DEF centralVars
  <2> QED
    BY <2>1 DEF BooksInv, BooksOK, BooksTypeOK, TreeTypeOK, NoOrphans, ServerListsMatchVCs,
                LeafListsMatchVCs, LeavesAreOfServers, VCServersExist, VCNames, Children
<1>3. S!BooksOK'
  BY <1>1, SpineUnchanged DEF BooksInv
<1>4. chan' \in [Kinds -> Seq(Packets)] /\ \A k \in Kinds : chan'[k] \in Seq(ToSpine(k))
  BY <1>1, ToldPacketValue, PushChan DEF BooksInv
<1>5. QueuesTypeOK' /\ LeavesTypeOK'
  BY <1>1, <1>4 DEF BooksInv, QueuesTypeOK, LeavesTypeOK, clientVars, leafVars
<1> QED
  BY <1>1, <1>2, <1>3, <1>5 DEF BooksInv, ToldIsFresh

EgTypeOK == eg \in [Kinds -> Seq(Packets)] /\ \A k \in Kinds : eg[k] \in Seq(ToLeaf(k))

LEMMA QueueKeepsTypes ==
  ASSUME QueuesTypeOK, NEW k \in Kinds, NEW m \in ToSpine(k), NEW leaf \in Leaves \cup {None},
         k \in {"newServer", "failedServer"} => leaf \in Leaves, NEW dsts \in SUBSET Leaves,
         Queue(m, leaf, dsts)
  PROVE  EgTypeOK'
<1>1. m \in PacketsOf(k)
  BY DEF ToSpine
<1>2. m.type \in TypesOf(k) /\ m.node \in NodesOf(k) /\ m.servers \in SUBSET Servers /\ KindOf(m) = k
  BY <1>1, PacketValue DEF PacketsOf
<1>3. PICK type \in TypesOf(k), node \in NodesOf(k), servers \in SUBSET Servers :
        type = m.type /\ node = m.node /\ servers = m.servers
  BY <1>2
<1>4. /\ Packet(type, node, leaf, servers, dsts) \in PacketsOf(k)
      /\ Packet(type, node, leaf, servers, dsts).leaf = leaf
  BY NewPacket
<1>5. PICK p \in PacketsOf(k) : p = Packet(m.type, m.node, leaf, m.servers, dsts) /\ p.leaf = leaf
  BY <1>3, <1>4
<1>6. p \in ToLeaf(k)
  BY <1>5 DEF ToLeaf
<1>7. eg' = Push(eg, k, p)
  BY <1>2, <1>5 DEF Queue
<1> QED
  BY <1>6, <1>7, PushEg DEF EgTypeOK

LEMMA SpineHandleKeepsBooks ==
  ASSUME BooksInv, NEW k \in Kinds, NEW m \in ToSpine(k), SpineAccepts(m), SpineHandle(m)
  PROVE  S!BooksOK' /\ EgTypeOK'
<1>1. m \in PacketsOf(k) /\ (k = "newServer" => m.leaf \in Leaves)
  BY DEF ToSpine
<1>2. S!BooksOK /\ QueuesTypeOK
  BY DEF BooksInv
<1>3. CASE m.type = "newLeaf" /\ SpineAddLeaf(m)
  <2>1. k = "newLeaf" /\ m.node \in Leaves
    BY <1>1, <1>3, PacketValue
  <2>2. S!BooksOK'
    BY <1>2, <1>3, <2>1, SpineInsertLeaf DEF SpineAddLeaf
  <2>3. Queue(m, None, {})
    BY <1>3 DEF SpineAddLeaf
  <2> QED
    BY <1>2, <2>1, <2>2, <2>3, QueueKeepsTypes
<1>4. CASE m.type = "failedLeaf" /\ SpineFailLeaf(m)
  <2>1. k = "failedLeaf" /\ m.node \in Leaves
    BY <1>1, <1>4, PacketValue
  <2>2. S!BooksOK'
    BY <1>2, <1>4, <2>1, SpineDetachLeaf DEF SpineFailLeaf
  <2>3. Queue(m, None, {})
    BY <1>4 DEF SpineFailLeaf
  <2> QED
    BY <1>2, <2>1, <2>2, <2>3, QueueKeepsTypes
<1>5. CASE m.type = "newServer" /\ SpineAddServer(m)
  <2>1. k = "newServer" /\ m.node \in Servers /\ m.leaf \in Leaves
    BY <1>1, <1>5, PacketValue
  <2>2. S!BooksOK'
    BY <1>2, <1>5, <2>1, SpineInsertServer DEF SpineAddServer
  <2>3. Queue(m, m.leaf, {})
    BY <1>5 DEF SpineAddServer
  <2> QED
    BY <1>2, <2>1, <2>2, <2>3, QueueKeepsTypes
<1>6. CASE m.type = "failedServer" /\ SpineFailServer(m)
  <2>1. k = "failedServer" /\ m.node \in Servers
    BY <1>1, <1>6, PacketValue
  <2>2. S!BooksOK'
    BY <1>2, <1>6, <2>1, SpineDetachServer DEF SpineFailServer
  <2>3. Queue(m, sLeafOf[m.node], {}) \/ UNCHANGED eg
    BY <1>6 DEF SpineFailServer
  <2>4. sLeafOf[m.node] \in Leaves
    BY <1>2, <1>6, <2>1 DEF SpineAccepts, S!BooksOK, S!BooksTypeOK, S!TreeTypeOK
  <2>5. CASE Queue(m, sLeafOf[m.node], {})
    BY <1>2, <2>1, <2>2, <2>4, <2>5, QueueKeepsTypes
  <2>6. CASE UNCHANGED eg
    BY <1>2, <2>2, <2>6 DEF QueuesTypeOK, EgTypeOK
  <2> QED
    BY <2>3, <2>5, <2>6
<1>7. CASE m.type = "addVC" /\ SpineAddVC(m)
  <2>1. k = "vc" /\ m.node \in VCIds /\ m.servers \in SUBSET Servers
    BY <1>1, <1>7, PacketValue
  <2>2. S!BooksOK'
    BY <1>2, <1>7, <2>1, SpineStoreVC DEF SpineAddVC
  <2>3. PICK dsts \in SUBSET Leaves : Queue(m, None, dsts)
    <3>1. \A s \in m.servers : sLeafOf[s] \in Leaves
      BY <1>2, <1>7, <2>1 DEF SpineAddVC, Spine!AllExist, S!BooksOK, S!BooksTypeOK, S!TreeTypeOK
    <3>2. Spine!NewVC(Spines, m.servers).leaves \in SUBSET Leaves
      BY <3>1 DEF Spine!NewVC
    <3> QED
      BY <1>7, <3>2 DEF SpineAddVC
  <2> QED
    BY <1>2, <2>1, <2>2, <2>3, QueueKeepsTypes
<1>8. CASE m.type = "removeVC" /\ SpineRemoveVC(m)
  <2>1. k = "vc" /\ m.node \in VCIds
    BY <1>1, <1>8, PacketValue
  <2>2. S!BooksOK'
    BY <1>2, <1>8, <2>1, SpineDropVC DEF SpineRemoveVC
  <2>3. PICK dsts \in SUBSET Leaves : Queue(m, None, dsts)
    <3>1. sVcs[m.node] \in S!VC
      BY <1>2, <1>8, <2>1 DEF SpineRemoveVC, S!BooksOK, S!BooksTypeOK
    <3> QED
      BY <1>8, <3>1 DEF SpineRemoveVC, S!VC
  <2> QED
    BY <1>2, <2>1, <2>2, <2>3, QueueKeepsTypes
<1> QED
  BY <1>3, <1>4, <1>5, <1>6, <1>7, <1>8 DEF SpineHandle

LEMMA CentralSendKeepsBooks ==
  ASSUME BooksInv, NEW k \in Kinds, CentralSend(k)
  PROVE  BooksInv'
<1>1. /\ chan[k] # <<>> /\ chan' = Pop(chan, k)
      /\ UNCHANGED vars
      /\ UNCHANGED <<clientVars, bcast, mgr, mgrUp, leafVars>>
  BY DEF CentralSend
<1>2. PICK m \in ToSpine(k) : m = Head(chan[k])
  BY <1>1, PopChan DEF BooksInv
<1>3. S!BooksOK' /\ EgTypeOK'
  <2>1. CASE mgrUp /\ SpineAccepts(m)
    <3>1. SpineHandle(m)
      BY <1>2, <2>1 DEF CentralSend
    <3> QED
      BY <2>1, <3>1, SpineHandleKeepsBooks
  <2>2. CASE ~(mgrUp /\ SpineAccepts(m))
    <3>1. UNCHANGED <<spineVars, eg>>
      BY <1>2, <2>2 DEF CentralSend
    <3> QED
      BY <3>1, SpineUnchanged DEF BooksInv, QueuesTypeOK, EgTypeOK
  <2> QED
    BY <2>1, <2>2
<1>4. BooksOK' /\ (told \in Msg \cup {None})' /\ ToldIsFresh'
  BY <1>1, CentralUnchanged DEF BooksInv
<1>5. chan' \in [Kinds -> Seq(Packets)] /\ \A j \in Kinds : chan'[j] \in Seq(ToSpine(j))
  BY <1>1, PopChan DEF BooksInv
<1>6. QueuesTypeOK' /\ LeavesTypeOK'
  BY <1>1, <1>3, <1>5 DEF BooksInv, QueuesTypeOK, EgTypeOK, LeavesTypeOK, clientVars, leafVars
<1> QED
  BY <1>3, <1>4, <1>6 DEF BooksInv

LEMMA MgrPushKeepsTypes ==
  ASSUME QueuesTypeOK, NEW k \in LeafKinds, NEW l \in Leaves
  PROVE  /\ Push(mgr, k, l) \in [LeafKinds -> Seq(Leaves)]
         /\ \A j \in LeafKinds : Push(mgr, k, l)[j] = IF j = k THEN Append(mgr[k], l) ELSE mgr[j]
<1>1. mgr \in [LeafKinds -> Seq(Leaves)] /\ mgr[k] \in Seq(Leaves)
  BY DEF QueuesTypeOK
<1>2. PICK a \in Seq(Leaves) : a = Append(mgr[k], l)
  BY <1>1, AppendValue
<1>3. Push(mgr, k, l) = [mgr EXCEPT ![k] = a]
  BY <1>2 DEF Push
<1> QED
  BY <1>1, <1>2, <1>3

LEMMA MgrPopKeepsTypes ==
  ASSUME QueuesTypeOK, NEW k \in LeafKinds, mgr[k] # <<>>
  PROVE  /\ Pop(mgr, k) \in [LeafKinds -> Seq(Leaves)]
         /\ \A j \in LeafKinds : Pop(mgr, k)[j] = IF j = k THEN Tail(mgr[k]) ELSE mgr[j]
         /\ Head(mgr[k]) \in Leaves
<1>1. mgr \in [LeafKinds -> Seq(Leaves)] /\ mgr[k] \in Seq(Leaves)
  BY DEF QueuesTypeOK
<1>2. PICK t \in Seq(Leaves) : t = Tail(mgr[k])
  BY <1>1, TailValue
<1>3. Pop(mgr, k) = [mgr EXCEPT ![k] = t]
  BY <1>2 DEF Pop
<1>4. Head(mgr[k]) \in Leaves
  BY <1>1, TailValue
<1> QED
  BY <1>1, <1>2, <1>3, <1>4

LEMMA VCsWithoutValue ==
  ASSUME NEW lvcs \in [VCIds -> (SUBSET Servers) \cup {None}], NEW s
  PROVE  /\ VCsWithout(lvcs, s) \in [VCIds -> (SUBSET Servers) \cup {None}]
         /\ \A v \in VCIds : VCsWithout(lvcs, s)[v] = IF lvcs[v] = None \/ s \notin lvcs[v] THEN lvcs[v]
                                                     ELSE IF lvcs[v] = {s} THEN None
                                                     ELSE lvcs[v] \ {s}
BY DEF VCsWithout

LEMMA SpineSendKeepsBooks ==
  ASSUME BooksInv, NEW k \in Kinds, SpineSend(k)
  PROVE  BooksInv'
<1>1. /\ eg[k] # <<>> /\ eg' = Pop(eg, k) /\ bcast = None
      /\ SendToManager(k) \/ SendServer(k) \/ StartBroadcast(k)
      /\ UNCHANGED vars
      /\ UNCHANGED <<clientVars, chan, spineVars, mgrUp>>
  BY DEF SpineSend
<1>2. PICK m \in ToLeaf(k) : m = Head(eg[k])
  BY <1>1, PopEg DEF BooksInv
<1>3. m \in PacketsOf(k) /\ (k \in {"newServer", "failedServer"} => m.leaf \in Leaves)
  BY DEF ToLeaf
<1>4. EgTypeOK'
  BY <1>1, PopEg DEF BooksInv, EgTypeOK
<1>5. /\ bcast' \in PacketsOf("vc") \cup {None} /\ mgr' \in [LeafKinds -> Seq(Leaves)] /\ LeavesTypeOK'
  <2>1. CASE SendToManager(k)
    <3>1. k \in LeafKinds /\ m.node \in Leaves
      BY <1>3, <2>1, PacketValue DEF SendToManager, LeafKinds
    <3>2. mgr' = Push(mgr, k, m.node)
      BY <1>2, <2>1 DEF SendToManager
    <3>3. mgr' \in [LeafKinds -> Seq(Leaves)]
      BY <3>1, <3>2, MgrPushKeepsTypes DEF BooksInv
    <3> QED
      BY <2>1, <3>3 DEF SendToManager, BooksInv, QueuesTypeOK, LeavesTypeOK, leafVars
  <2>2. CASE SendServer(k)
    <3>1. /\ UNCHANGED <<bcast, mgr>>
          /\ \/ k = "newServer" /\ LeafAddServer(m.leaf, m.node)
             \/ k = "failedServer" /\ LeafFailServer(m.leaf, m.node)
             \/ UNCHANGED leafVars
      BY <1>2, <2>2 DEF SendServer
    <3>2. LeavesTypeOK'
      <4>1. CASE k = "newServer" /\ LeafAddServer(m.leaf, m.node)
        <5>1. m.node \in Servers /\ m.leaf \in Leaves
          BY <1>3, <4>1, PacketValue
        <5> QED
          BY <4>1, <5>1 DEF LeafAddServer, BooksInv, LeavesTypeOK
      <4>2. CASE k = "failedServer" /\ LeafFailServer(m.leaf, m.node)
        <5>1. m.node \in Servers /\ m.leaf \in Leaves
          BY <1>3, <4>2, PacketValue
        <5>2. lVCs[m.leaf] \in [VCIds -> (SUBSET Servers) \cup {None}]
          BY <5>1 DEF BooksInv, LeavesTypeOK
        <5>3. VCsWithout(lVCs[m.leaf], m.node) \in [VCIds -> (SUBSET Servers) \cup {None}]
          BY <5>2, VCsWithoutValue
        <5> QED
          BY <4>2, <5>1, <5>3 DEF LeafFailServer, BooksInv, LeavesTypeOK
      <4>3. CASE UNCHANGED leafVars
        BY <4>3 DEF BooksInv, LeavesTypeOK, leafVars
      <4> QED
        BY <3>1, <4>1, <4>2, <4>3
    <3> QED
      BY <3>1, <3>2 DEF BooksInv, QueuesTypeOK
  <2>3. CASE StartBroadcast(k)
    BY <1>2, <1>3, <2>3 DEF StartBroadcast, BooksInv, QueuesTypeOK, LeavesTypeOK, leafVars
  <2> QED
    BY <1>1, <2>1, <2>2, <2>3
<1>6. BooksOK' /\ (told \in Msg \cup {None})' /\ ToldIsFresh'
  BY <1>1, CentralUnchanged DEF BooksInv
<1>7. S!BooksOK'
  BY <1>1, SpineUnchanged DEF BooksInv
<1>8. QueuesTypeOK'
  BY <1>1, <1>4, <1>5 DEF BooksInv, QueuesTypeOK, EgTypeOK, clientVars
<1> QED
  BY <1>5, <1>6, <1>7, <1>8 DEF BooksInv

LEMMA BroadcastNextKeepsBooks ==
  ASSUME BooksInv, BroadcastNext
  PROVE  BooksInv'
<1>1. /\ bcast # None
      /\ UNCHANGED vars
      /\ UNCHANGED <<clientVars, chan, spineVars, eg, mgr, mgrUp, ctrl, lServers>>
  BY DEF BroadcastNext
<1>2. PICK l \in bcast.dsts :
        \/ /\ LeafUpdateVC(l, bcast, ServersAt(bcast, l))
           /\ bcast' = IF bcast.dsts = {l} THEN None ELSE [bcast EXCEPT !.dsts = @ \ {l}]
        \/ bcast' = None /\ UNCHANGED lVCs
  BY DEF BroadcastNext
<1>3. /\ bcast \in PacketsOf("vc") /\ bcast.node \in VCIds /\ bcast.dsts \subseteq Leaves
      /\ bcast.servers \subseteq Servers
  BY <1>1, PacketValue DEF BooksInv, QueuesTypeOK, Kinds
<1>4. lVCs' \in [Leaves -> [VCIds -> (SUBSET Servers) \cup {None}]]
  <2>1. CASE LeafUpdateVC(l, bcast, ServersAt(bcast, l))
    <3>1. PICK new \in (SUBSET Servers) \cup {None} : lVCs' = [lVCs EXCEPT ![l][bcast.node] = new]
      BY <1>3, <2>1 DEF LeafUpdateVC, ServersAt
    <3> QED
      BY <1>3, <3>1 DEF BooksInv, LeavesTypeOK
  <2> QED
    BY <1>2, <2>1 DEF BooksInv, LeavesTypeOK
<1>5. bcast' \in PacketsOf("vc") \cup {None}
  <2>1. [bcast EXCEPT !.dsts = @ \ {l}] \in PacketsOf("vc")
    BY <1>3 DEF PacketsOf, Packets
  <2> QED
    BY <1>2, <2>1
<1>6. BooksOK' /\ (told \in Msg \cup {None})' /\ ToldIsFresh'
  BY <1>1, CentralUnchanged DEF BooksInv
<1>7. S!BooksOK'
  BY <1>1, SpineUnchanged DEF BooksInv
<1>8. QueuesTypeOK' /\ LeavesTypeOK'
  BY <1>1, <1>4, <1>5 DEF BooksInv, QueuesTypeOK, LeavesTypeOK, clientVars
<1> QED
  BY <1>6, <1>7, <1>8 DEF BooksInv

LEMMA MgrAddLeafKeepsBooks ==
  ASSUME BooksInv, MgrAddLeaf
  PROVE  BooksInv'
<1>1. /\ mgr["newLeaf"] # <<>> /\ mgr' = Pop(mgr, "newLeaf")
      /\ UNCHANGED vars
      /\ UNCHANGED <<clientVars, chan, spineVars, eg, bcast, lVCs>>
  BY DEF MgrAddLeaf
<1>2. "newLeaf" \in LeafKinds
  BY DEF LeafKinds
<1>3. mgr' \in [LeafKinds -> Seq(Leaves)] /\ Head(mgr["newLeaf"]) \in Leaves
  BY <1>1, <1>2, MgrPopKeepsTypes DEF BooksInv
<1>4. mgrUp' \in BOOLEAN /\ ctrl' \in [Leaves -> {"down", "fetching", "listening", "up"}]
      /\ lServers' \in [Leaves -> SUBSET Servers]
  <2>1. PICK l \in Leaves : l = Head(mgr["newLeaf"])
    BY <1>3
  <2>2. \/ mgrUp' = FALSE /\ UNCHANGED <<ctrl, lServers>>
        \/ /\ ctrl' = [ctrl EXCEPT ![l] = "fetching"]
           /\ lServers' = [lServers EXCEPT ![l] = Children(l)]
           /\ UNCHANGED mgrUp
    BY <2>1 DEF MgrAddLeaf
  <2>3. Children(l) \in SUBSET Servers
    BY DEF Children
  <2> QED
    BY <2>2, <2>3 DEF BooksInv, QueuesTypeOK, LeavesTypeOK
<1>5. BooksOK' /\ (told \in Msg \cup {None})' /\ ToldIsFresh'
  BY <1>1, CentralUnchanged DEF BooksInv
<1>6. S!BooksOK'
  BY <1>1, SpineUnchanged DEF BooksInv
<1>7. QueuesTypeOK' /\ LeavesTypeOK'
  BY <1>1, <1>3, <1>4 DEF BooksInv, QueuesTypeOK, LeavesTypeOK, clientVars
<1> QED
  BY <1>5, <1>6, <1>7 DEF BooksInv

LEMMA MgrFailLeafKeepsBooks ==
  ASSUME BooksInv, MgrFailLeaf
  PROVE  BooksInv'
<1>1. /\ mgr["failedLeaf"] # <<>> /\ mgr' = Pop(mgr, "failedLeaf")
      /\ UNCHANGED vars
      /\ UNCHANGED <<clientVars, chan, spineVars, eg, bcast>>
  BY DEF MgrFailLeaf
<1>2. "failedLeaf" \in LeafKinds
  BY DEF LeafKinds
<1>3. mgr' \in [LeafKinds -> Seq(Leaves)] /\ Head(mgr["failedLeaf"]) \in Leaves
  BY <1>1, <1>2, MgrPopKeepsTypes DEF BooksInv
<1>4. mgrUp' \in BOOLEAN /\ LeavesTypeOK'
  <2>1. PICK l \in Leaves : l = Head(mgr["failedLeaf"])
    BY <1>3
  <2>2. /\ mgrUp' = (ctrl[l] # "listening")
        /\ \/ /\ ctrl' = [ctrl EXCEPT ![l] = "down"]
              /\ lServers' = [lServers EXCEPT ![l] = {}]
              /\ lVCs' = [lVCs EXCEPT ![l] = NoVCs]
           \/ UNCHANGED leafVars
    BY <2>1 DEF MgrFailLeaf
  <2>3. NoVCs \in [VCIds -> (SUBSET Servers) \cup {None}]
    BY DEF NoVCs
  <2>4. LeavesTypeOK'
    BY <2>2, <2>3 DEF BooksInv, LeavesTypeOK, leafVars
  <2> QED
    BY <2>2, <2>4
<1>5. BooksOK' /\ (told \in Msg \cup {None})' /\ ToldIsFresh'
  BY <1>1, CentralUnchanged DEF BooksInv
<1>6. S!BooksOK'
  BY <1>1, SpineUnchanged DEF BooksInv
<1>7. QueuesTypeOK'
  BY <1>1, <1>3, <1>4 DEF BooksInv, QueuesTypeOK, clientVars
<1> QED
  BY <1>4, <1>5, <1>6, <1>7 DEF BooksInv

LEMMA LeafListensKeepsBooks ==
  ASSUME BooksInv, NEW l \in Leaves, LeafListens(l)
  PROVE  BooksInv'
<1>1. /\ UNCHANGED vars
      /\ UNCHANGED <<clientVars, chan, spineVars, eg, bcast, mgr, mgrUp, lServers, lVCs>>
      /\ ctrl' = [ctrl EXCEPT ![l] = "listening"]
  BY DEF LeafListens
<1>2. BooksOK' /\ (told \in Msg \cup {None})' /\ ToldIsFresh'
  BY <1>1, CentralUnchanged DEF BooksInv
<1>3. S!BooksOK'
  BY <1>1, SpineUnchanged DEF BooksInv
<1>4. QueuesTypeOK' /\ LeavesTypeOK'
  BY <1>1 DEF BooksInv, QueuesTypeOK, LeavesTypeOK, clientVars
<1> QED
  BY <1>2, <1>3, <1>4 DEF BooksInv

\* the VCs a controller fetches are servers below its leaf
LEMMA FetchedVCValue ==
  ASSUME BooksInv, NEW l, NEW v
  PROVE  FetchedVC(l, v) \in SUBSET Servers
BY DEF FetchedVC, Children

LEMMA LeafStartsKeepsBooks ==
  ASSUME BooksInv, NEW l \in Leaves, LeafStarts(l)
  PROVE  BooksInv'
<1>1. /\ UNCHANGED vars
      /\ UNCHANGED <<clientVars, chan, spineVars, eg, bcast, mgr, mgrUp, lServers>>
      /\ ctrl' = [ctrl EXCEPT ![l] = "up"]
      /\ lVCs' = [lVCs EXCEPT ![l] = [v \in VCIds |->
           IF @[v] = None /\ v \in leafVCs[l] /\ FetchedVC(l, v) \subseteq lServers[l]
           THEN FetchedVC(l, v) ELSE @[v]]]
  BY DEF LeafStarts
<1>2. BooksOK' /\ (told \in Msg \cup {None})' /\ ToldIsFresh'
  BY <1>1, CentralUnchanged DEF BooksInv
<1>3. S!BooksOK'
  BY <1>1, SpineUnchanged DEF BooksInv
<1>4. lVCs' \in [Leaves -> [VCIds -> (SUBSET Servers) \cup {None}]]
  <2>1. PICK new \in [VCIds -> (SUBSET Servers) \cup {None}] : lVCs' = [lVCs EXCEPT ![l] = new]
    BY <1>1, FetchedVCValue DEF BooksInv, LeavesTypeOK
  <2> QED
    BY <2>1 DEF BooksInv, LeavesTypeOK
<1>5. QueuesTypeOK' /\ LeavesTypeOK'
  BY <1>1, <1>4 DEF BooksInv, QueuesTypeOK, LeavesTypeOK, clientVars
<1> QED
  BY <1>2, <1>3, <1>5 DEF BooksInv

LEMMA NextKeepsBooksInv ==
  ASSUME BooksInv, [PropNext]_propVars
  PROVE  BooksInv'
<1>1. CASE PropNext
  BY <1>1, CallKeepsBooks, PutKeepsBooks, CentralSendKeepsBooks, SpineSendKeepsBooks,
     BroadcastNextKeepsBooks, MgrAddLeafKeepsBooks, MgrFailLeafKeepsBooks,
     LeafListensKeepsBooks, LeafStartsKeepsBooks DEF PropNext, Progress
<1>2. CASE UNCHANGED propVars
  <2>1. UNCHANGED vars /\ UNCHANGED spineVars
        /\ UNCHANGED <<gone, chan, eg, bcast, mgr, mgrUp, ctrl, lServers, lVCs>>
    BY <1>2 DEF propVars, clientVars, leafVars
  <2>2. BooksOK' /\ (told \in Msg \cup {None})' /\ ToldIsFresh' /\ S!BooksOK'
    BY <2>1, CentralUnchanged, SpineUnchanged DEF BooksInv
  <2>3. QueuesTypeOK' /\ LeavesTypeOK'
    BY <2>1 DEF BooksInv, QueuesTypeOK, LeavesTypeOK
  <2> QED
    BY <2>2, <2>3 DEF BooksInv
<1> QED
  BY <1>1, <1>2

-----------------------------------------------------------------------------
(* The virtual clusters of a leaf controller.                              *)

LeafOK(l) ==
  /\ \A v \in VCIds : lVCs[l][v] # None => lVCs[l][v] \subseteq lServers[l]
  /\ ctrl[l] \in {"down", "fetching"} => lVCs[l] = NoVCs

LEMMA LeafInvIsLeafOK == LeafInv <=> \A l \in Leaves : LeafOK(l)
BY DEF LeafInv, LeafVCsOfServers, LeafOK

LEMMA NoVCsAreOK ==
  ASSUME NEW l, lVCs[l] = NoVCs
  PROVE  LeafOK(l)
BY DEF LeafOK, NoVCs

LEMMA InitLeafInv ==
  ASSUME PropInit
  PROVE  LeafInv
<1>1. \A l \in Leaves : lVCs[l] = NoVCs
  BY DEF PropInit
<1> QED
  BY <1>1 DEF LeafInv, LeafVCsOfServers, NoVCs

LEMMA UnchangedKeepsLeafInv ==
  ASSUME LeafInv, UNCHANGED leafVars
  PROVE  LeafInv'
BY DEF LeafInv, LeafVCsOfServers, leafVars

LEMMA SendServerKeepsLeafInv ==
  ASSUME BooksInv, LeafInv, NEW k \in Kinds, eg[k] # <<>>, SendServer(k)
  PROVE  LeafInv'
<1>1. PICK m \in ToLeaf(k) : m = Head(eg[k])
  BY PopEg DEF BooksInv
<1>2. LeavesTypeOK
  BY DEF BooksInv
<1>3. CASE k = "newServer" /\ LeafAddServer(m.leaf, m.node)
  <2>1. m.leaf \in Leaves
    BY <1>3 DEF ToLeaf
  <2>2. /\ UNCHANGED <<ctrl, lVCs>>
        /\ \A l \in Leaves : lServers[l] \subseteq lServers'[l]
    BY <1>2, <1>3, <2>1 DEF LeafAddServer, LeavesTypeOK
  <2> QED
    BY <2>2 DEF LeafInv, LeafVCsOfServers
<1>4. CASE k = "failedServer" /\ LeafFailServer(m.leaf, m.node)
  <2>1. PICK l \in Leaves : l = m.leaf
    BY <1>4 DEF ToLeaf
  <2>2. PICK s : s = m.node
    OBVIOUS
  <2>3. CASE Reachable(l) /\ s \in lServers[l]
    <3>1. /\ lServers' = [lServers EXCEPT ![l] = @ \ {s}]
          /\ lVCs' = [lVCs EXCEPT ![l] = VCsWithout(@, s)]
          /\ ctrl' = ctrl
      BY <1>4, <2>1, <2>2, <2>3 DEF LeafFailServer
    <3>2. /\ \A o \in Leaves \ {l} : lServers'[o] = lServers[o] /\ lVCs'[o] = lVCs[o]
          /\ lServers'[l] = lServers[l] \ {s} /\ lVCs'[l] = VCsWithout(lVCs[l], s)
      BY <1>2, <3>1 DEF LeavesTypeOK
    <3>3. ASSUME NEW v \in VCIds, lVCs'[l][v] # None
          PROVE  lVCs'[l][v] \subseteq lServers'[l]
      <4>1. lVCs'[l][v] = IF lVCs[l][v] = None \/ s \notin lVCs[l][v] THEN lVCs[l][v]
                          ELSE IF lVCs[l][v] = {s} THEN None
                          ELSE lVCs[l][v] \ {s}
        <5>1. PICK lvcs \in [VCIds -> (SUBSET Servers) \cup {None}] : lvcs = lVCs[l]
          BY <1>2 DEF LeavesTypeOK
        <5>2. VCsWithout(lvcs, s)[v] = IF lvcs[v] = None \/ s \notin lvcs[v] THEN lvcs[v]
                                       ELSE IF lvcs[v] = {s} THEN None
                                       ELSE lvcs[v] \ {s}
          BY VCsWithoutValue
        <5> QED
          BY <3>2, <5>1, <5>2
      <4>2. lVCs[l][v] # None => lVCs[l][v] \subseteq lServers[l]
        BY DEF LeafInv, LeafVCsOfServers
      <4> QED
        BY <3>2, <3>3, <4>1, <4>2
    <3>4. LeafOK(l)'
      BY <2>3, <3>1, <3>3 DEF LeafOK, Reachable
    <3>5. ASSUME NEW o \in Leaves \ {l}
          PROVE  LeafOK(o)'
      BY <3>1, <3>2, LeafInvIsLeafOK DEF LeafOK
    <3> QED
      BY <3>4, <3>5 DEF LeafInv, LeafVCsOfServers, LeafOK
  <2>4. CASE ~(Reachable(l) /\ s \in lServers[l])
    <3>1. UNCHANGED leafVars
      BY <1>4, <2>1, <2>2, <2>4 DEF LeafFailServer, leafVars
    <3> QED
      BY <3>1, UnchangedKeepsLeafInv
  <2> QED
    BY <2>3, <2>4
<1> QED
  BY <1>1, <1>3, <1>4, UnchangedKeepsLeafInv DEF SendServer

LEMMA BroadcastNextKeepsLeafInv ==
  ASSUME BooksInv, LeafInv, BroadcastNext
  PROVE  LeafInv'
<1>1. /\ bcast # None /\ UNCHANGED <<ctrl, lServers>>
  BY DEF BroadcastNext
<1>2. /\ bcast \in PacketsOf("vc") /\ bcast.node \in VCIds /\ bcast.dsts \subseteq Leaves
      /\ bcast.type \in {"addVC", "removeVC"} /\ bcast.servers \subseteq Servers
  BY <1>1, PacketValue DEF BooksInv, QueuesTypeOK, Kinds
<1>3. PICK l \in Leaves :
        \/ LeafAcceptsVC(l, bcast, ServersAt(bcast, l)) /\ LeafUpdateVC(l, bcast, ServersAt(bcast, l))
        \/ UNCHANGED lVCs
  BY <1>2 DEF BroadcastNext
<1>4. CASE UNCHANGED lVCs
  BY <1>1, <1>4, UnchangedKeepsLeafInv DEF leafVars
<1>5. CASE LeafAcceptsVC(l, bcast, ServersAt(bcast, l)) /\ LeafUpdateVC(l, bcast, ServersAt(bcast, l))
  <2>1. PICK new : /\ new = IF bcast.type = "addVC" THEN ServersAt(bcast, l) ELSE None
                   /\ lVCs' = [lVCs EXCEPT ![l][bcast.node] = new]
    BY <1>5 DEF LeafUpdateVC
  <2>2. Reachable(l) /\ (new # None => new \subseteq lServers[l])
    BY <1>5, <2>1 DEF LeafAcceptsVC
  <2>3. /\ \A o \in Leaves \ {l} : lVCs'[o] = lVCs[o]
        /\ \A v \in VCIds : lVCs'[l][v] = IF v = bcast.node THEN new ELSE lVCs[l][v]
    BY <1>2, <2>1 DEF BooksInv, LeavesTypeOK
  <2>4. LeafOK(l)'
    <3>1. \A v \in VCIds : lVCs[l][v] # None => lVCs[l][v] \subseteq lServers[l]
      BY DEF LeafInv, LeafVCsOfServers
    <3>2. ~(ctrl'[l] \in {"down", "fetching"})
      BY <1>1, <2>2 DEF Reachable
    <3>3. \A v \in VCIds : lVCs'[l][v] # None => lVCs'[l][v] \subseteq lServers'[l]
      BY <1>1, <2>2, <2>3, <3>1
    <3> QED
      BY <3>2, <3>3 DEF LeafOK
  <2>5. ASSUME NEW o \in Leaves \ {l}
        PROVE  LeafOK(o)'
    BY <1>1, <2>3, LeafInvIsLeafOK DEF LeafOK
  <2> QED
    BY <2>4, <2>5 DEF LeafInv, LeafVCsOfServers, LeafOK
<1> QED
  BY <1>3, <1>4, <1>5

LEMMA MgrAddLeafKeepsLeafInv ==
  ASSUME BooksInv, LeafInv, MgrAddLeaf, ctrl[Head(mgr["newLeaf"])] = "down"
  PROVE  LeafInv'
<1>1. mgr["newLeaf"] # <<>> /\ UNCHANGED lVCs /\ "newLeaf" \in LeafKinds
  BY DEF MgrAddLeaf, LeafKinds
<1>2. PICK l \in Leaves : l = Head(mgr["newLeaf"])
  BY <1>1, MgrPopKeepsTypes DEF BooksInv
<1>3. \/ UNCHANGED <<ctrl, lServers>>
      \/ /\ ctrl' = [ctrl EXCEPT ![l] = "fetching"]
         /\ lServers' = [lServers EXCEPT ![l] = Children(l)]
  BY <1>2 DEF MgrAddLeaf
<1>4. lVCs[l] = NoVCs
  BY <1>2 DEF LeafInv
<1>5. LeafOK(l)'
  BY <1>1, <1>4 DEF LeafOK, NoVCs
<1>6. ASSUME NEW o \in Leaves \ {l}
      PROVE  LeafOK(o)'
  <2>1. ctrl'[o] = ctrl[o] /\ lServers'[o] = lServers[o]
    BY <1>3 DEF BooksInv, LeavesTypeOK
  <2> QED
    BY <1>1, <2>1, LeafInvIsLeafOK DEF LeafOK
<1> QED
  BY <1>5, <1>6 DEF LeafInv, LeafVCsOfServers, LeafOK

LEMMA MgrFailLeafKeepsLeafInv ==
  ASSUME BooksInv, LeafInv, MgrFailLeaf
  PROVE  LeafInv'
<1>1. mgr["failedLeaf"] # <<>> /\ "failedLeaf" \in LeafKinds
  BY DEF MgrFailLeaf, LeafKinds
<1>2. PICK l \in Leaves : l = Head(mgr["failedLeaf"])
  BY <1>1, MgrPopKeepsTypes DEF BooksInv
<1>3. CASE UNCHANGED leafVars
  BY <1>3, UnchangedKeepsLeafInv
<1>4. CASE /\ ctrl' = [ctrl EXCEPT ![l] = "down"]
           /\ lServers' = [lServers EXCEPT ![l] = {}]
           /\ lVCs' = [lVCs EXCEPT ![l] = NoVCs]
  <2>1. /\ lVCs'[l] = NoVCs
        /\ \A o \in Leaves \ {l} : ctrl'[o] = ctrl[o] /\ lServers'[o] = lServers[o] /\ lVCs'[o] = lVCs[o]
    BY <1>4 DEF BooksInv, LeavesTypeOK
  <2>2. LeafOK(l)'
    BY <2>1 DEF LeafOK, NoVCs
  <2>3. ASSUME NEW o \in Leaves \ {l}
        PROVE  LeafOK(o)'
    BY <2>1, LeafInvIsLeafOK DEF LeafOK
  <2> QED
    BY <2>2, <2>3 DEF LeafInv, LeafVCsOfServers, LeafOK
<1> QED
  BY <1>2, <1>3, <1>4 DEF MgrFailLeaf

LEMMA LeafListensKeepsLeafInv ==
  ASSUME BooksInv, LeafInv, NEW l \in Leaves, LeafListens(l)
  PROVE  LeafInv'
<1>1. ctrl' = [ctrl EXCEPT ![l] = "listening"] /\ UNCHANGED <<lServers, lVCs>>
  BY DEF LeafListens
<1>2. \A o \in Leaves : ctrl'[o] = IF o = l THEN "listening" ELSE ctrl[o]
  BY <1>1 DEF BooksInv, LeavesTypeOK
<1> QED
  BY <1>1, <1>2 DEF LeafInv, LeafVCsOfServers

LEMMA LeafStartsKeepsLeafInv ==
  ASSUME BooksInv, LeafInv, NEW l \in Leaves, LeafStarts(l)
  PROVE  LeafInv'
<1>1. /\ ctrl' = [ctrl EXCEPT ![l] = "up"] /\ UNCHANGED lServers
      /\ lVCs' = [lVCs EXCEPT ![l] = [v \in VCIds |->
           IF @[v] = None /\ v \in leafVCs[l] /\ FetchedVC(l, v) \subseteq lServers[l]
           THEN FetchedVC(l, v) ELSE @[v]]]
  BY DEF LeafStarts
<1>2. /\ \A o \in Leaves \ {l} : ctrl'[o] = ctrl[o] /\ lVCs'[o] = lVCs[o]
      /\ ctrl'[l] = "up"
      /\ \A v \in VCIds : lVCs'[l][v] = lVCs[l][v] \/ lVCs'[l][v] \subseteq lServers[l]
  BY <1>1 DEF BooksInv, LeavesTypeOK
<1>3. LeafOK(l)'
  <2>1. \A v \in VCIds : lVCs[l][v] # None => lVCs[l][v] \subseteq lServers[l]
    BY DEF LeafInv, LeafVCsOfServers
  <2> QED
    BY <1>1, <1>2, <2>1 DEF LeafOK
<1>4. ASSUME NEW o \in Leaves \ {l}
      PROVE  LeafOK(o)'
  BY <1>1, <1>2, LeafInvIsLeafOK DEF LeafOK
<1> QED
  BY <1>3, <1>4 DEF LeafInv, LeafVCsOfServers, LeafOK

LEMMA NextKeepsLeafInv ==
  ASSUME BooksInv, LeafInv, [PropNext]_propVars,
         mgr["newLeaf"] # <<>> => ctrl[Head(mgr["newLeaf"])] = "down"
  PROVE  LeafInv'
<1>1. CASE Call \/ Put \/ UNCHANGED propVars
  <2>1. UNCHANGED leafVars
    BY <1>1 DEF Call, Put, propVars
  <2> QED
    BY <2>1, UnchangedKeepsLeafInv
<1>2. ASSUME NEW k \in Kinds, CentralSend(k)
      PROVE  LeafInv'
  BY <1>2, UnchangedKeepsLeafInv DEF CentralSend
<1>3. ASSUME NEW k \in Kinds, SpineSend(k)
      PROVE  LeafInv'
  <2>1. eg[k] # <<>>
    BY <1>3 DEF SpineSend
  <2>2. SendServer(k) \/ UNCHANGED leafVars
    BY <1>3 DEF SpineSend, SendToManager, StartBroadcast
  <2> QED
    BY <2>1, <2>2, SendServerKeepsLeafInv, UnchangedKeepsLeafInv
<1>4. CASE BroadcastNext
  BY <1>4, BroadcastNextKeepsLeafInv
<1>5. CASE MgrAddLeaf
  BY <1>5, MgrAddLeafKeepsLeafInv DEF MgrAddLeaf
<1>6. CASE MgrFailLeaf
  BY <1>6, MgrFailLeafKeepsLeafInv
<1>7. ASSUME NEW l \in Leaves, LeafListens(l) \/ LeafStarts(l)
      PROVE  LeafInv'
  BY <1>7, LeafListensKeepsLeafInv, LeafStartsKeepsLeafInv
<1> QED
  BY <1>1, <1>2, <1>3, <1>4, <1>5, <1>6, <1>7 DEF PropNext, Progress

-----------------------------------------------------------------------------
(* However messages overtake each other, and whatever is lost, both        *)
(* controllers keep consistent books: NewLeaf, FailLeaf, NewServer,        *)
(* FailServer, AddVC and RemoveVC of rpc_endpoint_spine.go included.       *)
THEOREM BooksAlwaysConsistent == PropSpec => []BooksInv
<1>1. PropInit => BooksInv
  BY InitBooksInv
<1>2. BooksInv /\ [PropNext]_propVars => BooksInv'
  BY NextKeepsBooksInv
<1> QED
  BY <1>1, <1>2, PTL DEF PropSpec

(* The lists of the spine controller name each other: no orphan, no dead   *)
(* server in a virtual cluster, no list that lags behind another.          *)
THEOREM SpineBooksAlwaysConsistent == PropSpec => []SpineBooksConsistent
<1>1. BooksInv => SpineBooksConsistent
  BY DEF BooksInv, SpineBooksConsistent,
         S!BooksOK, S!NoOrphans, S!ServerListsMatchVCs, S!LeafListsMatchVCs,
         S!LeavesAreOfServers, S!VCServersExist,
         Spine!NoOrphans, Spine!ServerListsMatchVCs, Spine!LeafListsMatchVCs,
         Spine!LeavesAreOfServers, Spine!VCServersExist,
         S!VCNames, S!Children, Spine!VCNames, Spine!Children
<1> QED
  BY <1>1, BooksAlwaysConsistent, PTL

-----------------------------------------------------------------------------
(* A client that does not wait: the message that starts a controller.      *)

LEMMA HasAppend ==
  ASSUME NEW q \in Seq(Packets), NEW m \in Packets
  PROVE  /\ \A l \in Leaves : Has(Append(q, m), l) <=> Has(q, l) \/ m.node = l
         /\ Once(q) /\ ~Has(q, m.node) => Once(Append(q, m))
<1>1. PICK a \in Seq(Packets) : a = Append(q, m)
  BY AppendValue
<1>2. /\ Len(q) \in Nat /\ Len(a) = Len(q) + 1 /\ a[Len(q) + 1] = m
      /\ \A i \in 1 .. Len(q) : a[i] = q[i]
  BY <1>1, AppendValue
<1> QED
  BY <1>1, <1>2 DEF Has, Once

LEMMA HasTail ==
  ASSUME NEW q \in Seq(Packets), q # <<>>, Once(q)
  PROVE  /\ \A l \in Leaves : Has(q, l) <=> Has(Tail(q), l) \/ Head(q).node = l
         /\ Once(Tail(q)) /\ ~Has(Tail(q), Head(q).node)
<1>1. PICK t \in Seq(Packets) : t = Tail(q)
  BY TailValue
<1>2. /\ Len(q) \in Nat \ {0} /\ Len(t) = Len(q) - 1 /\ Head(q) = q[1]
      /\ \A i \in 1 .. Len(t) : t[i] = q[i + 1]
  BY <1>1, TailValue
<1>3. \A i \in 2 .. Len(q) : i - 1 \in 1 .. Len(t) /\ q[i] = t[i - 1]
  BY <1>2
<1>4. \A l \in Leaves : Has(q, l) <=> Has(t, l) \/ q[1].node = l
  BY <1>2, <1>3 DEF Has
<1>5. Once(t)
  BY <1>2 DEF Once
<1>6. ~Has(t, q[1].node)
  BY <1>2 DEF Has, Once
<1> QED
  BY <1>1, <1>2, <1>4, <1>5, <1>6

LEMMA NamesAppend ==
  ASSUME NEW q \in Seq(Leaves), NEW m \in Leaves
  PROVE  /\ \A l \in Leaves : Names(Append(q, m), l) <=> Names(q, l) \/ m = l
         /\ NamesOnce(q) /\ ~Names(q, m) => NamesOnce(Append(q, m))
<1>1. PICK a \in Seq(Leaves) : a = Append(q, m)
  BY AppendValue
<1>2. /\ Len(q) \in Nat /\ Len(a) = Len(q) + 1 /\ a[Len(q) + 1] = m
      /\ \A i \in 1 .. Len(q) : a[i] = q[i]
  BY <1>1, AppendValue
<1> QED
  BY <1>1, <1>2 DEF Names, NamesOnce

LEMMA NamesTail ==
  ASSUME NEW q \in Seq(Leaves), q # <<>>, NamesOnce(q)
  PROVE  /\ \A l \in Leaves : Names(q, l) <=> Names(Tail(q), l) \/ Head(q) = l
         /\ NamesOnce(Tail(q)) /\ ~Names(Tail(q), Head(q))
<1>1. PICK t \in Seq(Leaves) : t = Tail(q)
  BY TailValue
<1>2. /\ Len(q) \in Nat \ {0} /\ Len(t) = Len(q) - 1 /\ Head(q) = q[1]
      /\ \A i \in 1 .. Len(t) : t[i] = q[i + 1]
  BY <1>1, TailValue
<1>3. \A i \in 2 .. Len(q) : i - 1 \in 1 .. Len(t) /\ q[i] = t[i - 1]
  BY <1>2
<1>4. \A l \in Leaves : Names(q, l) <=> Names(t, l) \/ q[1] = l
  BY <1>2, <1>3 DEF Names
<1>5. NamesOnce(t)
  BY <1>2 DEF NamesOnce
<1>6. ~Names(t, q[1])
  BY <1>2 DEF Names, NamesOnce
<1> QED
  BY <1>1, <1>2, <1>4, <1>5, <1>6

(* Nothing that StartsOnce is about changes.                               *)
LEMMA UnchangedKeepsStartsOnce ==
  ASSUME StartsOnce, \A l \in Leaves : HasBeen(l)' <=> HasBeen(l), ctrl' = ctrl,
         \A l \in Leaves : Told(l)' <=> Told(l),
         chan'["newLeaf"] = chan["newLeaf"], eg'["newLeaf"] = eg["newLeaf"],
         mgr'["newLeaf"] = mgr["newLeaf"]
  PROVE  StartsOnce'
<1>1. \A l \in Leaves : /\ InChan(l)' <=> InChan(l)
                        /\ InEg(l)' <=> InEg(l)
                        /\ InMgr(l)' <=> InMgr(l)
  BY DEF InChan, InEg, InMgr
<1> QED
  BY <1>1 DEF StartsOnce, Waits

LEMMA InitStartsOnce ==
  ASSUME PropInit
  PROVE  StartsOnce
<1>1. \A l \in Leaves : ~Waits(l)
  BY DEF PropInit, Waits, Told, InChan, InEg, InMgr, Has, Names, Kinds, LeafKinds
<1>2. Once(chan["newLeaf"]) /\ Once(eg["newLeaf"]) /\ NamesOnce(mgr["newLeaf"])
  BY DEF PropInit, Once, NamesOnce, Kinds, LeafKinds
<1>3. \A l \in Leaves : ~HasBeen(l) => ctrl[l] = "down"
  BY DEF PropInit, HasBeen
<1> QED
  BY <1>1, <1>2, <1>3 DEF StartsOnce, Waits

LEMMA CallKeepsStartsOnce ==
  ASSUME BooksInv, StartsOnce, ~Paced, Call
  PROVE  StartsOnce'
<1>1. UNCHANGED <<chan, spineVars, eg, bcast, mgr, mgrUp, leafVars>> /\ told = None
  BY DEF Call
<1>2. /\ \A l \in Leaves : /\ InChan(l)' <=> InChan(l)
                           /\ InEg(l)' <=> InEg(l)
                           /\ InMgr(l)' <=> InMgr(l)
      /\ ctrl' = ctrl
      /\ (Once(chan["newLeaf"]) /\ Once(eg["newLeaf"]) /\ NamesOnce(mgr["newLeaf"]))'
           <=> Once(chan["newLeaf"]) /\ Once(eg["newLeaf"]) /\ NamesOnce(mgr["newLeaf"])
  BY <1>1 DEF InChan, InEg, InMgr, leafVars
<1>3. \A l \in Leaves : ~Told(l)
  BY <1>1 DEF Told
<1>4. ASSUME NEW l \in Leaves, NEW sp \in Spines, l \notin gone, AddLeaf(l, sp), UNCHANGED gone
      PROVE  StartsOnce'
  <2>1. ~HasBeen(l)
    BY <1>4 DEF AddLeaf, InsertLeaf, HasBeen
  <2>2. sp # None
    BY NoneIsNoNode
  <2>3. \A o \in Leaves : Told(o)' <=> o = l
    <3>1. told' = [type |-> "newLeaf", node |-> l, spines |-> {sp}]
      BY <1>4 DEF AddLeaf, Tell
    <3>2. told' \in Msg
      BY <3>1 DEF Msg
    <3> QED
      BY <3>1, <3>2, NoneIsNoRecord DEF Told
  <2>4. \A o \in Leaves : HasBeen(o)' <=> HasBeen(o) \/ o = l
    BY <1>4, <2>2 DEF AddLeaf, InsertLeaf, HasBeen, BooksInv, BooksOK, BooksTypeOK, TreeTypeOK
  <2> QED
    BY <1>2, <1>3, <2>1, <2>3, <2>4 DEF StartsOnce, Waits
<1>5. ASSUME NEW l \in Leaves, FailLeaf(l), gone' = gone \cup {l}
      PROVE  StartsOnce'
  <2>1. \A o \in Leaves : ~Told(o)'
    BY <1>5 DEF FailLeaf, Tell, Told
  <2>2. \A o \in Leaves : HasBeen(o)' <=> HasBeen(o)
    BY <1>5 DEF FailLeaf, DeleteLeaf, HasBeen, BooksInv, BooksOK, BooksTypeOK, TreeTypeOK
  <2> QED
    BY <1>2, <1>3, <2>1, <2>2 DEF StartsOnce, Waits
<1>6. ASSUME UNCHANGED <<spineOf, gone>>, told' = None \/ told'.type # "newLeaf"
      PROVE  StartsOnce'
  <2>1. \A o \in Leaves : ~Told(o)' /\ (HasBeen(o)' <=> HasBeen(o))
    BY <1>6 DEF Told, HasBeen
  <2> QED
    BY <1>2, <1>3, <2>1 DEF StartsOnce, Waits
<1>7. ASSUME NEW s \in Servers, NEW l \in Leaves, AddServer(s, l), UNCHANGED gone
      PROVE  StartsOnce'
  BY <1>6, <1>7 DEF AddServer, InsertServer, Tell
<1>8. ASSUME NEW s \in Servers, FailServer(s), UNCHANGED gone
      PROVE  StartsOnce'
  BY <1>6, <1>8 DEF FailServer, DeleteServer, Tell
<1>9. ASSUME NEW v \in VCIds, NEW servers \in SUBSET Servers, AddVC(v, Spines, servers), UNCHANGED gone
      PROVE  StartsOnce'
  BY <1>6, <1>9 DEF AddVC, Tell, treeVars
<1>10. ASSUME NEW v \in VCIds, RemoveVC(v), UNCHANGED gone
       PROVE  StartsOnce'
  BY <1>6, <1>10 DEF RemoveVC, Tell, treeVars
<1> QED
  BY <1>4, <1>5, <1>7, <1>8, <1>9, <1>10 DEF Call

LEMMA PutKeepsStartsOnce ==
  ASSUME BooksInv, StartsOnce, Put
  PROVE  StartsOnce'
<1>1. /\ told # None /\ told' = None /\ chan' = Push(chan, KindOf(told), ToldPacket)
      /\ UNCHANGED <<centralVars, clientVars, spineVars, eg, bcast, mgr, mgrUp, leafVars>>
  BY DEF Put, ToldPacket
<1>2. PICK m : m = ToldPacket
  OBVIOUS
<1>3. PICK k \in Kinds : k = KindOf(told) /\ m \in ToSpine(k)
  BY <1>1, <1>2, ToldPacketValue
<1>4. m \in Packets /\ m.type = told.type /\ m.node = told.node
  BY <1>1, <1>2, <1>3, ToldPacketValue DEF ToSpine, PacketsOf
<1>5. chan'["newLeaf"] = IF k = "newLeaf" THEN Append(chan["newLeaf"], m) ELSE chan["newLeaf"]
  BY <1>1, <1>2, <1>3, PushChan DEF BooksInv, Kinds
<1>6. k = "newLeaf" <=> told.type = "newLeaf"
  BY <1>3, <1>4 DEF ToSpine, PacketsOf, TypesOf, KindOf, Kinds
<1>7. \A l \in Leaves : /\ ~Told(l)' /\ (HasBeen(l)' <=> HasBeen(l))
                        /\ InEg(l)' <=> InEg(l)
                        /\ InMgr(l)' <=> InMgr(l)
                        /\ ctrl' = ctrl
  BY <1>1 DEF Told, HasBeen, InEg, InMgr, centralVars, clientVars, leafVars
<1>8. (Once(eg["newLeaf"]) /\ NamesOnce(mgr["newLeaf"]))' <=> Once(eg["newLeaf"]) /\ NamesOnce(mgr["newLeaf"])
  BY <1>1
<1>9. CASE k = "newLeaf"
  <2>1. chan["newLeaf"] \in Seq(Packets)
    BY DEF BooksInv, QueuesTypeOK, Kinds
  <2>2. \A l \in Leaves : InChan(l)' <=> InChan(l) \/ m.node = l
    BY <1>4, <1>5, <1>9, <2>1, HasAppend DEF InChan
  <2>3. m.node \in Leaves
    BY <1>3, <1>9 DEF ToSpine, PacketsOf, NodesOf, LeafKinds
  <2>4. \A l \in Leaves : Told(l) <=> m.node = l
    BY <1>1, <1>4, <1>6, <1>9 DEF Told
  <2>5. ~Has(chan["newLeaf"], m.node)
    BY <2>3, <2>4 DEF StartsOnce, InChan
  <2>6. Once(chan["newLeaf"])'
    BY <1>4, <1>5, <1>9, <2>1, <2>5, HasAppend DEF StartsOnce
  <2> QED
    BY <1>7, <1>8, <2>2, <2>4, <2>6 DEF StartsOnce, Waits
<1>10. CASE k # "newLeaf"
  <2>1. \A l \in Leaves : ~Told(l)
    BY <1>6, <1>10 DEF Told
  <2>2. \A l \in Leaves : Told(l)' <=> Told(l)
    BY <1>7, <2>1
  <2> QED
    BY <1>1, <1>5, <1>7, <1>10, <2>2, UnchangedKeepsStartsOnce DEF leafVars
<1> QED
  BY <1>9, <1>10

(* A handler of the spine queues a message of the kind it got, or none.    *)
LEMMA SpineHandleQueues ==
  ASSUME BooksInv, NEW k \in Kinds, NEW m \in ToSpine(k), SpineHandle(m)
  PROVE  /\ k # "newLeaf" => eg'["newLeaf"] = eg["newLeaf"]
         /\ k = "newLeaf" => \E p \in Packets : /\ p.node = m.node
                                                /\ eg'["newLeaf"] = Append(eg["newLeaf"], p)
<1>1. m \in PacketsOf(k)
  BY DEF ToSpine
<1>2. KindOf(m) = k /\ m.servers \subseteq Servers
  BY <1>1, PacketValue
<1>3. eg \in [Kinds -> Seq(Packets)]
  BY DEF BooksInv, QueuesTypeOK
<1>4. CASE k = "newLeaf"
  <2>1. m.type = "newLeaf" /\ m.node \in Leaves
    BY <1>1, <1>4 DEF PacketsOf, TypesOf, NodesOf, LeafKinds
  <2>2. PICK p : p = Packet("newLeaf", m.node, None, m.servers, {})
    OBVIOUS
  <2>3. p \in Packets /\ p.node = m.node
    BY <1>2, <2>1, <2>2 DEF Packet, Packets
  <2>4. eg' = Push(eg, "newLeaf", p)
    BY <1>2, <1>4, <2>1, <2>2 DEF SpineHandle, SpineAddLeaf, Queue
  <2>5. eg'["newLeaf"] = Append(eg["newLeaf"], p)
    BY <1>3, <2>4 DEF Push, Kinds
  <2> QED
    BY <1>4, <2>3, <2>5
<1>5. CASE k # "newLeaf"
  <2>1. m.type # "newLeaf"
    BY <1>1, <1>5 DEF PacketsOf, TypesOf, Kinds
  <2>2. ASSUME NEW leaf, NEW dsts, Queue(m, leaf, dsts)
        PROVE  eg'["newLeaf"] = eg["newLeaf"]
    BY <1>2, <1>3, <1>5, <2>2 DEF Queue, Push, Kinds
  <2>3. eg' = eg \/ \E leaf, dsts : Queue(m, leaf, dsts)
    BY <2>1 DEF SpineHandle, SpineFailLeaf, SpineAddServer, SpineFailServer, SpineAddVC, SpineRemoveVC
  <2> QED
    BY <1>5, <2>2, <2>3
<1> QED
  BY <1>4, <1>5

LEMMA CentralSendKeepsStartsOnce ==
  ASSUME BooksInv, StartsOnce, NEW k \in Kinds, CentralSend(k)
  PROVE  StartsOnce'
<1>1. /\ chan[k] # <<>> /\ chan' = Pop(chan, k)
      /\ UNCHANGED vars
      /\ UNCHANGED <<clientVars, bcast, mgr, mgrUp, leafVars>>
  BY DEF CentralSend
<1>2. PICK m \in ToSpine(k) : m = Head(chan[k])
  BY <1>1, PopChan DEF BooksInv
<1>3. chan'["newLeaf"] = IF k = "newLeaf" THEN Tail(chan["newLeaf"]) ELSE chan["newLeaf"]
  BY <1>1, PopChan DEF BooksInv, Kinds
<1>4. UNCHANGED eg \/ SpineHandle(m)
  BY <1>2 DEF CentralSend
<1>5. /\ ctrl' = ctrl /\ mgr' = mgr
      /\ \A l \in Leaves : /\ Told(l)' <=> Told(l)
                           /\ HasBeen(l)' <=> HasBeen(l)
                           /\ InMgr(l)' <=> InMgr(l)
  BY <1>1 DEF Told, HasBeen, InMgr, vars, clientVars, leafVars
<1>6. CASE k = "newLeaf"
  <2>1. chan["newLeaf"] \in Seq(Packets) /\ eg["newLeaf"] \in Seq(Packets)
    BY DEF BooksInv, QueuesTypeOK, Kinds
  <2>2. m.node \in Leaves
    BY <1>6 DEF ToSpine, PacketsOf, NodesOf, LeafKinds
  <2>3. /\ \A l \in Leaves : InChan(l) <=> InChan(l)' \/ m.node = l
        /\ Once(chan["newLeaf"])' /\ ~InChan(m.node)'
    BY <1>1, <1>2, <1>3, <1>6, <2>1, HasTail DEF InChan, StartsOnce
  <2>4. ~InEg(m.node) /\ ~InMgr(m.node) /\ ~Told(m.node)
    BY <2>2, <2>3 DEF StartsOnce
  <2>5. /\ \A l \in Leaves : InEg(l)' => InEg(l) \/ l = m.node
        /\ Once(eg["newLeaf"])'
    <3>1. CASE UNCHANGED eg
      BY <3>1 DEF InEg, StartsOnce
    <3>2. CASE SpineHandle(m)
      <4>1. PICK p \in Packets : p.node = m.node /\ eg'["newLeaf"] = Append(eg["newLeaf"], p)
        BY <1>6, <3>2, SpineHandleQueues
      <4>2. ~Has(eg["newLeaf"], p.node)
        BY <2>4, <4>1 DEF InEg
      <4> QED
        BY <2>1, <4>1, <4>2, HasAppend DEF InEg, StartsOnce
    <3> QED
      BY <1>4, <3>1, <3>2
  <2>6. NamesOnce(mgr["newLeaf"])'
    BY <1>5 DEF StartsOnce
  <2> QED
    BY <1>5, <2>2, <2>3, <2>4, <2>5, <2>6 DEF StartsOnce, Waits
<1>7. CASE k # "newLeaf"
  <2>1. eg'["newLeaf"] = eg["newLeaf"]
    BY <1>4, <1>7, SpineHandleQueues
  <2> QED
    BY <1>3, <1>5, <1>7, <2>1, UnchangedKeepsStartsOnce
<1> QED
  BY <1>6, <1>7

LEMMA SpineSendKeepsStartsOnce ==
  ASSUME BooksInv, StartsOnce, NEW k \in Kinds, SpineSend(k)
  PROVE  StartsOnce'
<1>1. /\ eg[k] # <<>> /\ eg' = Pop(eg, k)
      /\ SendToManager(k) \/ SendServer(k) \/ StartBroadcast(k)
      /\ UNCHANGED <<vars, clientVars, chan>>
  BY DEF SpineSend
<1>2. PICK m \in ToLeaf(k) : m = Head(eg[k])
  BY <1>1, PopEg DEF BooksInv
<1>3. eg'["newLeaf"] = IF k = "newLeaf" THEN Tail(eg["newLeaf"]) ELSE eg["newLeaf"]
  BY <1>1, PopEg DEF BooksInv, Kinds
<1>4. /\ ctrl' = ctrl /\ chan' = chan
      /\ \A l \in Leaves : /\ Told(l)' <=> Told(l)
                           /\ HasBeen(l)' <=> HasBeen(l)
                           /\ InChan(l)' <=> InChan(l)
  BY <1>1 DEF Told, HasBeen, InChan, vars, clientVars, leafVars,
              SendToManager, SendServer, StartBroadcast, LeafAddServer, LeafFailServer
<1>5. CASE k = "newLeaf"
  <2>1. eg["newLeaf"] \in Seq(Packets) /\ mgr["newLeaf"] \in Seq(Leaves)
    BY DEF BooksInv, QueuesTypeOK, Kinds, LeafKinds
  <2>2. PICK n \in Leaves : n = m.node
    BY <1>5 DEF ToLeaf, PacketsOf, NodesOf, LeafKinds
  <2>3. /\ \A l \in Leaves : InEg(l) <=> InEg(l)' \/ n = l
        /\ Once(eg["newLeaf"])' /\ ~InEg(n)'
    BY <1>1, <1>2, <1>3, <1>5, <2>1, <2>2, HasTail DEF InEg, StartsOnce
  <2>4. mgr' = Push(mgr, "newLeaf", n)
    BY <1>1, <1>2, <1>5, <2>2 DEF SendToManager, SendServer, StartBroadcast
  <2>5. mgr'["newLeaf"] = Append(mgr["newLeaf"], n)
    BY <2>4, MgrPushKeepsTypes DEF BooksInv, LeafKinds
  <2>6. ~InChan(n) /\ ~InMgr(n) /\ ~Told(n)
    BY <2>2, <2>3 DEF StartsOnce
  <2>7. /\ \A l \in Leaves : InMgr(l)' <=> InMgr(l) \/ l = n
        /\ NamesOnce(mgr["newLeaf"])'
    BY <2>1, <2>5, <2>6, NamesAppend DEF InMgr, StartsOnce
  <2>8. Once(chan["newLeaf"])'
    BY <1>4 DEF StartsOnce
  <2> QED
    BY <1>4, <2>2, <2>3, <2>6, <2>7, <2>8 DEF StartsOnce, Waits
<1>6. CASE k # "newLeaf"
  <2>1. mgr'["newLeaf"] = mgr["newLeaf"]
    <3>1. ASSUME SendToManager(k)
          PROVE  mgr'["newLeaf"] = mgr["newLeaf"]
      <4>1. PICK n : n = Head(eg[k]).node
        OBVIOUS
      <4>2. mgr' = Push(mgr, k, n) /\ mgr \in [LeafKinds -> Seq(Leaves)]
        BY <3>1, <4>1 DEF SendToManager, BooksInv, QueuesTypeOK
      <4> QED
        BY <1>6, <4>2 DEF Push, LeafKinds
    <3> QED
      BY <1>1, <3>1 DEF SendServer, StartBroadcast
  <2> QED
    BY <1>3, <1>4, <1>6, <2>1, UnchangedKeepsStartsOnce
<1> QED
  BY <1>5, <1>6

LEMMA MgrAddLeafKeepsStartsOnce ==
  ASSUME BooksInv, StartsOnce, MgrAddLeaf
  PROVE  StartsOnce'
<1>1. /\ mgr["newLeaf"] # <<>> /\ mgr' = Pop(mgr, "newLeaf")
      /\ UNCHANGED <<vars, clientVars, chan, eg>>
  BY DEF MgrAddLeaf
<1>2. PICK l \in Leaves : l = Head(mgr["newLeaf"])
  BY <1>1, MgrPopKeepsTypes DEF BooksInv, LeafKinds
<1>3. mgr'["newLeaf"] = Tail(mgr["newLeaf"]) /\ mgr["newLeaf"] \in Seq(Leaves)
  BY <1>1, MgrPopKeepsTypes DEF BooksInv, LeafKinds, QueuesTypeOK
<1>4. /\ \A o \in Leaves : InMgr(o) <=> InMgr(o)' \/ l = o
      /\ NamesOnce(mgr["newLeaf"])' /\ ~InMgr(l)'
  BY <1>1, <1>2, <1>3, NamesTail DEF InMgr, StartsOnce
<1>5. \A o \in Leaves \ {l} : ctrl'[o] = ctrl[o]
  BY <1>2 DEF MgrAddLeaf, BooksInv, LeavesTypeOK
<1>6. /\ \A o \in Leaves : /\ Told(o)' <=> Told(o)
                           /\ HasBeen(o)' <=> HasBeen(o)
                           /\ InChan(o)' <=> InChan(o)
                           /\ InEg(o)' <=> InEg(o)
      /\ chan' = chan /\ eg' = eg
  BY <1>1 DEF Told, HasBeen, InChan, InEg, vars, clientVars
<1>7. HasBeen(l) /\ ~Told(l) /\ ~InChan(l) /\ ~InEg(l)
  BY <1>4 DEF StartsOnce, Waits
<1>8. Once(chan["newLeaf"])' /\ Once(eg["newLeaf"])'
  BY <1>6 DEF StartsOnce
<1> QED
  BY <1>4, <1>5, <1>6, <1>7, <1>8 DEF StartsOnce, Waits

(* The controller of a leaf goes on, or is stopped: no leaf whose start    *)
(* is under way gets a controller.                                         *)
LEMMA ControllersKeepStartsOnce ==
  ASSUME StartsOnce, NEW l \in Leaves, ctrl[l] # "down" \/ ctrl'[l] = "down",
         \A o \in Leaves \ {l} : ctrl'[o] = ctrl[o],
         UNCHANGED <<vars, clientVars, chan, eg>>, mgr'["newLeaf"] = mgr["newLeaf"]
  PROVE  StartsOnce'
<1>1. \A o \in Leaves : /\ Told(o)' <=> Told(o)
                        /\ HasBeen(o)' <=> HasBeen(o)
                        /\ InChan(o)' <=> InChan(o)
                        /\ InEg(o)' <=> InEg(o)
                        /\ InMgr(o)' <=> InMgr(o)
  BY DEF Told, HasBeen, InChan, InEg, InMgr, vars, clientVars
<1>2. /\ Once(chan["newLeaf"])' /\ Once(eg["newLeaf"])'
      /\ NamesOnce(mgr["newLeaf"])'
  BY DEF StartsOnce
<1> QED
  BY <1>1, <1>2 DEF StartsOnce, Waits

LEMMA NextKeepsStartsOnce ==
  ASSUME BooksInv, StartsOnce, ~Paced, [PropNext]_propVars
  PROVE  StartsOnce'
<1>1. CASE UNCHANGED propVars
  <2>1. /\ UNCHANGED <<vars, clientVars, chan, eg, mgr>> /\ ctrl' = ctrl
    BY <1>1 DEF propVars, leafVars
  <2>2. \A o \in Leaves : Told(o)' <=> Told(o)
    BY <2>1 DEF Told, vars
  <2>3. \A o \in Leaves : HasBeen(o)' <=> HasBeen(o)
    BY <2>1 DEF HasBeen, vars, clientVars
  <2> QED
    BY <2>1, <2>2, <2>3, UnchangedKeepsStartsOnce
<1>2. CASE BroadcastNext
  <2>1. /\ UNCHANGED <<vars, clientVars, chan, eg, mgr>> /\ ctrl' = ctrl
    BY <1>2 DEF BroadcastNext
  <2>2. \A o \in Leaves : Told(o)' <=> Told(o)
    BY <2>1 DEF Told, vars
  <2>3. \A o \in Leaves : HasBeen(o)' <=> HasBeen(o)
    BY <2>1 DEF HasBeen, vars, clientVars
  <2> QED
    BY <2>1, <2>2, <2>3, UnchangedKeepsStartsOnce
<1>3. ASSUME NEW l \in Leaves, LeafListens(l) \/ LeafStarts(l)
      PROVE  StartsOnce'
  <2>1. /\ ctrl[l] # "down" /\ UNCHANGED <<vars, clientVars, chan, eg, mgr>>
        /\ \E stage : ctrl' = [ctrl EXCEPT ![l] = stage]
    BY <1>3 DEF LeafListens, LeafStarts
  <2>2. \A o \in Leaves \ {l} : ctrl'[o] = ctrl[o]
    BY <2>1 DEF BooksInv, LeavesTypeOK
  <2> QED
    BY <2>1, <2>2, ControllersKeepStartsOnce
<1>4. CASE MgrFailLeaf
  <2>1. /\ mgr["failedLeaf"] # <<>> /\ mgr' = Pop(mgr, "failedLeaf")
        /\ UNCHANGED <<vars, clientVars, chan, eg>>
    BY <1>4 DEF MgrFailLeaf
  <2>2. PICK l \in Leaves : l = Head(mgr["failedLeaf"])
    BY <2>1, MgrPopKeepsTypes DEF BooksInv, LeafKinds
  <2>3. mgr'["newLeaf"] = mgr["newLeaf"]
    BY <2>1, MgrPopKeepsTypes DEF BooksInv, LeafKinds
  <2>4. ctrl' = ctrl \/ ctrl' = [ctrl EXCEPT ![l] = "down"]
    BY <1>4, <2>2 DEF MgrFailLeaf, leafVars
  <2>5. /\ ctrl[l] # "down" \/ ctrl'[l] = "down"
        /\ \A o \in Leaves \ {l} : ctrl'[o] = ctrl[o]
    BY <2>4 DEF BooksInv, LeavesTypeOK
  <2> QED
    BY <2>1, <2>3, <2>5, ControllersKeepStartsOnce
<1> QED
  BY <1>1, <1>2, <1>3, <1>4, CallKeepsStartsOnce, PutKeepsStartsOnce, CentralSendKeepsStartsOnce,
     SpineSendKeepsStartsOnce, MgrAddLeafKeepsStartsOnce DEF PropNext, Progress

LEMMA StartsFindNoController ==
  ASSUME BooksInv, StartsOnce, mgr["newLeaf"] # <<>>
  PROVE  ctrl[Head(mgr["newLeaf"])] = "down"
<1>1. PICK l \in Leaves : l = Head(mgr["newLeaf"])
  BY MgrPopKeepsTypes DEF BooksInv, LeafKinds
<1>2. mgr["newLeaf"] \in Seq(Leaves)
  BY DEF BooksInv, QueuesTypeOK, LeafKinds
<1>3. l = mgr["newLeaf"][1] /\ Len(mgr["newLeaf"]) \in Nat \ {0}
  BY <1>1, <1>2, TailValue
<1>4. InMgr(l)
  BY <1>3 DEF InMgr, Names
<1> QED
  BY <1>1, <1>4 DEF StartsOnce, Waits

(* A client that does not wait for its calls.                              *)
LEMMA LeafVCsOfServersUnpaced == ~Paced => (PropSpec => []LeafVCsOfServers)
<1> SUFFICES ASSUME ~Paced PROVE PropSpec => []LeafVCsOfServers
  OBVIOUS
<1> DEFINE I == BooksInv /\ LeafInv /\ StartsOnce
<1>1. PropInit => I
  BY InitBooksInv, InitLeafInv, InitStartsOnce
<1>2. I /\ [PropNext]_propVars => I'
  BY NextKeepsBooksInv, NextKeepsLeafInv, NextKeepsStartsOnce, StartsFindNoController
<1>3. I => LeafVCsOfServers
  BY DEF LeafInv
<1> QED
  BY <1>1, <1>2, <1>3, PTL DEF PropSpec

-----------------------------------------------------------------------------
(* A client that waits.                                                    *)

LEMMA SpineOperatorsUnchanged ==
  ASSUME UNCHANGED spineVars
  PROVE  /\ \A l \in Leaves : S!Children(l)' = S!Children(l)
         /\ \A l \in Leaves, v \in VCIds : S!LostWithLeaf(v, l)' = S!LostWithLeaf(v, l)
         /\ \A l \in Leaves : S!EmptiedByLeaf(l)' = S!EmptiedByLeaf(l)
         /\ \A l \in Leaves, s \in Servers : S!ServerVCsAfter(s, l)' = S!ServerVCsAfter(s, l)
         /\ \A s \in Servers : S!Detached(s)' = S!Detached(s)
         /\ \A s \in Servers : S!EmptiedByServer(s)' = S!EmptiedByServer(s)
         /\ \A l \in Leaves, v \in VCIds : LeafVC(l, v)' = LeafVC(l, v)
         /\ \A servers \in SUBSET Servers : S!AllExist(servers)' <=> S!AllExist(servers)
         /\ \A l \in Leaves, v \in VCIds : VCAfterLeaf(v, l)' = VCAfterLeaf(v, l)
         /\ \A l, o \in Leaves : LeafVCsAfterLeaf(o, l)' = LeafVCsAfterLeaf(o, l)
         /\ \A s \in Servers, v \in VCIds : VCAfterServer(v, s)' = VCAfterServer(v, s)
         /\ \A s \in Servers, o \in Leaves : LeafVCsAfterServer(o, s)' = LeafVCsAfterServer(o, s)
<1>1. /\ sSpineOf' = sSpineOf /\ sLeafOf' = sLeafOf /\ sVcs' = sVcs
      /\ sServerVCs' = sServerVCs /\ sLeafVCs' = sLeafVCs
  BY DEF spineVars
<1>2. ASSUME NEW l \in Leaves
      PROVE  S!Children(l)' = S!Children(l)
  BY <1>1 DEF S!Children
<1>3. ASSUME NEW l \in Leaves, NEW v \in VCIds
      PROVE  S!LostWithLeaf(v, l)' = S!LostWithLeaf(v, l)
  BY <1>1, <1>2 DEF S!LostWithLeaf
<1>4. ASSUME NEW l \in Leaves
      PROVE  S!EmptiedByLeaf(l)' = S!EmptiedByLeaf(l)
  BY <1>1, <1>2 DEF S!EmptiedByLeaf, S!LostWithLeaf
<1>5. ASSUME NEW l \in Leaves, NEW s \in Servers
      PROVE  S!ServerVCsAfter(s, l)' = S!ServerVCsAfter(s, l)
  BY <1>1, <1>2 DEF S!ServerVCsAfter, S!LostWithLeaf
<1>6. ASSUME NEW s \in Servers
      PROVE  /\ S!Detached(s)' = S!Detached(s)
             /\ S!EmptiedByServer(s)' = S!EmptiedByServer(s)
  BY <1>1 DEF S!Detached, S!EmptiedByServer
<1>7. ASSUME NEW l \in Leaves, NEW v \in VCIds
      PROVE  LeafVC(l, v)' = LeafVC(l, v)
  BY <1>1, <1>2 DEF LeafVC
<1>8. ASSUME NEW servers \in SUBSET Servers
      PROVE  S!AllExist(servers)' <=> S!AllExist(servers)
  BY <1>1 DEF S!AllExist
<1>9. ASSUME NEW l \in Leaves, NEW v \in VCIds
      PROVE  VCAfterLeaf(v, l)' = VCAfterLeaf(v, l)
  BY <1>1, <1>3, <1>4 DEF VCAfterLeaf
<1>10. ASSUME NEW l \in Leaves, NEW o \in Leaves
       PROVE  LeafVCsAfterLeaf(o, l)' = LeafVCsAfterLeaf(o, l)
  BY <1>1, <1>4 DEF LeafVCsAfterLeaf
<1>11. ASSUME NEW s \in Servers, NEW v \in VCIds
       PROVE  VCAfterServer(v, s)' = VCAfterServer(v, s)
  <2>1. S!LeavesLeft(sVcs[v], s)' = S!LeavesLeft(sVcs[v], s)
    BY <1>1 DEF S!LeavesLeft
  <2> QED
    BY <1>1, <1>6, <2>1 DEF VCAfterServer
<1>12. ASSUME NEW s \in Servers, NEW o \in Leaves
       PROVE  LeafVCsAfterServer(o, s)' = LeafVCsAfterServer(o, s)
  <2>1. ASSUME NEW v
        PROVE  S!LeavesLeft(sVcs[v], s)' = S!LeavesLeft(sVcs[v], s)
    BY <1>1 DEF S!LeavesLeft
  <2> QED
    BY <1>1, <1>6, <2>1 DEF LeafVCsAfterServer
<1> QED
  BY <1>2, <1>3, <1>4, <1>5, <1>6, <1>7, <1>8, <1>9, <1>10, <1>11, <1>12

LEMMA AheadStays ==
  ASSUME UNCHANGED <<centralVars, spineVars>>, NEW k \in Kinds, NEW m \in ToSpine(k), Ahead(m)
  PROVE  Ahead(m)'
<1>1. /\ sSpineOf' = sSpineOf /\ sLeafOf' = sLeafOf /\ sVcs' = sVcs
      /\ sServerVCs' = sServerVCs /\ sLeafVCs' = sLeafVCs
      /\ spineOf' = spineOf /\ leafOf' = leafOf /\ vcs' = vcs
      /\ serverVCs' = serverVCs /\ leafVCs' = leafVCs
  BY DEF spineVars, centralVars
<1>2. m \in PacketsOf(k)
  BY DEF ToSpine
<1>3. CASE m.type = "newLeaf" /\ AheadNewLeaf(m.node)
  BY <1>1, <1>3 DEF Ahead, AheadNewLeaf
<1>4. CASE m.type = "failedLeaf" /\ AheadFailedLeaf(m.node)
  <2>1. m.node \in Leaves
    BY <1>2, <1>4, PacketValue
  <2>2. AheadFailedLeaf(m.node)'
    BY <1>1, <1>4, <2>1, SpineOperatorsUnchanged DEF AheadFailedLeaf
  <2> QED
    BY <1>4, <2>2 DEF Ahead
<1>5. CASE m.type = "newServer" /\ AheadNewServer(m.node, m.leaf)
  BY <1>1, <1>5 DEF Ahead, AheadNewServer
<1>6. CASE m.type = "failedServer" /\ AheadFailedServer(m.node)
  <2>1. m.node \in Servers
    BY <1>2, <1>6, PacketValue
  <2>2. AheadFailedServer(m.node)'
    BY <1>1, <1>6, <2>1, SpineOperatorsUnchanged DEF AheadFailedServer
  <2> QED
    BY <1>6, <2>2 DEF Ahead
<1>7. CASE m.type = "addVC" /\ AheadAddVC(m.node, m.servers)
  BY <1>1, <1>7 DEF Ahead, AheadAddVC, S!AllExist, S!NewVC
<1>8. CASE m.type = "removeVC" /\ AheadRemoveVC(m.node)
  BY <1>1, <1>8 DEF Ahead, AheadRemoveVC
<1> QED
  BY <1>3, <1>4, <1>5, <1>6, <1>7, <1>8 DEF Ahead

LEMMA SettledStays ==
  ASSUME UNCHANGED spineVars, NEW l \in Leaves, Settled(l),
         ctrl'[l] = ctrl[l], lServers'[l] = lServers[l], lVCs'[l] = lVCs[l]
  PROVE  Settled(l)'
<1>1. sSpineOf' = sSpineOf /\ sLeafOf' = sLeafOf /\ sVcs' = sVcs
  BY DEF spineVars
<1> QED
  BY <1>1 DEF Settled, Runs, LeafVC, S!Children

LEMMA LeavesAtRestStay ==
  ASSUME UNCHANGED <<spineVars, eg, bcast, mgr, leafVars>>, LeavesAtRest
  PROVE  LeavesAtRest'
BY SettledStays DEF LeavesAtRest, Empty, leafVars

LEMMA OnlyValue ==
  ASSUME NEW k \in Kinds, NEW m
  PROVE  /\ Only(k, m)[k] = <<m>> /\ Only(k, m)[k] # <<>>
         /\ \A j \in Kinds \ {k} : Only(k, m)[j] = <<>>
BY DEF Only

LEMMA QuietIsAtRest ==
  ASSUME BooksInv, OneAtATime, Quiet
  PROVE  AtRest
<1>1. mgrUp /\ told = None /\ Empty(chan) /\ Empty(eg) /\ bcast = None /\ Empty(mgr)
  BY DEF OneAtATime, Quiet
<1>2. \A l \in Leaves : ctrl[l] \in {"down", "up"}
  BY <1>1 DEF Quiet
<1>3. /\ chan \in [Kinds -> Seq(Packets)] /\ eg \in [Kinds -> Seq(Packets)]
      /\ mgr \in [LeafKinds -> Seq(Leaves)]
  BY DEF BooksInv, QueuesTypeOK
<1>4. /\ \A k \in Kinds : chan[k] = <<>> /\ eg[k] = <<>>
      /\ mgr["newLeaf"] = <<>> /\ mgr["failedLeaf"] = <<>>
  BY <1>1, <1>3 DEF Empty, LeafKinds
<1>5. ASSUME NEW k \in Kinds, NEW m
      PROVE  chan # Only(k, m) /\ eg # Only(k, m)
  BY <1>4, OnlyValue
<1>6. {"newLeaf", "failedLeaf", "newServer", "failedServer", "vc"} \subseteq Kinds
  BY DEF Kinds
<1>7. ~AtCentral /\ ~ToTheSpine
  BY <1>1, <1>5 DEF AtCentral, ToTheSpine
<1>8. ~ToTheLeaves
  <2>1. \A l \in Leaves : ~LeafStarting(l)
    BY <1>2, <1>4, <1>5, <1>6 DEF LeafStarting
  <2>2. \A l \in Leaves : ~LeafStopping(l)
    BY <1>4, <1>5, <1>6 DEF LeafStopping
  <2>3. \A s \in Servers, l \in Leaves : ~ServerComing(s, l) /\ ~ServerGoing(s, l)
    BY <1>5, <1>6 DEF ServerComing, ServerGoing
  <2>4. \A m \in ToLeaf("vc") : ~VCSpreading(m)
    <3>1. \A m \in ToLeaf("vc") : m \in Packets /\ m # None
      BY NoneIsNoData DEF ToLeaf, PacketsOf
    <3> QED
      BY <1>1, <1>5, <1>6, <3>1 DEF VCSpreading
  <2> QED
    BY <2>1, <2>2, <2>3, <2>4 DEF ToTheLeaves
<1> QED
  BY <1>7, <1>8 DEF OneAtATime

LEMMA RestAgrees ==
  ASSUME BooksInv, mgrUp, AtRest
  PROVE  MembershipAgrees /\ VCsAgree
<1>1. \A l \in Leaves : S!Children(l) = Children(l)
  BY DEF AtRest, SameBooks, S!Children, Children
<1>2. \A l \in Leaves : Settled(l)
  BY DEF AtRest, LeavesAtRest
<1>3. \A l \in Leaves : (ctrl[l] = "up" <=> spineOf[l] # None) /\ lServers[l] = Children(l)
  BY <1>1, <1>2 DEF Settled, Runs, AtRest, SameBooks
<1>4. MembershipAgrees
  BY <1>3 DEF MembershipAgrees, AtRest, SameBooks
<1>5. \A l \in Leaves, v \in VCIds :
        lVCs[l][v] = IF vcs[v] # None /\ l \in vcs[v].leaves
                     THEN vcs[v].servers \cap Children(l) ELSE None
  BY <1>1, <1>2 DEF Settled, LeafVC, AtRest, SameBooks
<1>6. VCsAgree
  BY <1>5 DEF VCsAgree, AtRest, SameBooks
<1> QED
  BY <1>4, <1>6

(* With the books of the central controller, the spine computes what the   *)
(* central controller does.                                                *)
LEMMA SameOperators ==
  ASSUME SameBooks
  PROVE  /\ \A l \in Leaves : S!Children(l) = Children(l)
         /\ \A l \in Leaves, s \in Servers : S!ServerVCsAfter(s, l) = ServerVCsAfter(s, l)
         /\ \A s \in Servers : S!Detached(s) <=> Detached(s)
         /\ \A l \in Leaves, v \in VCIds :
              VCAfterLeaf(v, l) =
                IF v \in EmptiedByLeaf(l) THEN None
                ELSE IF v \in leafVCs[l]
                     THEN [vcs[v] EXCEPT !.servers = @ \ LostWithLeaf(v, l), !.leaves = @ \ {l}]
                     ELSE vcs[v]
         /\ \A l, o \in Leaves :
              LeafVCsAfterLeaf(o, l) =
                IF o = l THEN {} ELSE leafVCs[o] \ {v \in EmptiedByLeaf(l) : o \in vcs[v].leaves}
         /\ \A s \in Servers, v \in VCIds :
              VCAfterServer(v, s) =
                IF v \in EmptiedByServer(s) THEN None
                ELSE IF v \in serverVCs[s]
                     THEN [vcs[v] EXCEPT !.servers = @ \ {s}, !.leaves = LeavesLeft(vcs[v], s)]
                     ELSE vcs[v]
         /\ \A s \in Servers, o \in Leaves :
              LeafVCsAfterServer(o, s) =
                leafVCs[o] \ {v \in serverVCs[s] :
                                \/ o = leafOf[s] /\ o \notin LeavesLeft(vcs[v], s)
                                \/ v \in EmptiedByServer(s) /\ o \in LeavesLeft(vcs[v], s)}
<1>1. /\ sSpineOf = spineOf /\ sLeafOf = leafOf /\ sVcs = vcs
      /\ sServerVCs = serverVCs /\ sLeafVCs = leafVCs
  BY DEF SameBooks
<1>2. ASSUME NEW l \in Leaves
      PROVE  S!Children(l) = Children(l)
  BY <1>1 DEF S!Children, Children
<1>3. ASSUME NEW l \in Leaves, NEW v \in VCIds
      PROVE  S!LostWithLeaf(v, l) = LostWithLeaf(v, l)
  BY <1>1, <1>2 DEF S!LostWithLeaf, LostWithLeaf
<1>4. ASSUME NEW l \in Leaves
      PROVE  S!EmptiedByLeaf(l) = EmptiedByLeaf(l)
  BY <1>1, <1>2 DEF S!EmptiedByLeaf, S!LostWithLeaf, EmptiedByLeaf, LostWithLeaf
<1>5. ASSUME NEW l \in Leaves, NEW s \in Servers
      PROVE  S!ServerVCsAfter(s, l) = ServerVCsAfter(s, l)
  BY <1>1, <1>2 DEF S!ServerVCsAfter, S!LostWithLeaf, ServerVCsAfter, LostWithLeaf
<1>6. ASSUME NEW s \in Servers
      PROVE  /\ S!Detached(s) <=> Detached(s)
             /\ S!EmptiedByServer(s) = EmptiedByServer(s)
  BY <1>1 DEF S!Detached, S!EmptiedByServer, Detached, EmptiedByServer
<1>7. ASSUME NEW s \in Servers, NEW v
      PROVE  S!LeavesLeft(sVcs[v], s) = LeavesLeft(vcs[v], s)
  BY <1>1 DEF S!LeavesLeft, LeavesLeft
<1>8. ASSUME NEW l \in Leaves, NEW v \in VCIds
      PROVE  VCAfterLeaf(v, l) =
               IF v \in EmptiedByLeaf(l) THEN None
               ELSE IF v \in leafVCs[l]
                    THEN [vcs[v] EXCEPT !.servers = @ \ LostWithLeaf(v, l), !.leaves = @ \ {l}]
                    ELSE vcs[v]
  BY <1>1, <1>3, <1>4 DEF VCAfterLeaf
<1>9. ASSUME NEW l \in Leaves, NEW o \in Leaves
      PROVE  LeafVCsAfterLeaf(o, l) =
               IF o = l THEN {} ELSE leafVCs[o] \ {v \in EmptiedByLeaf(l) : o \in vcs[v].leaves}
  BY <1>1, <1>4 DEF LeafVCsAfterLeaf
<1>10. ASSUME NEW s \in Servers, NEW v \in VCIds
       PROVE  VCAfterServer(v, s) =
                IF v \in EmptiedByServer(s) THEN None
                ELSE IF v \in serverVCs[s]
                     THEN [vcs[v] EXCEPT !.servers = @ \ {s}, !.leaves = LeavesLeft(vcs[v], s)]
                     ELSE vcs[v]
  BY <1>1, <1>6, <1>7 DEF VCAfterServer
<1>11. ASSUME NEW s \in Servers, NEW o \in Leaves
       PROVE  LeafVCsAfterServer(o, s) =
                leafVCs[o] \ {v \in serverVCs[s] :
                                \/ o = leafOf[s] /\ o \notin LeavesLeft(vcs[v], s)
                                \/ v \in EmptiedByServer(s) /\ o \in LeavesLeft(vcs[v], s)}
  BY <1>1, <1>6, <1>7 DEF LeafVCsAfterServer
<1> QED
  BY <1>2, <1>5, <1>6, <1>8, <1>9, <1>10, <1>11

LEMMA NowAtCentral ==
  ASSUME told' # None, Empty(chan)', LeavesAtRest', mgrUp', NEW m, m = ToldPacket', Ahead(m)'
  PROVE  OneAtATime'
BY DEF OneAtATime, AtCentral, Ahead

LEMMA CallKeepsOneAtATime ==
  ASSUME BooksInv, OneAtATime, Paced, OnlyVCServersFail, Call
  PROVE  OneAtATime'
<1>1. UNCHANGED <<chan, spineVars, eg, bcast, mgr, mgrUp, leafVars>> /\ Quiet
  BY DEF Call
<1>2. AtRest /\ mgrUp
  BY <1>1, QuietIsAtRest DEF OneAtATime
<1>3. Empty(chan)' /\ LeavesAtRest' /\ mgrUp'
  BY <1>1, <1>2, LeavesAtRestStay DEF AtRest, Empty
<1>4. SameBooks
  BY <1>2 DEF AtRest
<1>5. /\ sSpineOf' = spineOf /\ sLeafOf' = leafOf /\ sVcs' = vcs
      /\ sServerVCs' = serverVCs /\ sLeafVCs' = leafVCs
  BY <1>1, <1>4 DEF SameBooks, spineVars
<1>6. BooksOK /\ told \in Msg \cup {None} /\ BooksTypeOK
  BY DEF BooksInv, BooksOK
<1>7. PICK m : m = ToldPacket'
  OBVIOUS
<1>8. /\ m.type = told'.type /\ m.node = told'.node
      /\ m.leaf = IF told'.type = "newServer" THEN leafOf'[told'.node] ELSE None
      /\ m.servers = IF told'.type = "addVC" THEN vcs'[told'.node].servers ELSE {}
  BY <1>7 DEF ToldPacket, Packet
<1>9. ASSUME NEW l \in Leaves, NEW sp \in Spines, AddLeaf(l, sp)
      PROVE  OneAtATime'
  <2>1. sp = TheSpine
    BY OneSpine DEF TheSpine
  <2>2. AheadNewLeaf(l)'
    BY <1>5, <1>9, <2>1 DEF AddLeaf, InsertLeaf, AheadNewLeaf
  <2>3. told' = [type |-> "newLeaf", node |-> l, spines |-> {sp}]
    BY <1>9 DEF AddLeaf, Tell
  <2>4. told' # None
    BY <2>3, NoneIsNoRecord DEF Msg
  <2>5. m.type = "newLeaf" /\ m.node = l
    BY <1>8, <2>3, <2>4
  <2>6. Ahead(m)'
    BY <2>2, <2>5 DEF Ahead
  <2> QED
    BY <1>3, <1>7, <2>4, <2>5, <2>6, NowAtCentral
<1>10. ASSUME NEW l \in Leaves, FailLeaf(l)
       PROVE  OneAtATime'
  <2>1. spineOf[l] # None
    BY <1>10 DEF FailLeaf, DeleteLeaf
  <2>2. spineOf' = [spineOf EXCEPT ![l] = None] /\ sSpineOf'[l] # None
    BY <1>5, <1>10, <2>1 DEF FailLeaf, DeleteLeaf
  <2>3. \A s \in Servers : leafOf'[s] = IF leafOf[s] = l THEN None ELSE leafOf[s]
    BY <1>10 DEF FailLeaf, DeleteLeaf
  <2>4. /\ \A v \in VCIds : vcs'[v] = VCAfterLeaf(v, l)
        /\ \A s \in Servers : serverVCs'[s] = S!ServerVCsAfter(s, l)
        /\ \A o \in Leaves : leafVCs'[o] = LeafVCsAfterLeaf(o, l)
    BY <1>4, <1>10, SameOperators DEF FailLeaf, DetachLeaf
  <2>5. AheadFailedLeaf(l)'
    BY <1>1, <1>5, <2>2, <2>3, <2>4, SpineOperatorsUnchanged DEF AheadFailedLeaf
  <2>6. told' = [type |-> "failedLeaf", node |-> l, spines |-> SpinesToTell(leafVCs[l], spineOf[l])]
    BY <1>10 DEF FailLeaf, Tell
  <2>7. told' # None
    BY <1>6, <2>1, <2>6, SpinesOfLeaf, NoneIsNoRecord DEF Msg
  <2>8. m.type = "failedLeaf" /\ m.node = l
    BY <1>8, <2>6, <2>7
  <2>9. Ahead(m)'
    BY <2>5, <2>8 DEF Ahead
  <2> QED
    BY <1>3, <1>7, <2>7, <2>8, <2>9, NowAtCentral
<1>11. ASSUME NEW s \in Servers, NEW l \in Leaves, AddServer(s, l)
       PROVE  OneAtATime'
  <2>1. AheadNewServer(s, l)'
    BY <1>5, <1>11 DEF AddServer, InsertServer, AheadNewServer
  <2>2. told' = [type |-> "newServer", node |-> s, spines |-> {spineOf[l]}]
    BY <1>11 DEF AddServer, Tell
  <2>3. spineOf[l] \in Spines /\ leafOf'[s] = l
    BY <1>6, <1>11 DEF AddServer, InsertServer, BooksTypeOK, TreeTypeOK
  <2>4. told' # None
    BY <2>2, <2>3, NoneIsNoRecord DEF Msg
  <2>5. m.type = "newServer" /\ m.node = s /\ m.leaf = l
    BY <1>8, <2>2, <2>3, <2>4
  <2>6. Ahead(m)'
    BY <2>1, <2>5 DEF Ahead
  <2> QED
    BY <1>3, <1>7, <2>4, <2>5, <2>6, NowAtCentral
<1>12. ASSUME NEW s \in Servers, Detached(s), FailServer(s)
       PROVE  OneAtATime'
  <2>1. leafOf[s] # None
    BY <1>12 DEF FailServer, DeleteServer
  <2>2. /\ leafOf' = [leafOf EXCEPT ![s] = None] /\ spineOf' = spineOf
        /\ serverVCs' = [serverVCs EXCEPT ![s] = {}]
    BY <1>12 DEF FailServer, DeleteServer, DetachServer
  <2>3. /\ \A v \in VCIds : vcs'[v] = VCAfterServer(v, s)
        /\ \A o \in Leaves : leafVCs'[o] = LeafVCsAfterServer(o, s)
        /\ S!Detached(s)
    BY <1>4, <1>12, SameOperators DEF FailServer, DetachServer
  <2>4. AheadFailedServer(s)'
    BY <1>1, <1>5, <2>1, <2>2, <2>3, SpineOperatorsUnchanged DEF AheadFailedServer
  <2>5. told' = [type |-> "failedServer", node |-> s,
                 spines |-> SpinesToTell(serverVCs[s], spineOf[leafOf[s]])]
    BY <1>12 DEF FailServer, Tell
  <2>6. told' # None
    BY <1>6, <2>1, <2>5, SpinesOfServer, NoneIsNoRecord DEF Msg
  <2>7. m.type = "failedServer" /\ m.node = s
    BY <1>8, <2>5, <2>6
  <2>8. Ahead(m)'
    BY <2>4, <2>7 DEF Ahead
  <2> QED
    BY <1>3, <1>7, <2>6, <2>7, <2>8, NowAtCentral
<1>13. ASSUME NEW v \in VCIds, NEW servers \in SUBSET Servers, AddVC(v, Spines, servers)
       PROVE  OneAtATime'
  <2>1. AllExist(servers) /\ vcs[v] = None /\ StoreVC(v, NewVC(Spines, servers))
    BY <1>13 DEF AddVC
  <2>2. PICK vc : vc = NewVC(Spines, servers)
    OBVIOUS
  <2>3. vc = S!NewVC(Spines, servers)' /\ vc.servers = servers
    BY <1>5, <2>2 DEF NewVC, S!NewVC
  <2>4. S!AllExist(servers)'
    BY <1>5, <2>1 DEF AllExist, S!AllExist
  <2>5. /\ vcs' = [vcs EXCEPT ![v] = vc] /\ vcs'[v].servers = servers
        /\ serverVCs' = [s \in Servers |-> serverVCs[s] \cup {w \in {v} : s \in vc.servers}]
        /\ leafVCs' = [l \in Leaves |-> leafVCs[l] \cup {w \in {v} : l \in vc.leaves}]
    BY <1>6, <2>1, <2>2, <2>3 DEF StoreVC, BooksTypeOK
  <2>6. AheadAddVC(v, servers)'
    BY <1>5, <1>13, <2>1, <2>3, <2>4, <2>5 DEF AddVC, treeVars, AheadAddVC
  <2>7. told' = [type |-> "addVC", node |-> v, spines |-> Spines]
    BY <1>13 DEF AddVC, Tell
  <2>8. told' # None
    BY <2>7, NoneIsNoRecord DEF Msg
  <2>9. m.type = "addVC" /\ m.node = v /\ m.servers = servers
    BY <1>8, <2>5, <2>7, <2>8
  <2>10. Ahead(m)'
    BY <2>6, <2>9 DEF Ahead
  <2> QED
    BY <1>3, <1>7, <2>8, <2>9, <2>10, NowAtCentral
<1>14. ASSUME NEW v \in VCIds, RemoveVC(v)
       PROVE  OneAtATime'
  <2>1. vcs[v] # None /\ DropVC(v)
    BY <1>14 DEF RemoveVC
  <2>2. AheadRemoveVC(v)'
    BY <1>5, <1>14, <2>1 DEF RemoveVC, DropVC, treeVars, AheadRemoveVC
  <2>3. told' = [type |-> "removeVC", node |-> v, spines |-> vcs[v].spines]
    BY <1>14 DEF RemoveVC, Tell
  <2>4. vcs[v].spines \subseteq Spines
    BY <1>6, <2>1 DEF BooksTypeOK, VC
  <2>5. told' # None
    BY <2>3, <2>4, NoneIsNoRecord DEF Msg
  <2>6. m.type = "removeVC" /\ m.node = v
    BY <1>8, <2>3, <2>5
  <2>7. Ahead(m)'
    BY <2>2, <2>6 DEF Ahead
  <2> QED
    BY <1>3, <1>7, <2>5, <2>6, <2>7, NowAtCentral
<1> QED
  BY <1>9, <1>10, <1>11, <1>12, <1>13, <1>14 DEF Call

LEMMA AppendToNothing ==
  ASSUME NEW T, NEW m \in T
  PROVE  Append(<<>>, m) = <<m>>
OBVIOUS

LEMMA PutKeepsOneAtATime ==
  ASSUME BooksInv, OneAtATime, Put
  PROVE  OneAtATime'
<1>1. /\ told # None /\ told' = None /\ chan' = Push(chan, KindOf(told), ToldPacket)
      /\ UNCHANGED <<centralVars, clientVars, spineVars, eg, bcast, mgr, mgrUp, leafVars>>
  BY DEF Put, ToldPacket
<1>2. mgrUp /\ Empty(chan) /\ Ahead(ToldPacket) /\ LeavesAtRest
  BY <1>1 DEF OneAtATime, AtRest, AtCentral, ToTheSpine, ToTheLeaves
<1>3. PICK m : m = ToldPacket
  OBVIOUS
<1>4. PICK k \in Kinds : k = KindOf(told) /\ m \in ToSpine(k)
  BY <1>1, <1>3, ToldPacketValue
<1>5. chan' = Only(k, m)
  <2>1. chan \in [Kinds -> Seq(Packets)] /\ \A j \in Kinds : chan[j] = <<>>
    BY <1>2 DEF BooksInv, QueuesTypeOK, Empty
  <2>2. chan' = [chan EXCEPT ![k] = Append(chan[k], m)]
    BY <1>1, <1>3, <1>4 DEF Push
  <2>3. Append(chan[k], m) = <<m>>
    BY <1>4, <2>1, AppendToNothing DEF ToSpine, PacketsOf
  <2> QED
    BY <2>1, <2>2, <2>3 DEF Only
<1>6. Ahead(m)'
  BY <1>1, <1>2, <1>3, <1>4, AheadStays
<1>7. LeavesAtRest'
  BY <1>1, <1>2, LeavesAtRestStay
<1> QED
  BY <1>1, <1>2, <1>4, <1>5, <1>6, <1>7 DEF OneAtATime, ToTheSpine

(* The spine's books are the ones of the last call, and nothing waits for  *)
(* it.                                                                     *)
LEMMA MessageToTheSpine ==
  ASSUME BooksInv, OneAtATime, NEW k \in Kinds, chan[k] # <<>>
  PROVE  /\ told = None /\ mgrUp /\ LeavesAtRest
         /\ Head(chan[k]) \in ToSpine(k) /\ Ahead(Head(chan[k]))
         /\ chan' = Pop(chan, k) => Empty(chan)'
<1>1. chan \in [Kinds -> Seq(Packets)]
  BY DEF BooksInv, QueuesTypeOK
<1>2. ~Empty(chan)
  BY <1>1 DEF Empty
<1>3. told = None /\ mgrUp /\ LeavesAtRest /\ ToTheSpine
  BY <1>2 DEF OneAtATime, AtRest, AtCentral, ToTheSpine, ToTheLeaves
<1>4. PICK j \in Kinds : \E m \in ToSpine(j) : chan = Only(j, m) /\ Ahead(m)
  BY <1>3 DEF ToTheSpine
<1>5. PICK m \in ToSpine(j) : chan = Only(j, m) /\ Ahead(m)
  BY <1>4
<1>6. j = k /\ chan[k] = <<m>> /\ \A i \in Kinds \ {k} : chan[i] = <<>>
  BY <1>5, OnlyValue
<1>7. Head(chan[k]) = m /\ Tail(chan[k]) = <<>>
  BY <1>6
<1>8. chan' = Pop(chan, k) => Empty(chan)'
  BY <1>1, <1>6, <1>7 DEF Pop, Empty
<1> QED
  BY <1>3, <1>5, <1>6, <1>7, <1>8

LEMMA EgOnly ==
  ASSUME BooksInv, LeavesAtRest, NEW k \in Kinds, NEW m \in Packets, eg' = Push(eg, k, m)
  PROVE  eg' = Only(k, m)
<1>1. eg \in [Kinds -> Seq(Packets)] /\ \A j \in Kinds : eg[j] = <<>>
  BY DEF BooksInv, QueuesTypeOK, LeavesAtRest, Empty
<1>2. Append(eg[k], m) = <<m>>
  BY <1>1, AppendToNothing
<1> QED
  BY <1>1, <1>2 DEF Push, Only

LEMMA StillSettled ==
  ASSUME NEW l \in Leaves, Settled(l),
         ctrl'[l] = ctrl[l], lServers'[l] = lServers[l], lVCs'[l] = lVCs[l],
         sSpineOf'[l] = None <=> sSpineOf[l] = None, S!Children(l)' = S!Children(l),
         \A v \in VCIds : LeafVC(l, v)' = LeafVC(l, v)
  PROVE  Settled(l)'
BY DEF Settled, Runs

\* a leaf without servers is in no virtual cluster
LEMMA LeafWithoutServers ==
  ASSUME S!BooksOK, NEW l \in Leaves, S!Children(l) = {}
  PROVE  sLeafVCs[l] = {} /\ \A v \in VCIds : LeafVC(l, v) = None
<1>1. sLeafVCs[l] = {}
  BY DEF S!BooksOK, S!LeafListsMatchVCs
<1>2. ASSUME NEW v \in VCIds, sVcs[v] # None
      PROVE  l \notin sVcs[v].leaves
  <2>1. v \in S!VCNames /\ sVcs[v].servers \subseteq Servers
    BY <1>2 DEF S!VCNames, S!BooksOK, S!BooksTypeOK, S!VC
  <2>2. sVcs[v].leaves = {sLeafOf[s] : s \in sVcs[v].servers}
    BY <2>1 DEF S!BooksOK, S!LeavesAreOfServers
  <2> QED
    BY <2>1, <2>2 DEF S!Children
<1> QED
  BY <1>1, <1>2 DEF LeafVC

LEMMA NoLeafNoServers ==
  ASSUME S!BooksOK, NEW l \in Leaves, sSpineOf[l] = None
  PROVE  S!Children(l) = {}
<1>1. ASSUME NEW s \in Servers, sLeafOf[s] = l
      PROVE  FALSE
  <2>1. sLeafOf[s] # None
    BY <1>1, NoneIsNoNode
  <2> QED
    BY <1>1, <2>1 DEF S!BooksOK, S!NoOrphans
<1> QED
  BY <1>1 DEF S!Children

LEMMA SpineGetsNewLeaf ==
  ASSUME BooksInv, LeavesAtRest, NEW m \in ToSpine("newLeaf"), AheadNewLeaf(m.node),
         SpineAddLeaf(m), UNCHANGED <<vars, bcast, mgr, leafVars>>
  PROVE  SameBooks' /\ LeafStarting(m.node)'
<1>1. PICK l \in Leaves : l = m.node
  BY DEF ToSpine, PacketsOf, NodesOf, LeafKinds
<1>2. m.type = "newLeaf" /\ KindOf(m) = "newLeaf" /\ m.servers \subseteq Servers /\ "newLeaf" \in Kinds
  BY PacketValue DEF ToSpine, Kinds, PacketsOf, TypesOf
<1>3. /\ sSpineOf[l] = None /\ sSpineOf' = [sSpineOf EXCEPT ![l] = TheSpine]
      /\ UNCHANGED <<sLeafOf, sVcs, sServerVCs, sLeafVCs>>
  BY <1>1 DEF SpineAddLeaf, Spine!InsertLeaf
<1>4. S!BooksOK /\ TheSpine \in Spines /\ TheSpine # None
  BY OneSpine, NoneIsNoNode DEF TheSpine, BooksInv
<1>5. SameBooks'
  BY <1>1, <1>3 DEF AheadNewLeaf, SameBooks, vars
<1>6. /\ sSpineOf'[l] # None /\ \A o \in Leaves \ {l} : sSpineOf'[o] = sSpineOf[o]
  BY <1>3, <1>4 DEF S!BooksOK, S!BooksTypeOK, S!TreeTypeOK
<1>7. PICK p : p = Packet("newLeaf", l, None, m.servers, {})
  OBVIOUS
<1>8. p \in ToLeaf("newLeaf") /\ p.node = l
  BY <1>2, <1>7 DEF ToLeaf, PacketsOf, Packets, Packet, TypesOf, NodesOf, LeafKinds
<1>9. eg' = Only("newLeaf", p)
  <2>1. eg' = Push(eg, "newLeaf", p)
    BY <1>1, <1>2, <1>7 DEF SpineAddLeaf, Queue
  <2> QED
    BY <1>2, <1>8, <2>1, EgOnly DEF ToLeaf, PacketsOf
<1>10. \A o \in Leaves : S!Children(o)' = S!Children(o) /\ \A v \in VCIds : LeafVC(o, v)' = LeafVC(o, v)
  BY <1>3 DEF S!Children, LeafVC
<1>11. UNCHANGED <<ctrl, lServers, lVCs>>
  BY DEF leafVars
<1>12. \A o \in Leaves \ {l} : Settled(o)'
  BY <1>6, <1>10, <1>11, StillSettled DEF LeavesAtRest
<1>13. Settled(l) /\ S!Children(l) = {} /\ \A v \in VCIds : LeafVC(l, v) = None
  BY <1>3, <1>4, NoLeafNoServers, LeafWithoutServers DEF LeavesAtRest
<1>14. ctrl[l] = "down" /\ lServers[l] = {} /\ \A v \in VCIds : lVCs[l][v] = None
  BY <1>3, <1>13 DEF Settled, Runs
<1>15. lVCs[l] = NoVCs
  BY <1>14 DEF NoVCs, BooksInv, LeavesTypeOK
<1>16. bcast' = None /\ Empty(mgr)'
  BY DEF LeavesAtRest, Empty
<1>17. LeafStarting(l)'
  BY <1>6, <1>8, <1>9, <1>10, <1>11, <1>12, <1>13, <1>14, <1>15, <1>16 DEF LeafStarting, NoVCs
<1> QED
  BY <1>1, <1>5, <1>17

(* In consistent books the leaves of a virtual cluster need no look.       *)
LEMMA LeafVCValue ==
  ASSUME S!BooksOK, NEW l \in Leaves, NEW v \in VCIds
  PROVE  LeafVC(l, v) = IF sVcs[v] # None /\ sVcs[v].servers \cap S!Children(l) # {}
                        THEN sVcs[v].servers \cap S!Children(l) ELSE None
<1>1. CASE sVcs[v] # None
  <2>1. v \in S!VCNames /\ sVcs[v].servers \subseteq Servers
    BY <1>1 DEF S!VCNames, S!BooksOK, S!BooksTypeOK, S!VC
  <2>2. sVcs[v].leaves = {sLeafOf[s] : s \in sVcs[v].servers}
    BY <2>1 DEF S!BooksOK, S!LeavesAreOfServers
  <2>3. l \in sVcs[v].leaves <=> sVcs[v].servers \cap S!Children(l) # {}
    BY <2>1, <2>2 DEF S!Children
  <2> QED
    BY <1>1, <2>3 DEF LeafVC
<1>2. CASE sVcs[v] = None
  BY <1>2 DEF LeafVC
<1> QED
  BY <1>1, <1>2

LEMMA LeafVCValueAfter ==
  ASSUME S!BooksOK', NEW l \in Leaves, NEW v \in VCIds
  PROVE  LeafVC(l, v)' = IF sVcs'[v] # None /\ sVcs'[v].servers \cap S!Children(l)' # {}
                         THEN sVcs'[v].servers \cap S!Children(l)' ELSE None
<1>1. CASE sVcs'[v] # None
  <2>1. v \in S!VCNames' /\ sVcs'[v].servers \subseteq Servers
    BY <1>1 DEF S!VCNames, S!BooksOK, S!BooksTypeOK, S!VC
  <2>2. sVcs'[v].leaves = {sLeafOf'[s] : s \in sVcs'[v].servers}
    BY <2>1 DEF S!BooksOK, S!LeavesAreOfServers
  <2>3. l \in sVcs'[v].leaves <=> sVcs'[v].servers \cap S!Children(l)' # {}
    BY <2>1, <2>2 DEF S!Children
  <2> QED
    BY <1>1, <2>3 DEF LeafVC
<1>2. CASE sVcs'[v] = None
  BY <1>2 DEF LeafVC
<1> QED
  BY <1>1, <1>2

LEMMA VCAfterLeafValue ==
  ASSUME S!BooksOK, NEW l \in Leaves, NEW v \in VCIds
  PROVE  IF sVcs[v] = None \/ (sVcs[v].servers # {} /\ sVcs[v].servers \subseteq S!Children(l))
         THEN VCAfterLeaf(v, l) = None
         ELSE VCAfterLeaf(v, l) # None /\ VCAfterLeaf(v, l).servers = sVcs[v].servers \ S!Children(l)
<1>1. /\ sLeafVCs[l] = {w \in S!VCNames : sVcs[w].servers \cap S!Children(l) # {}}
      /\ sVcs[v] = None \/ sVcs[v] \in S!VC
  BY DEF S!BooksOK, S!LeafListsMatchVCs, S!BooksTypeOK
<1>2. CASE v \notin sLeafVCs[l]
  <2>1. VCAfterLeaf(v, l) = sVcs[v]
    BY <1>2 DEF VCAfterLeaf, S!EmptiedByLeaf
  <2> QED
    BY <1>1, <1>2, <2>1 DEF S!VCNames
<1>3. CASE v \in sLeafVCs[l]
  <2>1. v \in S!VCNames /\ sVcs[v] # None /\ sVcs[v] \in S!VC /\ sVcs[v].servers \cap S!Children(l) # {}
    BY <1>1, <1>3 DEF S!VCNames
  <2>2. sVcs[v].leaves = {sLeafOf[s] : s \in sVcs[v].servers} /\ sVcs[v].servers \subseteq Servers
    BY <2>1 DEF S!BooksOK, S!LeavesAreOfServers, S!VC
  <2>3. l \in sVcs[v].leaves
    BY <2>1, <2>2 DEF S!Children
  <2>4. S!LostWithLeaf(v, l) = sVcs[v].servers \cap S!Children(l)
    BY <2>3 DEF S!LostWithLeaf
  <2>5. v \in S!EmptiedByLeaf(l) <=> sVcs[v].servers \subseteq S!Children(l)
    BY <1>3, <2>4 DEF S!EmptiedByLeaf
  <2>6. CASE v \in S!EmptiedByLeaf(l)
    BY <2>1, <2>5, <2>6 DEF VCAfterLeaf
  <2>7. CASE v \notin S!EmptiedByLeaf(l)
    <3>1. VCAfterLeaf(v, l) = [sVcs[v] EXCEPT !.servers = @ \ S!LostWithLeaf(v, l), !.leaves = @ \ {l}]
      BY <1>3, <2>7 DEF VCAfterLeaf
    <3>2. /\ VCAfterLeaf(v, l) \in S!VC
          /\ VCAfterLeaf(v, l).servers = sVcs[v].servers \ S!Children(l)
      BY <2>1, <2>4, <3>1 DEF S!VC
    <3> QED
      BY <2>1, <2>5, <2>7, <3>2, NoneIsNoSpineRecord
  <2> QED
    BY <2>6, <2>7
<1> QED
  BY <1>2, <1>3

LEMMA VCAfterServerValue ==
  ASSUME S!BooksOK, NEW s \in Servers, NEW v \in VCIds
  PROVE  IF sVcs[v] = None \/ sVcs[v].servers = {s}
         THEN VCAfterServer(v, s) = None
         ELSE VCAfterServer(v, s) # None /\ VCAfterServer(v, s).servers = sVcs[v].servers \ {s}
<1>1. /\ sServerVCs[s] = {w \in S!VCNames : s \in sVcs[w].servers}
      /\ sVcs[v] = None \/ sVcs[v] \in S!VC
  BY DEF S!BooksOK, S!ServerListsMatchVCs, S!BooksTypeOK
<1>2. CASE v \notin sServerVCs[s]
  <2>1. VCAfterServer(v, s) = sVcs[v]
    BY <1>2 DEF VCAfterServer, S!EmptiedByServer
  <2> QED
    BY <1>1, <1>2, <2>1 DEF S!VCNames
<1>3. CASE v \in sServerVCs[s]
  <2>1. sVcs[v] # None /\ sVcs[v] \in S!VC /\ s \in sVcs[v].servers
    BY <1>1, <1>3 DEF S!VCNames
  <2>2. v \in S!EmptiedByServer(s) <=> sVcs[v].servers = {s}
    BY <1>3, <2>1 DEF S!EmptiedByServer
  <2>3. CASE v \in S!EmptiedByServer(s)
    BY <2>1, <2>2, <2>3 DEF VCAfterServer
  <2>4. CASE v \notin S!EmptiedByServer(s)
    <3>1. PICK left : left = S!LeavesLeft(sVcs[v], s)
      OBVIOUS
    <3>2. left \subseteq sVcs[v].leaves
      BY <3>1 DEF S!LeavesLeft
    <3>3. VCAfterServer(v, s) = [sVcs[v] EXCEPT !.servers = @ \ {s}, !.leaves = left]
      BY <1>3, <2>4, <3>1 DEF VCAfterServer
    <3>4. /\ VCAfterServer(v, s) \in S!VC
          /\ VCAfterServer(v, s).servers = sVcs[v].servers \ {s}
      BY <2>1, <3>2, <3>3 DEF S!VC
    <3> QED
      BY <2>1, <2>2, <2>4, <3>4, NoneIsNoSpineRecord
  <2> QED
    BY <2>3, <2>4
<1> QED
  BY <1>2, <1>3

LEMMA SpineGetsFailedLeaf ==
  ASSUME BooksInv, LeavesAtRest, NEW m \in ToSpine("failedLeaf"), AheadFailedLeaf(m.node),
         SpineFailLeaf(m), UNCHANGED <<vars, bcast, mgr, leafVars>>
  PROVE  SameBooks' /\ LeafStopping(m.node)'
<1>1. PICK l \in Leaves : l = m.node
  BY DEF ToSpine, PacketsOf, NodesOf, LeafKinds
<1>2. m.type = "failedLeaf" /\ KindOf(m) = "failedLeaf" /\ m.servers \subseteq Servers /\ "failedLeaf" \in Kinds
  BY PacketValue DEF ToSpine, Kinds, PacketsOf, TypesOf
<1>3. Spine!DetachLeaf(l) /\ Spine!DeleteLeaf(l) /\ S!BooksOK
  BY <1>1 DEF SpineFailLeaf, BooksInv
<1>4. S!BooksOK'
  BY <1>3, SpineDetachLeaf
<1>5. S!DetachLeaf(l) /\ S!DeleteLeaf(l)
  BY <1>3 DEF Spine!DetachLeaf, S!DetachLeaf, Spine!DeleteLeaf, S!DeleteLeaf,
         Spine!EmptiedByLeaf, S!EmptiedByLeaf, Spine!LostWithLeaf, S!LostWithLeaf,
         Spine!ServerVCsAfter, S!ServerVCsAfter, Spine!Children, S!Children
<1>6. /\ sSpineOf[l] # None /\ sSpineOf' = [sSpineOf EXCEPT ![l] = None]
      /\ sLeafOf' = [s \in Servers |-> IF sLeafOf[s] = l THEN None ELSE sLeafOf[s]]
      /\ sVcs' = [v \in VCIds |-> VCAfterLeaf(v, l)]
      /\ sServerVCs' = [s \in Servers |-> S!ServerVCsAfter(s, l)]
      /\ sLeafVCs' = [o \in Leaves |-> LeafVCsAfterLeaf(o, l)]
  BY <1>5 DEF S!DetachLeaf, S!DeleteLeaf, VCAfterLeaf, LeafVCsAfterLeaf
<1>7. SameBooks'
  <2>1. AheadFailedLeaf(l)
    BY <1>1
  <2>2. /\ leafOf \in [Servers -> Leaves \cup {None}] /\ vcs \in [VCIds -> VC \cup {None}]
        /\ serverVCs \in [Servers -> SUBSET VCIds] /\ leafVCs \in [Leaves -> SUBSET VCIds]
    BY DEF BooksInv, BooksOK, BooksTypeOK, TreeTypeOK
  <2>3. spineOf = sSpineOf'
    BY <1>6, <2>1 DEF AheadFailedLeaf
  <2>4. leafOf = sLeafOf'
    BY <1>6, <2>1, <2>2 DEF AheadFailedLeaf
  <2>5. vcs = sVcs'
    BY <1>6, <2>1, <2>2 DEF AheadFailedLeaf
  <2>6. serverVCs = sServerVCs' /\ leafVCs = sLeafVCs'
    BY <1>6, <2>1, <2>2 DEF AheadFailedLeaf
  <2> QED
    BY <2>3, <2>4, <2>5, <2>6 DEF SameBooks, vars
<1>8. /\ sSpineOf'[l] = None /\ \A o \in Leaves \ {l} : sSpineOf'[o] = sSpineOf[o]
  BY <1>3, <1>6 DEF S!BooksOK, S!BooksTypeOK, S!TreeTypeOK
<1>9. PICK p : p = Packet("failedLeaf", l, None, m.servers, {})
  OBVIOUS
<1>10. p \in ToLeaf("failedLeaf") /\ p.node = l
  BY <1>2, <1>9 DEF ToLeaf, PacketsOf, Packets, Packet, TypesOf, NodesOf, LeafKinds
<1>11. eg' = Only("failedLeaf", p)
  <2>1. eg' = Push(eg, "failedLeaf", p)
    BY <1>1, <1>2, <1>9 DEF SpineFailLeaf, Queue
  <2> QED
    BY <1>2, <1>10, <2>1, EgOnly DEF ToLeaf, PacketsOf
<1>12. S!Children(l)' = {}
  BY <1>6, NoneIsNoNode DEF S!Children
<1>13. ASSUME NEW o \in Leaves \ {l}
       PROVE  Settled(o)'
  <2>1. S!Children(o)' = S!Children(o)
    BY <1>6, NoneIsNoNode DEF S!Children
  <2>2. S!Children(o) \cap S!Children(l) = {}
    BY DEF S!Children
  <2>3. ASSUME NEW v \in VCIds
        PROVE  LeafVC(o, v)' = LeafVC(o, v)
    <3>1. sVcs'[v] = VCAfterLeaf(v, l)
      BY <1>6
    <3>2. CASE sVcs[v] = None \/ (sVcs[v].servers # {} /\ sVcs[v].servers \subseteq S!Children(l))
      BY <1>3, <1>4, <2>2, <3>1, <3>2, LeafVCValue, LeafVCValueAfter, VCAfterLeafValue
    <3>3. CASE ~(sVcs[v] = None \/ (sVcs[v].servers # {} /\ sVcs[v].servers \subseteq S!Children(l)))
      <4>1. sVcs[v] # None /\ sVcs'[v] # None /\ sVcs'[v].servers = sVcs[v].servers \ S!Children(l)
        BY <1>3, <3>1, <3>3, VCAfterLeafValue
      <4>2. sVcs'[v].servers \cap S!Children(o)' = sVcs[v].servers \cap S!Children(o)
        BY <2>1, <2>2, <4>1
      <4> QED
        BY <1>3, <1>4, <4>1, <4>2, LeafVCValue, LeafVCValueAfter
    <3> QED
      BY <3>2, <3>3
  <2>4. Settled(o) /\ ctrl' = ctrl /\ lServers' = lServers /\ lVCs' = lVCs
    BY DEF LeavesAtRest, leafVars
  <2> QED
    BY <1>8, <2>1, <2>3, <2>4, StillSettled
<1>14. ctrl'[l] = "up"
  BY <1>6 DEF LeavesAtRest, Settled, Runs, leafVars
<1>15. bcast' = None /\ Empty(mgr)'
  BY DEF LeavesAtRest, Empty
<1>16. LeafStopping(l)'
  BY <1>8, <1>10, <1>11, <1>12, <1>13, <1>14, <1>15 DEF LeafStopping
<1> QED
  BY <1>1, <1>7, <1>16

LEMMA SpineGetsNewServer ==
  ASSUME BooksInv, LeavesAtRest, NEW m \in ToSpine("newServer"), AheadNewServer(m.node, m.leaf),
         SpineAddServer(m), UNCHANGED <<vars, bcast, mgr, leafVars>>
  PROVE  SameBooks' /\ ServerComing(m.node, m.leaf)'
<1>1. PICK s \in Servers : s = m.node
  BY DEF ToSpine, PacketsOf, NodesOf, LeafKinds
<1>2. PICK l \in Leaves : l = m.leaf
  BY DEF ToSpine
<1>3. m.type = "newServer" /\ KindOf(m) = "newServer" /\ m.servers \subseteq Servers /\ "newServer" \in Kinds
  BY PacketValue DEF ToSpine, Kinds, PacketsOf, TypesOf
<1>4. Spine!InsertServer(s, l) /\ UNCHANGED <<sVcs, sServerVCs, sLeafVCs>> /\ S!BooksOK
  BY <1>1, <1>2 DEF SpineAddServer, BooksInv
<1>5. S!BooksOK'
  BY <1>4, SpineInsertServer
<1>6. /\ sSpineOf[l] # None /\ sLeafOf[s] = None /\ sSpineOf' = sSpineOf
      /\ sLeafOf' = [sLeafOf EXCEPT ![s] = l]
  BY <1>4 DEF Spine!InsertServer
<1>7. SameBooks'
  BY <1>1, <1>2, <1>4, <1>6 DEF AheadNewServer, SameBooks, vars
<1>8. /\ s \notin S!Children(l) /\ S!Children(l)' = S!Children(l) \cup {s}
      /\ \A o \in Leaves \ {l} : S!Children(o)' = S!Children(o)
  <2>1. sLeafOf'[s] = l /\ \A t \in Servers \ {s} : sLeafOf'[t] = sLeafOf[t]
    BY <1>4, <1>6 DEF S!BooksOK, S!BooksTypeOK, S!TreeTypeOK
  <2>2. l # None /\ None \notin Leaves
    BY NoneIsNoNode
  <2> QED
    BY <1>6, <2>1, <2>2 DEF S!Children
<1>9. PICK p : p = Packet("newServer", s, l, m.servers, {})
  OBVIOUS
<1>10. p \in ToLeaf("newServer") /\ p.node = s /\ p.leaf = l
  BY <1>3, <1>9 DEF ToLeaf, PacketsOf, Packets, Packet, TypesOf, NodesOf, LeafKinds
<1>11. eg' = Only("newServer", p)
  <2>1. eg' = Push(eg, "newServer", p)
    BY <1>1, <1>2, <1>3, <1>9 DEF SpineAddServer, Queue
  <2> QED
    BY <1>3, <1>10, <2>1, EgOnly DEF ToLeaf, PacketsOf
<1>12. ASSUME NEW v \in VCIds, sVcs[v] # None
       PROVE  s \notin sVcs[v].servers
  <2>1. v \in S!VCNames
    BY <1>12 DEF S!VCNames
  <2> QED
    BY <1>4, <1>6, <2>1 DEF S!BooksOK, S!VCServersExist
<1>13. ASSUME NEW o \in Leaves, NEW v \in VCIds
       PROVE  LeafVC(o, v)' = LeafVC(o, v)
  <2>1. sVcs[v] # None => sVcs[v].servers \cap S!Children(o)' = sVcs[v].servers \cap S!Children(o)
    BY <1>8, <1>12
  <2> QED
    BY <1>4, <1>5, <2>1, LeafVCValue, LeafVCValueAfter
<1>14. ASSUME NEW o \in Leaves
       PROVE  /\ Runs(o)'
              /\ lServers'[o] = IF o = l THEN S!Children(o)' \ {s} ELSE S!Children(o)'
              /\ \A v \in VCIds : lVCs'[o][v] = LeafVC(o, v)'
  <2>1. Settled(o) /\ ctrl' = ctrl /\ lServers' = lServers /\ lVCs' = lVCs
    BY DEF LeavesAtRest, leafVars
  <2>2. Runs(o)'
    BY <1>6, <2>1 DEF Settled, Runs
  <2>3. lServers[o] = S!Children(o) /\ \A v \in VCIds : lVCs[o][v] = LeafVC(o, v)
    BY <2>1 DEF Settled
  <2>4. lServers[o] = IF o = l THEN S!Children(o)' \ {s} ELSE S!Children(o)'
    BY <1>8, <2>3
  <2> QED
    BY <1>13, <2>1, <2>2, <2>3, <2>4
<1>15. bcast' = None /\ Empty(mgr)'
  BY DEF LeavesAtRest, Empty
<1>16. ServerComing(s, l)'
  BY <1>6, <1>8, <1>10, <1>11, <1>14, <1>15 DEF ServerComing
<1> QED
  BY <1>1, <1>2, <1>7, <1>16

LEMMA SpineGetsFailedServer ==
  ASSUME BooksInv, LeavesAtRest, NEW m \in ToSpine("failedServer"), AheadFailedServer(m.node),
         SpineFailServer(m), UNCHANGED <<vars, bcast, mgr, leafVars>>
  PROVE  SameBooks' /\ \E l \in Leaves : ServerGoing(m.node, l)'
<1>1. PICK s \in Servers : s = m.node
  BY DEF ToSpine, PacketsOf, NodesOf, LeafKinds
<1>2. /\ m.type = "failedServer" /\ KindOf(m) = "failedServer" /\ m.servers \subseteq Servers
      /\ "failedServer" \in Kinds
  BY PacketValue DEF ToSpine, Kinds, PacketsOf, TypesOf
<1>3. Spine!DeleteServer(s) /\ Spine!DetachServer(s) /\ S!BooksOK
  BY <1>1 DEF SpineFailServer, BooksInv
<1>4. S!BooksOK'
  BY <1>3, SpineDetachServer
<1>5. S!DeleteServer(s) /\ S!DetachServer(s)
  BY <1>3 DEF Spine!DetachServer, S!DetachServer, Spine!DeleteServer, S!DeleteServer,
         Spine!EmptiedByServer, S!EmptiedByServer, Spine!LeavesLeft, S!LeavesLeft
<1>6. /\ sLeafOf[s] # None /\ sSpineOf' = sSpineOf
      /\ sLeafOf' = [sLeafOf EXCEPT ![s] = None]
      /\ sVcs' = [v \in VCIds |-> VCAfterServer(v, s)]
      /\ sServerVCs' = [sServerVCs EXCEPT ![s] = {}]
      /\ sLeafVCs' = [o \in Leaves |-> LeafVCsAfterServer(o, s)]
  BY <1>5 DEF S!DetachServer, S!DeleteServer, VCAfterServer, LeafVCsAfterServer
<1>7. SameBooks'
  <2>1. AheadFailedServer(s)
    BY <1>1
  <2>2. vcs \in [VCIds -> VC \cup {None}] /\ leafVCs \in [Leaves -> SUBSET VCIds]
    BY DEF BooksInv, BooksOK, BooksTypeOK
  <2>3. spineOf = sSpineOf' /\ leafOf = sLeafOf' /\ serverVCs = sServerVCs'
    BY <1>6, <2>1 DEF AheadFailedServer
  <2>4. vcs = sVcs'
    BY <1>6, <2>1, <2>2 DEF AheadFailedServer
  <2>5. leafVCs = sLeafVCs'
    BY <1>6, <2>1, <2>2 DEF AheadFailedServer
  <2> QED
    BY <2>3, <2>4, <2>5 DEF SameBooks, vars
<1>8. PICK l \in Leaves : l = sLeafOf[s]
  BY <1>3, <1>6 DEF S!BooksOK, S!BooksTypeOK, S!TreeTypeOK
<1>9. /\ s \in S!Children(l) /\ S!Children(l)' = S!Children(l) \ {s}
      /\ \A o \in Leaves \ {l} : s \notin S!Children(o) /\ S!Children(o)' = S!Children(o)
  <2>1. sLeafOf'[s] = None /\ \A t \in Servers \ {s} : sLeafOf'[t] = sLeafOf[t]
    BY <1>3, <1>6 DEF S!BooksOK, S!BooksTypeOK, S!TreeTypeOK
  <2>2. None \notin Leaves
    BY NoneIsNoNode
  <2> QED
    BY <1>6, <1>8, <2>1, <2>2 DEF S!Children
<1>10. sSpineOf'[l] # None
  BY <1>3, <1>6, <1>8 DEF S!BooksOK, S!NoOrphans
<1>11. PICK p : p = Packet("failedServer", s, l, m.servers, {})
  OBVIOUS
<1>12. p \in ToLeaf("failedServer") /\ p.node = s /\ p.leaf = l
  BY <1>2, <1>11 DEF ToLeaf, PacketsOf, Packets, Packet, TypesOf, NodesOf, LeafKinds
<1>13. eg' = Only("failedServer", p)
  <2>1. Spine!Detached(s)
    BY <1>1 DEF AheadFailedServer, S!Detached, Spine!Detached
  <2>2. eg' = Push(eg, "failedServer", p)
    BY <1>1, <1>2, <1>8, <1>11, <2>1 DEF SpineFailServer, Queue
  <2> QED
    BY <1>2, <1>12, <2>2, EgOnly DEF ToLeaf, PacketsOf
<1>14. \A o \in Leaves : Settled(o) /\ ctrl' = ctrl /\ lServers' = lServers /\ lVCs' = lVCs
  BY DEF LeavesAtRest, leafVars
<1>15. ASSUME NEW o \in Leaves \ {l}, NEW v \in VCIds
       PROVE  LeafVC(o, v)' = LeafVC(o, v)
  <2>1. sVcs'[v] = VCAfterServer(v, s)
    BY <1>6
  <2>2. CASE sVcs[v] = None \/ sVcs[v].servers = {s}
    BY <1>3, <1>4, <1>9, <2>1, <2>2, LeafVCValue, LeafVCValueAfter, VCAfterServerValue
  <2>3. CASE ~(sVcs[v] = None \/ sVcs[v].servers = {s})
    <3>1. sVcs[v] # None /\ sVcs'[v] # None /\ sVcs'[v].servers = sVcs[v].servers \ {s}
      BY <1>3, <2>1, <2>3, VCAfterServerValue
    <3>2. sVcs'[v].servers \cap S!Children(o)' = sVcs[v].servers \cap S!Children(o)
      BY <1>9, <3>1
    <3> QED
      BY <1>3, <1>4, <3>1, <3>2, LeafVCValue, LeafVCValueAfter
  <2> QED
    BY <2>2, <2>3
<1>16. ASSUME NEW v \in VCIds
       PROVE  LeafVC(l, v)' = VCsWithout(lVCs[l], s)[v]
  <2>1. lVCs[l] \in [VCIds -> (SUBSET Servers) \cup {None}] /\ lVCs[l][v] = LeafVC(l, v)
    BY <1>14 DEF BooksInv, LeavesTypeOK, Settled
  <2>2. PICK lvcs \in [VCIds -> (SUBSET Servers) \cup {None}] : lvcs = lVCs[l]
    BY <2>1
  <2>3. VCsWithout(lvcs, s)[v] = IF lvcs[v] = None \/ s \notin lvcs[v] THEN lvcs[v]
                                 ELSE IF lvcs[v] = {s} THEN None
                                 ELSE lvcs[v] \ {s}
    BY VCsWithoutValue
  <2>4. sVcs'[v] = VCAfterServer(v, s)
    BY <1>6
  <2>5. PICK here : here = sVcs[v].servers \cap S!Children(l)
    OBVIOUS
  <2>6. lvcs[v] = IF sVcs[v] # None /\ here # {} THEN here ELSE None
    BY <1>3, <2>1, <2>2, <2>5, LeafVCValue
  <2>7. CASE sVcs[v] = None
    <3>1. sVcs'[v] = None
      BY <1>3, <2>4, <2>7, VCAfterServerValue
    <3> QED
      BY <1>4, <2>2, <2>3, <2>6, <2>7, <3>1, LeafVCValueAfter
  <2>8. CASE sVcs[v] # None /\ sVcs[v].servers = {s}
    <3>1. sVcs'[v] = None
      BY <1>3, <2>4, <2>8, VCAfterServerValue
    <3>2. here = {s}
      BY <1>9, <2>5, <2>8
    <3>3. here # None
      BY <3>2, NoneIsNoData
    <3> QED
      BY <1>4, <2>2, <2>3, <2>6, <2>8, <3>1, <3>2, <3>3, LeafVCValueAfter
  <2>9. CASE sVcs[v] # None /\ sVcs[v].servers # {s}
    <3>1. sVcs'[v] # None /\ sVcs'[v].servers = sVcs[v].servers \ {s}
      BY <1>3, <2>4, <2>9, VCAfterServerValue
    <3>2. sVcs'[v].servers \cap S!Children(l)' = here \ {s}
      BY <1>9, <2>5, <3>1
    <3>3. LeafVC(l, v)' = IF here \ {s} # {} THEN here \ {s} ELSE None
      BY <1>4, <3>1, <3>2, LeafVCValueAfter
    <3>4. here \in SUBSET Servers /\ here # None
      BY <2>5, NoneIsNoData DEF S!Children
    <3>5. CASE s \notin here
      <4>1. here \ {s} = here
        BY <3>5
      <4> QED
        BY <2>2, <2>3, <2>6, <2>9, <3>3, <3>4, <3>5, <4>1
    <3>6. CASE s \in here
      <4>1. here # {} /\ lvcs[v] = here
        BY <2>6, <2>9, <3>6
      <4>2. here = {s} <=> here \ {s} = {}
        BY <3>6
      <4> QED
        BY <2>2, <2>3, <3>3, <3>4, <3>6, <4>1, <4>2
    <3> QED
      BY <3>5, <3>6
  <2> QED
    BY <2>7, <2>8, <2>9
<1>17. ASSUME NEW o \in Leaves
       PROVE  /\ Runs(o)'
              /\ lServers'[o] = IF o = l THEN S!Children(o)' \cup {s} ELSE S!Children(o)'
              /\ \A v \in VCIds :
                   LeafVC(o, v)' = IF o = l THEN VCsWithout(lVCs'[o], s)[v] ELSE lVCs'[o][v]
  <2>1. Runs(o)'
    BY <1>6, <1>14 DEF Settled, Runs
  <2>2. lServers[o] = S!Children(o) /\ \A v \in VCIds : lVCs[o][v] = LeafVC(o, v)
    BY <1>14 DEF Settled
  <2>3. lServers[o] = IF o = l THEN S!Children(o)' \cup {s} ELSE S!Children(o)'
    BY <1>9, <2>2
  <2> QED
    BY <1>14, <1>15, <1>16, <2>1, <2>2, <2>3
<1>18. bcast' = None /\ Empty(mgr)' /\ s \notin S!Children(l)'
  BY <1>9 DEF LeavesAtRest, Empty
<1>19. ServerGoing(s, l)'
  BY <1>10, <1>12, <1>13, <1>17, <1>18 DEF ServerGoing
<1> QED
  BY <1>1, <1>7, <1>19

LEMMA SpineGetsNewVC ==
  ASSUME BooksInv, LeavesAtRest, NEW m \in ToSpine("vc"), m.type = "addVC",
         AheadAddVC(m.node, m.servers), SpineAddVC(m), UNCHANGED <<vars, bcast, mgr, leafVars>>
  PROVE  SameBooks' /\ \E p \in ToLeaf("vc") : VCSpreading(p)'
<1>1. PICK v \in VCIds : v = m.node
  BY DEF ToSpine, PacketsOf, NodesOf, LeafKinds
<1>2. PICK servers \in SUBSET Servers : servers = m.servers
  BY PacketValue DEF ToSpine, Kinds
<1>3. KindOf(m) = "vc" /\ "vc" \in Kinds
  BY DEF KindOf, Kinds
<1>4. PICK vc : vc = Spine!NewVC(Spines, servers)
  OBVIOUS
<1>5. /\ S!BooksOK /\ sVcs[v] = None /\ UNCHANGED <<sSpineOf, sLeafOf>>
      /\ \A s \in servers : sLeafOf[s] # None
      /\ vc = S!NewVC(Spines, servers) /\ vc = [spines |-> Spines, leaves |-> {sLeafOf[s] : s \in servers},
                                               servers |-> servers]
      /\ sVcs' = [sVcs EXCEPT ![v] = vc]
      /\ sServerVCs' = [s \in Servers |-> sServerVCs[s] \cup {w \in {v} : s \in vc.servers}]
      /\ sLeafVCs' = [l \in Leaves |-> sLeafVCs[l] \cup {w \in {v} : l \in vc.leaves}]
  BY <1>1, <1>2, <1>4 DEF SpineAddVC, Spine!StoreVC, Spine!NewVC, S!NewVC, Spine!AllExist, BooksInv
<1>6. SameBooks'
  <2>1. AheadAddVC(v, servers)
    BY <1>1, <1>2
  <2> QED
    BY <1>5, <2>1 DEF AheadAddVC, SameBooks, vars
<1>7. \A o \in vc.leaves : o \in Leaves /\ sSpineOf[o] # None
  BY <1>5 DEF S!BooksOK, S!BooksTypeOK, S!TreeTypeOK, S!NoOrphans
<1>8. /\ vc.servers = servers /\ vc \in S!VC /\ vc # None
      /\ sVcs'[v] = vc /\ \A w \in VCIds \ {v} : sVcs'[w] = sVcs[w]
  <2>1. vc.servers = servers /\ vc \in S!VC
    BY <1>5, <1>7 DEF S!VC
  <2> QED
    BY <1>5, <2>1, NoneIsNoSpineRecord DEF S!BooksOK, S!BooksTypeOK
<1>9. PICK p : p = Packet("addVC", v, None, servers, vc.leaves)
  OBVIOUS
<1>10. /\ p \in ToLeaf("vc") /\ p.type = "addVC" /\ p.node = v /\ p.servers = servers
       /\ p.dsts = vc.leaves
  BY <1>7, <1>9 DEF ToLeaf, PacketsOf, Packets, Packet, TypesOf, NodesOf, LeafKinds
<1>11. eg' = Only("vc", p)
  <2>1. eg' = Push(eg, "vc", p)
    BY <1>1, <1>2, <1>3, <1>4, <1>9 DEF SpineAddVC, Queue
  <2> QED
    BY <1>3, <1>10, <2>1, EgOnly DEF ToLeaf, PacketsOf
<1>12. \A o \in Leaves : Settled(o) /\ ctrl' = ctrl /\ lServers' = lServers /\ lVCs' = lVCs
  BY DEF LeavesAtRest, leafVars
<1>13. ASSUME NEW o \in Leaves
       PROVE  /\ Runs(o)' /\ lServers'[o] = S!Children(o)'
              /\ \A w \in VCIds : w # v \/ o \notin vc.leaves => lVCs'[o][w] = LeafVC(o, w)'
              /\ lVCs'[o][v] = None
  <2>1. Runs(o)' /\ lServers'[o] = S!Children(o)' /\ S!Children(o)' = S!Children(o)
    BY <1>5, <1>12 DEF Settled, Runs, S!Children
  <2>2. ASSUME NEW w \in VCIds \ {v}
        PROVE  lVCs'[o][w] = LeafVC(o, w)'
    <3>1. LeafVC(o, w)' = LeafVC(o, w)
      BY <1>8, <2>1 DEF LeafVC
    <3> QED
      BY <1>12, <3>1 DEF Settled
  <2>3. lVCs'[o][v] = None
    <3>1. lVCs[o][v] = LeafVC(o, v) /\ lVCs' = lVCs
      BY <1>12 DEF Settled
    <3>2. LeafVC(o, v) = None
      BY <1>5 DEF LeafVC
    <3> QED
      BY <3>1, <3>2
  <2>4. o \notin vc.leaves => LeafVC(o, v)' = None
    BY <1>8 DEF LeafVC
  <2> QED
    BY <2>1, <2>2, <2>3, <2>4
<1>14. bcast' = None /\ Empty(mgr)'
  BY DEF LeavesAtRest, Empty
<1>15. VCSpreading(p)'
  BY <1>5, <1>7, <1>8, <1>10, <1>11, <1>13, <1>14 DEF VCSpreading
<1> QED
  BY <1>6, <1>10, <1>15

LEMMA SpineGetsRemovedVC ==
  ASSUME BooksInv, LeavesAtRest, NEW m \in ToSpine("vc"), m.type = "removeVC",
         AheadRemoveVC(m.node), SpineRemoveVC(m), UNCHANGED <<vars, bcast, mgr, leafVars>>
  PROVE  SameBooks' /\ \E p \in ToLeaf("vc") : VCSpreading(p)'
<1>1. PICK v \in VCIds : v = m.node
  BY DEF ToSpine, PacketsOf, NodesOf, LeafKinds
<1>2. KindOf(m) = "vc" /\ "vc" \in Kinds /\ m.servers \subseteq Servers
  BY PacketValue DEF KindOf, Kinds, ToSpine
<1>3. /\ S!BooksOK /\ sVcs[v] # None /\ UNCHANGED <<sSpineOf, sLeafOf>>
      /\ sVcs' = [sVcs EXCEPT ![v] = None]
      /\ sServerVCs' = [s \in Servers |-> sServerVCs[s] \ {w \in {v} : s \in sVcs[v].servers}]
      /\ sLeafVCs' = [l \in Leaves |-> sLeafVCs[l] \ {w \in {v} : l \in sVcs[v].leaves}]
  BY <1>1 DEF SpineRemoveVC, Spine!DropVC, BooksInv
<1>4. SameBooks'
  <2>1. AheadRemoveVC(v)
    BY <1>1
  <2> QED
    BY <1>3, <2>1 DEF AheadRemoveVC, SameBooks, vars
<1>5. PICK leaves \in SUBSET Leaves : leaves = sVcs[v].leaves
  BY <1>3 DEF S!BooksOK, S!BooksTypeOK, S!VC
<1>6. \A o \in leaves : sSpineOf[o] # None
  <2>1. v \in S!VCNames
    BY <1>3 DEF S!VCNames
  <2>2. leaves = {sLeafOf[s] : s \in sVcs[v].servers}
    BY <1>3, <1>5, <2>1 DEF S!BooksOK, S!LeavesAreOfServers
  <2> QED
    BY <1>3, <2>1, <2>2 DEF S!BooksOK, S!VCServersExist
<1>7. sVcs'[v] = None /\ \A w \in VCIds \ {v} : sVcs'[w] = sVcs[w]
  BY <1>3 DEF S!BooksOK, S!BooksTypeOK
<1>8. PICK p : p = Packet("removeVC", v, None, m.servers, leaves)
  OBVIOUS
<1>9. p \in ToLeaf("vc") /\ p.type = "removeVC" /\ p.node = v /\ p.dsts = leaves
  BY <1>2, <1>8 DEF ToLeaf, PacketsOf, Packets, Packet, TypesOf, NodesOf, LeafKinds
<1>10. eg' = Only("vc", p)
  <2>1. eg' = Push(eg, "vc", p)
    BY <1>1, <1>2, <1>5, <1>8 DEF SpineRemoveVC, Queue
  <2> QED
    BY <1>2, <1>9, <2>1, EgOnly DEF ToLeaf, PacketsOf
<1>11. \A o \in Leaves : Settled(o) /\ ctrl' = ctrl /\ lServers' = lServers /\ lVCs' = lVCs
  BY DEF LeavesAtRest, leafVars
<1>12. ASSUME NEW o \in Leaves
       PROVE  /\ Runs(o)' /\ lServers'[o] = S!Children(o)'
              /\ \A w \in VCIds : w # v \/ o \notin leaves => lVCs'[o][w] = LeafVC(o, w)'
              /\ o \in leaves => lVCs'[o][v] # None
  <2>1. Runs(o)' /\ lServers'[o] = S!Children(o)' /\ S!Children(o)' = S!Children(o)
    BY <1>3, <1>11 DEF Settled, Runs, S!Children
  <2>2. ASSUME NEW w \in VCIds \ {v}
        PROVE  lVCs'[o][w] = LeafVC(o, w)'
    <3>1. LeafVC(o, w)' = LeafVC(o, w)
      BY <1>7, <2>1 DEF LeafVC
    <3> QED
      BY <1>11, <3>1 DEF Settled
  <2>3. lVCs'[o][v] = LeafVC(o, v)
    BY <1>11 DEF Settled
  <2>4. o \notin leaves => LeafVC(o, v) = None /\ LeafVC(o, v)' = None
    BY <1>5, <1>7 DEF LeafVC
  <2>5. o \in leaves => LeafVC(o, v) # None
    <3>1. o \in leaves => LeafVC(o, v) = sVcs[v].servers \cap S!Children(o)
      BY <1>3, <1>5 DEF LeafVC
    <3>2. sVcs[v].servers \cap S!Children(o) \in SUBSET Servers
      BY DEF S!Children
    <3> QED
      BY <3>1, <3>2, NoneIsNoData
  <2> QED
    BY <2>1, <2>2, <2>3, <2>4, <2>5
<1>13. bcast' = None /\ Empty(mgr)'
  BY DEF LeavesAtRest, Empty
<1>14. VCSpreading(p)'
  BY <1>3, <1>6, <1>7, <1>9, <1>10, <1>12, <1>13 DEF VCSpreading
<1> QED
  BY <1>4, <1>9, <1>14

LEMMA CentralSendKeepsOneAtATime ==
  ASSUME BooksInv, OneAtATime, NEW k \in Kinds, CentralSend(k)
  PROVE  OneAtATime'
<1>1. /\ chan[k] # <<>> /\ chan' = Pop(chan, k)
      /\ UNCHANGED <<vars, clientVars, bcast, mgr, mgrUp, leafVars>>
  BY DEF CentralSend
<1>2. /\ told = None /\ mgrUp /\ LeavesAtRest /\ Empty(chan)'
      /\ Head(chan[k]) \in ToSpine(k) /\ Ahead(Head(chan[k]))
  BY <1>1, MessageToTheSpine
<1>3. PICK m \in ToSpine(k) : m = Head(chan[k])
  BY <1>2
<1>4. Ahead(m) /\ m \in PacketsOf(k)
  BY <1>2, <1>3 DEF ToSpine
<1>5. told' = None /\ mgrUp'
  BY <1>1, <1>2 DEF vars
<1>6. /\ m.type = "newLeaf" => k = "newLeaf" /\ m.node \in Leaves
      /\ m.type = "failedLeaf" => k = "failedLeaf" /\ m.node \in Leaves
      /\ m.type = "newServer" => k = "newServer" /\ m.node \in Servers
      /\ m.type = "failedServer" => k = "failedServer" /\ m.node \in Servers
      /\ m.type \in {"addVC", "removeVC"} => k = "vc"
  BY <1>4, PacketValue
<1>7. m.type = "newServer" => m.leaf \in Leaves
  BY <1>6 DEF ToSpine
<1>8. SpineAccepts(m)
  BY <1>4 DEF Ahead, AheadNewLeaf, AheadFailedLeaf, AheadNewServer, AheadFailedServer, AheadAddVC,
              AheadRemoveVC, SpineAccepts, Spine!AllExist, S!AllExist
<1>9. SpineHandle(m)
  BY <1>2, <1>3, <1>8 DEF CentralSend
<1>10. SameBooks' /\ ( \/ \E l \in Leaves : LeafStarting(l)'
                       \/ \E l \in Leaves : LeafStopping(l)'
                       \/ \E s \in Servers, l \in Leaves : ServerComing(s, l)'
                       \/ \E s \in Servers, l \in Leaves : ServerGoing(s, l)'
                       \/ \E p \in ToLeaf("vc") : VCSpreading(p)' )
  <2>1. CASE m.type = "newLeaf"
    <3>1. SpineAddLeaf(m) /\ AheadNewLeaf(m.node)
      BY <1>4, <1>9, <2>1 DEF Ahead, SpineHandle
    <3> QED
      BY <1>1, <1>2, <1>6, <2>1, <3>1, SpineGetsNewLeaf
  <2>2. CASE m.type = "failedLeaf"
    <3>1. SpineFailLeaf(m) /\ AheadFailedLeaf(m.node)
      BY <1>4, <1>9, <2>2 DEF Ahead, SpineHandle
    <3> QED
      BY <1>1, <1>2, <1>6, <2>2, <3>1, SpineGetsFailedLeaf
  <2>3. CASE m.type = "newServer"
    <3>1. SpineAddServer(m) /\ AheadNewServer(m.node, m.leaf)
      BY <1>4, <1>9, <2>3 DEF Ahead, SpineHandle
    <3> QED
      BY <1>1, <1>2, <1>6, <1>7, <2>3, <3>1, SpineGetsNewServer
  <2>4. CASE m.type = "failedServer"
    <3>1. SpineFailServer(m) /\ AheadFailedServer(m.node)
      BY <1>4, <1>9, <2>4 DEF Ahead, SpineHandle
    <3> QED
      BY <1>1, <1>2, <1>6, <2>4, <3>1, SpineGetsFailedServer
  <2>5. CASE m.type = "addVC"
    <3>1. SpineAddVC(m) /\ AheadAddVC(m.node, m.servers)
      BY <1>4, <1>9, <2>5 DEF Ahead, SpineHandle
    <3> QED
      BY <1>1, <1>2, <1>6, <2>5, <3>1, SpineGetsNewVC
  <2>6. CASE m.type = "removeVC"
    <3>1. SpineRemoveVC(m) /\ AheadRemoveVC(m.node)
      BY <1>4, <1>9, <2>6 DEF Ahead, SpineHandle
    <3> QED
      BY <1>1, <1>2, <1>6, <2>6, <3>1, SpineGetsRemovedVC
  <2> QED
    BY <1>9, <2>1, <2>2, <2>3, <2>4, <2>5, <2>6 DEF SpineHandle
<1> QED
  BY <1>2, <1>5, <1>10 DEF OneAtATime, ToTheLeaves

(* Everything the spine still has to say or to do for the leaves.          *)
LEMMA MessageToTheLeaves ==
  ASSUME BooksInv, OneAtATime,
         \/ \E k \in Kinds : eg[k] # <<>>
         \/ bcast # None
         \/ \E k \in LeafKinds : mgr[k] # <<>>
         \/ \E l \in Leaves : ctrl[l] \in {"fetching", "listening"}
  PROVE  told = None /\ Empty(chan) /\ SameBooks /\ mgrUp /\ ToTheLeaves
<1>1. eg \in [Kinds -> Seq(Packets)] /\ mgr \in [LeafKinds -> Seq(Leaves)]
  BY DEF BooksInv, QueuesTypeOK
<1>2. ~LeavesAtRest
  <2>1. ASSUME LeavesAtRest
        PROVE  FALSE
    <3>1. /\ \A k \in Kinds : eg[k] = <<>>
          /\ bcast = None
          /\ \A k \in LeafKinds : mgr[k] = <<>>
          /\ \A l \in Leaves : ctrl[l] = IF sSpineOf[l] = None THEN "down" ELSE "up"
      BY <1>1, <2>1 DEF LeavesAtRest, Empty, Settled, Runs
    <3> QED
      BY <3>1
  <2> QED
    BY <2>1
<1> QED
  BY <1>2 DEF OneAtATime, AtRest, AtCentral, ToTheSpine, ToTheLeaves

LEMMA LastMessage ==
  ASSUME NEW k \in Kinds, NEW m, eg = Only(k, m), NEW j \in Kinds, eg[j] # <<>>
  PROVE  j = k /\ Head(eg[j]) = m /\ (eg' = Pop(eg, j) => Empty(eg)')
<1>1. j = k /\ eg[k] = <<m>> /\ \A i \in Kinds \ {k} : eg[i] = <<>>
  BY OnlyValue
<1>2. eg = [i \in Kinds |-> IF i = k THEN <<m>> ELSE <<>>]
  BY DEF Only
<1>3. Head(eg[k]) = m /\ Tail(eg[k]) = <<>>
  BY <1>1
<1>4. eg' = Pop(eg, j) => Empty(eg)'
  BY <1>1, <1>2, <1>3 DEF Pop, Empty
<1> QED
  BY <1>1, <1>3, <1>4

LEMMA SendStartsLeaf ==
  ASSUME BooksInv, NEW l \in Leaves, LeafStarting(l), NEW k \in Kinds, eg[k] # <<>>, eg' = Pop(eg, k),
         SendToManager(k) \/ SendServer(k) \/ StartBroadcast(k), UNCHANGED spineVars
  PROVE  LeafStarting(l)'
<1>1. eg \in [Kinds -> Seq(Packets)] /\ mgr \in [LeafKinds -> Seq(Leaves)]
  BY DEF BooksInv, QueuesTypeOK
<1>2. ~Empty(eg)
  BY <1>1 DEF Empty
<1>3. PICK m \in ToLeaf("newLeaf") : m.node = l /\ eg = Only("newLeaf", m)
  BY <1>2 DEF LeafStarting
<1>4. Empty(mgr) /\ ctrl[l] = "down" /\ bcast = None
  BY <1>2 DEF LeafStarting
<1>5. k = "newLeaf" /\ Head(eg[k]) = m /\ Empty(eg)'
  BY <1>3, LastMessage DEF Kinds
<1>6. mgr' = Push(mgr, "newLeaf", l) /\ UNCHANGED <<bcast, leafVars>>
  BY <1>3, <1>5 DEF SendToManager, SendServer, StartBroadcast
<1>7. mgr'["newLeaf"] = <<l>> /\ mgr'["failedLeaf"] = <<>>
  <2>1. mgr["newLeaf"] = <<>> /\ mgr["failedLeaf"] = <<>>
    BY <1>1, <1>4 DEF Empty, LeafKinds
  <2>2. Append(mgr["newLeaf"], l) = <<l>>
    BY <2>1, AppendToNothing
  <2> QED
    BY <1>1, <1>6, <2>1, <2>2 DEF Push, LeafKinds
<1>8. \A o \in Leaves \ {l} : Settled(o)'
  BY <1>6, SettledStays DEF LeafStarting, leafVars
<1>9. S!Children(l)' = S!Children(l)
  BY SpineOperatorsUnchanged
<1> QED
  BY <1>4, <1>5, <1>6, <1>7, <1>8, <1>9 DEF LeafStarting, spineVars, leafVars

LEMMA SendStopsLeaf ==
  ASSUME BooksInv, NEW l \in Leaves, LeafStopping(l), NEW k \in Kinds, eg[k] # <<>>, eg' = Pop(eg, k),
         SendToManager(k) \/ SendServer(k) \/ StartBroadcast(k), UNCHANGED spineVars
  PROVE  LeafStopping(l)'
<1>1. eg \in [Kinds -> Seq(Packets)] /\ mgr \in [LeafKinds -> Seq(Leaves)]
  BY DEF BooksInv, QueuesTypeOK
<1>2. ~Empty(eg)
  BY <1>1 DEF Empty
<1>3. PICK m \in ToLeaf("failedLeaf") : m.node = l /\ eg = Only("failedLeaf", m)
  BY <1>2 DEF LeafStopping
<1>4. Empty(mgr) /\ ctrl[l] = "up" /\ bcast = None
  BY <1>2 DEF LeafStopping
<1>5. k = "failedLeaf" /\ Head(eg[k]) = m /\ Empty(eg)'
  BY <1>3, LastMessage DEF Kinds
<1>6. mgr' = Push(mgr, "failedLeaf", l) /\ UNCHANGED <<bcast, leafVars>>
  BY <1>3, <1>5 DEF SendToManager, SendServer, StartBroadcast
<1>7. mgr'["newLeaf"] = <<>> /\ mgr'["failedLeaf"] = <<l>>
  <2>1. mgr["newLeaf"] = <<>> /\ mgr["failedLeaf"] = <<>>
    BY <1>1, <1>4 DEF Empty, LeafKinds
  <2>2. Append(mgr["failedLeaf"], l) = <<l>>
    BY <2>1, AppendToNothing
  <2> QED
    BY <1>1, <1>6, <2>1, <2>2 DEF Push, LeafKinds
<1>8. \A o \in Leaves \ {l} : Settled(o)'
  BY <1>6, SettledStays DEF LeafStopping, leafVars
<1>9. S!Children(l)' = S!Children(l)
  BY SpineOperatorsUnchanged
<1> QED
  BY <1>4, <1>5, <1>6, <1>7, <1>8, <1>9 DEF LeafStopping, spineVars, leafVars

LEMMA SendAddsServer ==
  ASSUME BooksInv, Paced, NEW s \in Servers, NEW l \in Leaves, ServerComing(s, l), NEW k \in Kinds,
         eg[k] # <<>>, eg' = Pop(eg, k), SendToManager(k) \/ SendServer(k) \/ StartBroadcast(k),
         UNCHANGED spineVars
  PROVE  LeavesAtRest'
<1>1. PICK m \in ToLeaf("newServer") : m.node = s /\ m.leaf = l /\ eg = Only("newServer", m)
  BY DEF ServerComing
<1>2. k = "newServer" /\ Head(eg[k]) = m /\ Empty(eg)'
  BY <1>1, LastMessage DEF Kinds
<1>3. LeafAddServer(l, s) /\ UNCHANGED <<bcast, mgr>>
  BY <1>1, <1>2 DEF SendToManager, SendServer, StartBroadcast, ConnectionDown, LeafKinds
<1>4. bcast' = None /\ Empty(mgr)'
  BY <1>3 DEF ServerComing, Empty
<1>5. /\ sSpineOf[l] # None /\ s \in S!Children(l)
      /\ \A o \in Leaves : /\ Runs(o)
                           /\ lServers[o] = IF o = l THEN S!Children(o) \ {s} ELSE S!Children(o)
                           /\ \A v \in VCIds : lVCs[o][v] = LeafVC(o, v)
  BY DEF ServerComing
<1>6. Reachable(l)
  BY <1>5 DEF Runs, Reachable
<1>7. /\ lServers' = [lServers EXCEPT ![l] = @ \cup {s}]
      /\ UNCHANGED <<ctrl, lVCs>>
  BY <1>3, <1>6 DEF LeafAddServer
<1>8. ASSUME NEW o \in Leaves
      PROVE  Settled(o)'
  <2>1. lServers'[o] = S!Children(o)
    BY <1>5, <1>7 DEF BooksInv, LeavesTypeOK
  <2>2. /\ S!Children(o)' = S!Children(o) /\ sSpineOf' = sSpineOf
        /\ \A v \in VCIds : LeafVC(o, v)' = LeafVC(o, v)
    BY SpineOperatorsUnchanged DEF spineVars
  <2> QED
    BY <1>5, <1>7, <2>1, <2>2 DEF Settled, Runs
<1> QED
  BY <1>2, <1>4, <1>8 DEF LeavesAtRest

LEMMA SendFailsServer ==
  ASSUME BooksInv, Paced, NEW s \in Servers, NEW l \in Leaves, ServerGoing(s, l), NEW k \in Kinds,
         eg[k] # <<>>, eg' = Pop(eg, k), SendToManager(k) \/ SendServer(k) \/ StartBroadcast(k),
         UNCHANGED spineVars
  PROVE  LeavesAtRest'
<1>1. PICK m \in ToLeaf("failedServer") : m.node = s /\ m.leaf = l /\ eg = Only("failedServer", m)
  BY DEF ServerGoing
<1>2. k = "failedServer" /\ Head(eg[k]) = m /\ Empty(eg)'
  BY <1>1, LastMessage DEF Kinds
<1>3. LeafFailServer(l, s) /\ UNCHANGED <<bcast, mgr>>
  BY <1>1, <1>2 DEF SendToManager, SendServer, StartBroadcast, ConnectionDown, LeafKinds
<1>4. bcast' = None /\ Empty(mgr)'
  BY <1>3 DEF ServerGoing, Empty
<1>5. /\ sSpineOf[l] # None /\ s \notin S!Children(l)
      /\ \A o \in Leaves :
           /\ Runs(o)
           /\ lServers[o] = IF o = l THEN S!Children(o) \cup {s} ELSE S!Children(o)
           /\ \A v \in VCIds :
                LeafVC(o, v) = IF o = l THEN VCsWithout(lVCs[o], s)[v] ELSE lVCs[o][v]
  BY DEF ServerGoing
<1>6. Reachable(l) /\ s \in lServers[l]
  BY <1>5 DEF Runs, Reachable
<1>7. /\ lServers' = [lServers EXCEPT ![l] = @ \ {s}]
      /\ lVCs' = [lVCs EXCEPT ![l] = VCsWithout(@, s)]
      /\ UNCHANGED ctrl
  BY <1>3, <1>6 DEF LeafFailServer
<1>8. ASSUME NEW o \in Leaves
      PROVE  Settled(o)'
  <2>1. lServers'[o] = S!Children(o)
    BY <1>5, <1>7 DEF BooksInv, LeavesTypeOK
  <2>2. \A v \in VCIds : lVCs'[o][v] = LeafVC(o, v)
    BY <1>5, <1>7 DEF BooksInv, LeavesTypeOK
  <2>3. /\ S!Children(o)' = S!Children(o) /\ sSpineOf' = sSpineOf
        /\ \A v \in VCIds : LeafVC(o, v)' = LeafVC(o, v)
    BY SpineOperatorsUnchanged DEF spineVars
  <2> QED
    BY <1>5, <1>7, <2>1, <2>2, <2>3 DEF Settled, Runs
<1> QED
  BY <1>2, <1>4, <1>8 DEF LeavesAtRest

LEMMA SendSpreadsVC ==
  ASSUME BooksInv, NEW m \in ToLeaf("vc"), VCSpreading(m), NEW k \in Kinds,
         eg[k] # <<>>, eg' = Pop(eg, k), SendToManager(k) \/ SendServer(k) \/ StartBroadcast(k),
         UNCHANGED spineVars
  PROVE  LeavesAtRest' \/ VCSpreading(m)'
<1>1. eg = Only("vc", m)
  <2>1. ~Empty(eg)
    BY DEF BooksInv, QueuesTypeOK, Empty
  <2> QED
    BY <2>1 DEF VCSpreading
<1>2. k = "vc" /\ Head(eg[k]) = m /\ Empty(eg)'
  BY <1>1, LastMessage DEF Kinds
<1>3. UNCHANGED <<mgr, leafVars>> /\ bcast' = IF m.dsts = {} THEN None ELSE m
  BY <1>2 DEF SendToManager, SendServer, StartBroadcast, LeafKinds
<1>4. Empty(mgr)'
  BY <1>3 DEF VCSpreading, Empty
<1>5. \A o \in Leaves : S!Children(o)' = S!Children(o) /\ \A v \in VCIds : LeafVC(o, v)' = LeafVC(o, v)
  BY SpineOperatorsUnchanged
<1>6. sSpineOf' = sSpineOf /\ sVcs' = sVcs /\ ctrl' = ctrl /\ lServers' = lServers /\ lVCs' = lVCs
  BY <1>3 DEF spineVars, leafVars
<1>7. \A o \in Leaves :
        /\ Runs(o)' /\ lServers'[o] = S!Children(o)'
        /\ \A v \in VCIds : v # m.node \/ o \notin m.dsts => lVCs'[o][v] = LeafVC(o, v)'
  BY <1>5, <1>6 DEF VCSpreading, Runs
<1>8. CASE m.dsts = {}
  BY <1>2, <1>3, <1>4, <1>7, <1>8 DEF LeavesAtRest, Settled
<1>9. CASE m.dsts # {}
  <2>1. bcast' = m
    BY <1>3, <1>9
  <2> QED
    BY <1>2, <1>4, <1>6, <1>7, <1>9, <2>1 DEF VCSpreading
<1> QED
  BY <1>8, <1>9

LEMMA NowAtRest ==
  ASSUME told' = None, Empty(chan)', SameBooks', mgrUp', LeavesAtRest'
  PROVE  OneAtATime'
BY DEF OneAtATime, AtRest

LEMMA SameBooksStay ==
  ASSUME told = None, Empty(chan), SameBooks, mgrUp, UNCHANGED <<vars, chan, spineVars, mgrUp>>
  PROVE  told' = None /\ Empty(chan)' /\ SameBooks' /\ mgrUp'
BY DEF vars, spineVars, SameBooks, Empty

LEMMA SpineSendKeepsOneAtATime ==
  ASSUME BooksInv, OneAtATime, Paced, NEW k \in Kinds, SpineSend(k)
  PROVE  OneAtATime'
<1>1. /\ eg[k] # <<>> /\ eg' = Pop(eg, k)
      /\ SendToManager(k) \/ SendServer(k) \/ StartBroadcast(k)
      /\ UNCHANGED <<vars, clientVars, chan, spineVars, mgrUp>>
  BY DEF SpineSend
<1>2. told = None /\ Empty(chan) /\ SameBooks /\ mgrUp /\ ToTheLeaves
  BY <1>1, MessageToTheLeaves
<1>3. told' = None /\ Empty(chan)' /\ SameBooks' /\ mgrUp'
  BY <1>1, <1>2, SameBooksStay
<1>4. ASSUME NEW l \in Leaves, LeafStarting(l)
      PROVE  OneAtATime'
  BY <1>1, <1>3, <1>4, SendStartsLeaf DEF OneAtATime, ToTheLeaves
<1>5. ASSUME NEW l \in Leaves, LeafStopping(l)
      PROVE  OneAtATime'
  BY <1>1, <1>3, <1>5, SendStopsLeaf DEF OneAtATime, ToTheLeaves
<1>6. ASSUME NEW s \in Servers, NEW l \in Leaves, ServerComing(s, l)
      PROVE  OneAtATime'
  BY <1>1, <1>3, <1>6, SendAddsServer, NowAtRest
<1>7. ASSUME NEW s \in Servers, NEW l \in Leaves, ServerGoing(s, l)
      PROVE  OneAtATime'
  BY <1>1, <1>3, <1>7, SendFailsServer, NowAtRest
<1>8. ASSUME NEW m \in ToLeaf("vc"), VCSpreading(m)
      PROVE  OneAtATime'
  <2>1. LeavesAtRest' \/ VCSpreading(m)'
    BY <1>1, <1>8, SendSpreadsVC
  <2> QED
    BY <1>3, <2>1, NowAtRest DEF OneAtATime, ToTheLeaves
<1> QED
  BY <1>2, <1>4, <1>5, <1>6, <1>7, <1>8 DEF ToTheLeaves

(* The broadcast reaches one leaf after the other, and every leaf accepts. *)
LEMMA BroadcastNextKeepsOneAtATime ==
  ASSUME BooksInv, OneAtATime, Paced, BroadcastNext
  PROVE  OneAtATime'
<1>1. /\ bcast # None
      /\ UNCHANGED <<vars, clientVars, chan, spineVars, eg, mgr, mgrUp, ctrl, lServers>>
  BY DEF BroadcastNext
<1>2. told = None /\ Empty(chan) /\ SameBooks /\ mgrUp /\ ToTheLeaves
  BY <1>1, MessageToTheLeaves
<1>3. told' = None /\ Empty(chan)' /\ SameBooks' /\ mgrUp'
  BY <1>1, <1>2, SameBooksStay
<1>4. PICK m \in ToLeaf("vc") : VCSpreading(m)
  BY <1>1, <1>2 DEF ToTheLeaves, LeafStarting, LeafStopping, ServerComing, ServerGoing
<1>5. /\ bcast = m /\ m.dsts # {} /\ Empty(eg) /\ Empty(mgr)
      /\ \A o \in Leaves :
           /\ Runs(o) /\ lServers[o] = S!Children(o)
           /\ \A v \in VCIds : v # m.node \/ o \notin m.dsts => lVCs[o][v] = LeafVC(o, v)
      /\ \A o \in m.dsts : sSpineOf[o] # None
  BY <1>1, <1>4 DEF VCSpreading
<1>6. /\ m \in Packets /\ m.node \in VCIds /\ m.dsts \subseteq Leaves /\ m.servers \subseteq Servers
      /\ m.type \in {"addVC", "removeVC"} /\ m # None
  BY PacketValue DEF ToLeaf, Kinds, PacketsOf, TypesOf
<1>7. PICK v \in VCIds : v = m.node
  BY <1>6
<1>8. PICK l \in Leaves :
        /\ l \in m.dsts
        /\ \/ /\ LeafAcceptsVC(l, m, ServersAt(m, l)) /\ LeafUpdateVC(l, m, ServersAt(m, l))
              /\ bcast' = IF m.dsts = {l} THEN None ELSE [m EXCEPT !.dsts = @ \ {l}]
           \/ /\ ~LeafAcceptsVC(l, m, ServersAt(m, l))
              /\ bcast' = None /\ UNCHANGED lVCs
  BY <1>5, <1>6 DEF BroadcastNext, ConnectionDown
<1>9. PICK here : here = ServersAt(m, l)
  OBVIOUS
<1>10. here = m.servers \cap S!Children(l)
  BY <1>6, <1>9 DEF ServersAt, S!Children
<1>11. m.type = "addVC" => /\ sVcs[v] # None /\ m.servers = sVcs[v].servers
                           /\ \A o \in m.dsts : o \in sVcs[v].leaves /\ lVCs[o][v] = None
  BY <1>4, <1>7 DEF VCSpreading
<1>12. m.type = "removeVC" => /\ sVcs[v] = None
                              /\ \A o \in m.dsts : lVCs[o][v] # None
  BY <1>4, <1>7 DEF VCSpreading
<1>13. LeafAcceptsVC(l, m, here)
  <2>1. Reachable(l)
    BY <1>5, <1>8 DEF Runs, Reachable
  <2> QED
    BY <1>5, <1>6, <1>7, <1>8, <1>10, <1>11, <1>12, <2>1 DEF LeafAcceptsVC
<1>14. /\ lVCs' = [lVCs EXCEPT ![l][v] = IF m.type = "addVC" THEN here ELSE None]
       /\ bcast' = IF m.dsts = {l} THEN None ELSE [m EXCEPT !.dsts = @ \ {l}]
  BY <1>7, <1>8, <1>9, <1>13 DEF LeafUpdateVC
<1>15. /\ lVCs'[l][v] = IF m.type = "addVC" THEN here ELSE None
       /\ \A o \in Leaves, w \in VCIds : o # l \/ w # v => lVCs'[o][w] = lVCs[o][w]
  BY <1>14 DEF BooksInv, LeavesTypeOK
<1>16. lVCs'[l][v] = LeafVC(l, v)
  BY <1>6, <1>8, <1>10, <1>11, <1>12, <1>15 DEF LeafVC
<1>17. \A o \in Leaves : S!Children(o)' = S!Children(o) /\ \A w \in VCIds : LeafVC(o, w)' = LeafVC(o, w)
  BY <1>1, SpineOperatorsUnchanged
<1>18. sSpineOf' = sSpineOf /\ sVcs' = sVcs
  BY <1>1 DEF spineVars
<1>19. ASSUME NEW o \in Leaves
       PROVE  /\ Runs(o)' /\ lServers'[o] = S!Children(o)'
              /\ \A w \in VCIds : w # v \/ o \notin m.dsts \ {l} => lVCs'[o][w] = LeafVC(o, w)'
  <2>1. Runs(o)' /\ lServers'[o] = S!Children(o)'
    BY <1>1, <1>5, <1>17, <1>18 DEF Runs
  <2>2. \A w \in VCIds : w # v \/ o \notin m.dsts \ {l} => lVCs'[o][w] = LeafVC(o, w)
    BY <1>5, <1>7, <1>15, <1>16
  <2> QED
    BY <1>17, <2>1, <2>2
<1>20. Empty(eg)' /\ Empty(mgr)'
  BY <1>1, <1>5 DEF Empty
<1>21. CASE m.dsts = {l}
  <2>1. LeavesAtRest'
    BY <1>14, <1>19, <1>20, <1>21 DEF LeavesAtRest, Settled
  <2> QED
    BY <1>3, <2>1, NowAtRest
<1>22. CASE m.dsts # {l}
  <2>1. PICK p : p = [m EXCEPT !.dsts = @ \ {l}]
    OBVIOUS
  <2>2. /\ p \in ToLeaf("vc") /\ p.type = m.type /\ p.node = v /\ p.servers = m.servers
        /\ p.dsts = m.dsts \ {l} /\ p.dsts # {} /\ bcast' = p
    BY <1>6, <1>7, <1>8, <1>14, <1>22, <2>1 DEF ToLeaf, PacketsOf, Packets, TypesOf, NodesOf, LeafKinds
  <2>3. \A o \in p.dsts : lVCs'[o][v] = lVCs[o][v] /\ o \in m.dsts
    BY <1>6, <1>15, <2>2
  <2>4. VCSpreading(p)'
    BY <1>5, <1>6, <1>11, <1>12, <1>18, <1>19, <1>20, <2>2, <2>3 DEF VCSpreading
  <2> QED
    BY <1>3, <2>2, <2>4 DEF OneAtATime, ToTheLeaves
<1> QED
  BY <1>21, <1>22

LEMMA MgrAddLeafKeepsOneAtATime ==
  ASSUME BooksInv, OneAtATime, MgrAddLeaf
  PROVE  OneAtATime'
<1>1. /\ mgr["newLeaf"] # <<>> /\ mgr' = Pop(mgr, "newLeaf") /\ "newLeaf" \in LeafKinds
      /\ UNCHANGED <<vars, clientVars, chan, spineVars, eg, bcast, lVCs>>
  BY DEF MgrAddLeaf, LeafKinds
<1>2. told = None /\ Empty(chan) /\ SameBooks /\ mgrUp /\ ToTheLeaves
  BY <1>1, MessageToTheLeaves
<1>3. mgr \in [LeafKinds -> Seq(Leaves)] /\ ~Empty(mgr)
  BY <1>1 DEF BooksInv, QueuesTypeOK, Empty
<1>4. PICK l \in Leaves : LeafStarting(l)
  BY <1>1, <1>2, <1>3 DEF ToTheLeaves, LeafStopping, ServerComing, ServerGoing, VCSpreading
<1>5. /\ sSpineOf[l] # None /\ S!Children(l) = {} /\ lServers[l] = {} /\ lVCs[l] = NoVCs
      /\ bcast = None /\ Empty(eg)
      /\ \A o \in Leaves \ {l} : Settled(o)
      /\ mgr["newLeaf"] = <<l>> /\ mgr["failedLeaf"] = <<>>
  BY <1>3, <1>4 DEF LeafStarting
<1>6. Head(mgr["newLeaf"]) = l /\ Tail(mgr["newLeaf"]) = <<>>
  BY <1>5
<1>7. spineOf[l] # None /\ Children(l) = {}
  BY <1>2, <1>5, SameOperators DEF SameBooks
<1>8. /\ ctrl' = [ctrl EXCEPT ![l] = "fetching"]
      /\ lServers' = [lServers EXCEPT ![l] = {}]
      /\ mgrUp' = mgrUp
  BY <1>6, <1>7 DEF MgrAddLeaf
<1>9. Empty(mgr)' /\ Empty(eg)' /\ bcast' = None
  BY <1>1, <1>3, <1>5, <1>6 DEF Empty, Pop, LeafKinds
<1>10. told' = None /\ Empty(chan)' /\ SameBooks' /\ mgrUp'
  BY <1>1, <1>2, <1>8, SameBooksStay
<1>11. ctrl'[l] = "fetching" /\ lServers'[l] = {} /\ lVCs'[l] = NoVCs
  BY <1>1, <1>5, <1>8 DEF BooksInv, LeavesTypeOK
<1>12. \A o \in Leaves \ {l} : Settled(o)'
  <2>1. \A o \in Leaves \ {l} : ctrl'[o] = ctrl[o] /\ lServers'[o] = lServers[o] /\ lVCs'[o] = lVCs[o]
    BY <1>1, <1>8 DEF BooksInv, LeavesTypeOK
  <2> QED
    BY <1>1, <1>5, <2>1, SettledStays
<1>13. sSpineOf'[l] # None /\ S!Children(l)' = {}
  BY <1>1, <1>5, SpineOperatorsUnchanged DEF spineVars
<1>14. LeafStarting(l)'
  BY <1>9, <1>11, <1>12, <1>13 DEF LeafStarting
<1> QED
  BY <1>10, <1>14 DEF OneAtATime, ToTheLeaves

LEMMA LeafOnTheWay ==
  ASSUME BooksInv, OneAtATime, NEW l \in Leaves, ctrl[l] \in {"fetching", "listening"}
  PROVE  /\ told = None /\ Empty(chan) /\ SameBooks /\ mgrUp
         /\ LeafStarting(l) /\ Empty(eg) /\ Empty(mgr)
<1>1. told = None /\ Empty(chan) /\ SameBooks /\ mgrUp /\ ToTheLeaves
  BY MessageToTheLeaves
<1>2. ~Runs(l)
  BY DEF Runs
<1>3. PICK o \in Leaves : LeafStarting(o) \/ LeafStopping(o)
  BY <1>1, <1>2 DEF ToTheLeaves, ServerComing, ServerGoing, VCSpreading
<1>4. o = l /\ ~LeafStopping(o)
  BY <1>2, <1>3 DEF LeafStarting, LeafStopping, Settled
<1> QED
  BY <1>1, <1>3, <1>4 DEF LeafStarting

LEMMA LeafListensKeepsOneAtATime ==
  ASSUME BooksInv, OneAtATime, NEW l \in Leaves, LeafListens(l)
  PROVE  OneAtATime'
<1>1. /\ ctrl[l] = "fetching" /\ ctrl' = [ctrl EXCEPT ![l] = "listening"]
      /\ UNCHANGED <<vars, clientVars, chan, spineVars, eg, bcast, mgr, mgrUp, lServers, lVCs>>
  BY DEF LeafListens
<1>2. told = None /\ Empty(chan) /\ SameBooks /\ mgrUp /\ LeafStarting(l) /\ Empty(eg) /\ Empty(mgr)
  BY <1>1, LeafOnTheWay
<1>3. told' = None /\ Empty(chan)' /\ SameBooks' /\ mgrUp'
  BY <1>1, <1>2, SameBooksStay
<1>4. Empty(mgr)' /\ Empty(eg)'
  BY <1>1, <1>2 DEF Empty
<1>5. ctrl'[l] = "listening" /\ \A o \in Leaves \ {l} : ctrl'[o] = ctrl[o]
  BY <1>1 DEF BooksInv, LeavesTypeOK
<1>6. \A o \in Leaves \ {l} : Settled(o)'
  BY <1>1, <1>2, <1>5, SettledStays DEF LeafStarting
<1>7. sSpineOf'[l] # None /\ S!Children(l)' = {}
  BY <1>1, <1>2, SpineOperatorsUnchanged DEF spineVars, LeafStarting
<1>8. lServers'[l] = {} /\ lVCs'[l] = NoVCs /\ bcast' = None
  BY <1>1, <1>2 DEF LeafStarting
<1>9. LeafStarting(l)'
  BY <1>4, <1>5, <1>6, <1>7, <1>8 DEF LeafStarting
<1> QED
  BY <1>3, <1>9 DEF OneAtATime, ToTheLeaves

LEMMA LeafStartsKeepsOneAtATime ==
  ASSUME BooksInv, OneAtATime, NEW l \in Leaves, LeafStarts(l)
  PROVE  OneAtATime'
<1>1. /\ ctrl[l] = "listening" /\ ctrl' = [ctrl EXCEPT ![l] = "up"]
      /\ UNCHANGED <<vars, clientVars, chan, spineVars, eg, bcast, mgr, mgrUp, lServers>>
  BY DEF LeafStarts
<1>2. told = None /\ Empty(chan) /\ SameBooks /\ mgrUp /\ LeafStarting(l) /\ Empty(eg) /\ Empty(mgr)
  BY <1>1, LeafOnTheWay
<1>3. told' = None /\ Empty(chan)' /\ SameBooks' /\ mgrUp'
  BY <1>1, <1>2, SameBooksStay
<1>4. /\ sSpineOf[l] # None /\ S!Children(l) = {} /\ lServers[l] = {} /\ lVCs[l] = NoVCs
      /\ bcast = None
      /\ \A o \in Leaves \ {l} : Settled(o)
  BY <1>2 DEF LeafStarting
<1>5. leafVCs[l] = {} /\ \A v \in VCIds : LeafVC(l, v) = None
  BY <1>2, <1>4, LeafWithoutServers DEF BooksInv, SameBooks
<1>6. \A v \in VCIds : lVCs'[l][v] = None
  BY <1>4, <1>5 DEF LeafStarts, BooksInv, LeavesTypeOK, NoVCs
<1>7. ctrl'[l] = "up" /\ \A o \in Leaves \ {l} : ctrl'[o] = ctrl[o] /\ lVCs'[o] = lVCs[o]
  BY <1>1 DEF LeafStarts, BooksInv, LeavesTypeOK
<1>8. \A o \in Leaves \ {l} : Settled(o)'
  BY <1>1, <1>4, <1>7, SettledStays
<1>9. /\ sSpineOf'[l] # None /\ S!Children(l)' = {}
      /\ \A v \in VCIds : LeafVC(l, v)' = None
  BY <1>1, <1>4, <1>5, SpineOperatorsUnchanged DEF spineVars
<1>10. Settled(l)'
  BY <1>1, <1>4, <1>6, <1>7, <1>9 DEF Settled, Runs
<1>11. LeavesAtRest'
  BY <1>1, <1>2, <1>4, <1>8, <1>10 DEF LeavesAtRest, Empty
<1> QED
  BY <1>3, <1>11, NowAtRest

LEMMA MgrFailLeafKeepsOneAtATime ==
  ASSUME BooksInv, OneAtATime, MgrFailLeaf
  PROVE  OneAtATime'
<1>1. /\ mgr["failedLeaf"] # <<>> /\ mgr' = Pop(mgr, "failedLeaf") /\ "failedLeaf" \in LeafKinds
      /\ UNCHANGED <<vars, clientVars, chan, spineVars, eg, bcast>>
  BY DEF MgrFailLeaf, LeafKinds
<1>2. told = None /\ Empty(chan) /\ SameBooks /\ mgrUp /\ ToTheLeaves
  BY <1>1, MessageToTheLeaves
<1>3. mgr \in [LeafKinds -> Seq(Leaves)] /\ ~Empty(mgr)
  BY <1>1 DEF BooksInv, QueuesTypeOK, Empty
<1>4. PICK l \in Leaves : LeafStopping(l)
  BY <1>1, <1>2, <1>3 DEF ToTheLeaves, LeafStarting, ServerComing, ServerGoing, VCSpreading
<1>5. /\ sSpineOf[l] = None /\ S!Children(l) = {} /\ ctrl[l] = "up"
      /\ bcast = None /\ Empty(eg)
      /\ \A o \in Leaves \ {l} : Settled(o)
      /\ mgr["newLeaf"] = <<>> /\ mgr["failedLeaf"] = <<l>>
  BY <1>3, <1>4 DEF LeafStopping
<1>6. Head(mgr["failedLeaf"]) = l /\ Tail(mgr["failedLeaf"]) = <<>>
  BY <1>5
<1>7. /\ mgrUp'
      /\ ctrl' = [ctrl EXCEPT ![l] = "down"]
      /\ lServers' = [lServers EXCEPT ![l] = {}]
      /\ lVCs' = [lVCs EXCEPT ![l] = NoVCs]
  BY <1>5, <1>6 DEF MgrFailLeaf
<1>8. Empty(mgr)' /\ Empty(eg)' /\ bcast' = None
  BY <1>1, <1>3, <1>5, <1>6 DEF Empty, Pop, LeafKinds
<1>9. told' = None /\ Empty(chan)' /\ SameBooks'
  BY <1>1, <1>2 DEF vars, spineVars, SameBooks, Empty
<1>10. ctrl'[l] = "down" /\ lServers'[l] = {} /\ lVCs'[l] = NoVCs
  BY <1>7 DEF BooksInv, LeavesTypeOK
<1>11. \A o \in Leaves \ {l} : Settled(o)'
  <2>1. \A o \in Leaves \ {l} : ctrl'[o] = ctrl[o] /\ lServers'[o] = lServers[o] /\ lVCs'[o] = lVCs[o]
    BY <1>7 DEF BooksInv, LeavesTypeOK
  <2> QED
    BY <1>1, <1>5, <2>1, SettledStays
<1>12. \A v \in VCIds : LeafVC(l, v) = None
  BY <1>5, LeafWithoutServers DEF BooksInv
<1>13. sSpineOf'[l] = None /\ S!Children(l)' = {} /\ \A v \in VCIds : LeafVC(l, v)' = None
  BY <1>1, <1>5, <1>12, SpineOperatorsUnchanged DEF spineVars
<1>14. Settled(l)'
  BY <1>10, <1>13 DEF Settled, Runs, NoVCs
<1>15. LeavesAtRest'
  BY <1>8, <1>11, <1>14 DEF LeavesAtRest
<1> QED
  BY <1>7, <1>9, <1>15, NowAtRest

LEMMA StartsAtRest ==
  ASSUME BooksInv, OneAtATime, mgr["newLeaf"] # <<>>
  PROVE  ctrl[Head(mgr["newLeaf"])] = "down"
<1>1. ToTheLeaves /\ ~Empty(mgr)
  BY MessageToTheLeaves DEF LeafKinds, BooksInv, QueuesTypeOK, Empty
<1>2. PICK l \in Leaves : LeafStarting(l)
  BY <1>1 DEF ToTheLeaves, LeafStopping, ServerComing, ServerGoing, VCSpreading
<1>3. mgr["newLeaf"] = <<l>> /\ ctrl[l] = "down"
  BY <1>1, <1>2 DEF LeafStarting
<1> QED
  BY <1>3

LEMMA StutterKeepsOneAtATime ==
  ASSUME BooksInv, OneAtATime, UNCHANGED propVars
  PROVE  OneAtATime'
<1>1. UNCHANGED <<vars, centralVars, chan, spineVars, eg, bcast, mgr, mgrUp, leafVars>>
  BY DEF propVars, vars, centralVars
<1>2. LeavesAtRest => LeavesAtRest'
  BY <1>1, LeavesAtRestStay
<1>3. Empty(chan) => Empty(chan)'
  BY <1>1 DEF Empty
<1>4. mgrUp' /\ told' = told
  BY <1>1 DEF OneAtATime, vars
<1>5. CASE AtRest
  BY <1>1, <1>2, <1>3, <1>4, <1>5, SameBooksStay, NowAtRest DEF AtRest
<1>6. CASE AtCentral
  <2>1. PICK m : m = ToldPacket
    OBVIOUS
  <2>2. PICK k \in Kinds : m \in ToSpine(k)
    BY <1>6, <2>1, ToldPacketValue DEF AtCentral
  <2>3. Ahead(m) /\ m = ToldPacket'
    BY <1>1, <1>6, <2>1 DEF AtCentral, ToldPacket, vars
  <2>4. Ahead(m)'
    BY <1>1, <2>2, <2>3, AheadStays
  <2> QED
    BY <1>2, <1>3, <1>4, <1>6, <2>3, <2>4, NowAtCentral DEF AtCentral
<1>7. CASE ToTheSpine
  <2>1. PICK k \in Kinds : \E m \in ToSpine(k) : chan = Only(k, m) /\ Ahead(m)
    BY <1>7 DEF ToTheSpine
  <2>2. PICK m \in ToSpine(k) : chan = Only(k, m) /\ Ahead(m)
    BY <2>1
  <2>3. Ahead(m)' /\ chan' = Only(k, m)
    BY <1>1, <2>2, AheadStays
  <2> QED
    BY <1>2, <1>4, <1>7, <2>3 DEF ToTheSpine, OneAtATime
<1>8. CASE ToTheLeaves
  <2>1. told' = None /\ Empty(chan)' /\ SameBooks'
    BY <1>1, <1>3, <1>4, <1>8 DEF ToTheLeaves, SameBooks, vars, spineVars
  <2>2. \A l \in Leaves : Settled(l) => Settled(l)'
    BY <1>1, SettledStays DEF leafVars
  <2>3. \A l \in Leaves : S!Children(l)' = S!Children(l) /\ \A v \in VCIds : LeafVC(l, v)' = LeafVC(l, v)
    BY <1>1, SpineOperatorsUnchanged
  <2>4. /\ sSpineOf' = sSpineOf /\ sVcs' = sVcs /\ eg' = eg /\ bcast' = bcast /\ mgr' = mgr
        /\ ctrl' = ctrl /\ lServers' = lServers /\ lVCs' = lVCs
        /\ Empty(eg)' = Empty(eg) /\ Empty(mgr)' = Empty(mgr)
    BY <1>1 DEF spineVars, leafVars, Empty
  <2>5. ASSUME NEW l \in Leaves, LeafStarting(l)
        PROVE  LeafStarting(l)'
    BY <2>2, <2>3, <2>4, <2>5 DEF LeafStarting
  <2>6. ASSUME NEW l \in Leaves, LeafStopping(l)
        PROVE  LeafStopping(l)'
    BY <2>2, <2>3, <2>4, <2>6 DEF LeafStopping
  <2>7. ASSUME NEW s \in Servers, NEW l \in Leaves, ServerComing(s, l)
        PROVE  ServerComing(s, l)'
    BY <2>3, <2>4, <2>7 DEF ServerComing, Runs
  <2>8. ASSUME NEW s \in Servers, NEW l \in Leaves, ServerGoing(s, l)
        PROVE  ServerGoing(s, l)'
    BY SMTT(30), <2>3, <2>4, <2>8 DEF ServerGoing, Runs
  <2>9. ASSUME NEW m \in ToLeaf("vc"), VCSpreading(m)
        PROVE  VCSpreading(m)'
    BY <2>3, <2>4, <2>9 DEF VCSpreading, Runs
  <2> QED
    BY <1>4, <1>8, <2>1, <2>5, <2>6, <2>7, <2>8, <2>9 DEF ToTheLeaves, OneAtATime
<1> QED
  BY <1>5, <1>6, <1>7, <1>8 DEF OneAtATime

LEMMA InitOneAtATime ==
  ASSUME PropInit
  PROVE  OneAtATime
<1>1. BooksInv
  BY InitBooksInv
<1>2. /\ told = None /\ mgrUp /\ bcast = None
      /\ chan = [k \in Kinds |-> <<>>] /\ eg = [k \in Kinds |-> <<>>]
      /\ mgr = [k \in LeafKinds |-> <<>>]
  BY DEF PropInit
<1>3. Empty(chan) /\ Empty(eg) /\ Empty(mgr)
  BY <1>2 DEF Empty
<1>4. SameBooks
  BY DEF PropInit, SameBooks
<1>5. \A l \in Leaves : S!Children(l) = Children(l)
  BY <1>4, SameOperators
<1>6. ASSUME NEW l \in Leaves
      PROVE  Settled(l)
  <2>1. Runs(l) /\ lServers[l] = S!Children(l)
    BY <1>4, <1>5 DEF PropInit, Runs, SameBooks
  <2>2. \A v \in VCIds : lVCs[l][v] = None /\ LeafVC(l, v) = None
    BY <1>4 DEF PropInit, NoVCs, LeafVC, SameBooks
  <2> QED
    BY <2>1, <2>2 DEF Settled
<1> QED
  BY <1>2, <1>3, <1>4, <1>6 DEF OneAtATime, AtRest, LeavesAtRest

LEMMA NextKeepsOneAtATime ==
  ASSUME BooksInv, OneAtATime, Paced, OnlyVCServersFail, [PropNext]_propVars
  PROVE  OneAtATime'
<1>1. CASE UNCHANGED propVars
  BY <1>1, StutterKeepsOneAtATime
<1>2. CASE PropNext
  BY <1>2, CallKeepsOneAtATime, PutKeepsOneAtATime, CentralSendKeepsOneAtATime,
     SpineSendKeepsOneAtATime, BroadcastNextKeepsOneAtATime, MgrAddLeafKeepsOneAtATime,
     MgrFailLeafKeepsOneAtATime, LeafListensKeepsOneAtATime, LeafStartsKeepsOneAtATime
  DEF PropNext, Progress
<1> QED
  BY <1>1, <1>2

(* With a client that waits for each call to take effect, as cmd/dummy     *)
(* does, and only removes servers while they are in a virtual cluster, the *)
(* message of a call is in one place at a time, and what it has not        *)
(* reached is as it was before the call.                                   *)
THEOREM OneCallAtATime == Paced /\ OnlyVCServersFail => (PropSpec => [](BooksInv /\ OneAtATime))
<1> SUFFICES ASSUME Paced, OnlyVCServersFail PROVE PropSpec => [](BooksInv /\ OneAtATime)
  OBVIOUS
<1> DEFINE I == BooksInv /\ OneAtATime
<1>1. PropInit => I
  BY InitBooksInv, InitOneAtATime
<1>2. I /\ [PropNext]_propVars => I'
  BY NextKeepsBooksInv, NextKeepsOneAtATime
<1> QED
  BY <1>1, <1>2, PTL DEF PropSpec

(* Once such a call is worked off, the spine has the tree of the central   *)
(* controller, and a controller with the right servers runs for every leaf *)
(* and for no other.                                                       *)
THEOREM MembershipAlwaysAgrees == Paced /\ OnlyVCServersFail => (PropSpec => []MembershipAgrees)
<1> SUFFICES ASSUME Paced, OnlyVCServersFail PROVE PropSpec => []MembershipAgrees
  OBVIOUS
<1>1. BooksInv /\ OneAtATime => MembershipAgrees
  BY QuietIsAtRest, RestAgrees DEF OneAtATime, MembershipAgrees
<1> QED
  BY <1>1, OneCallAtATime, PTL

(* Once such a call is worked off, the spine and the leaf controllers have *)
(* the virtual clusters of the central controller.                         *)
THEOREM VCsAlwaysAgree == Paced /\ OnlyVCServersFail => (PropSpec => []VCsAgree)
<1> SUFFICES ASSUME Paced, OnlyVCServersFail PROVE PropSpec => []VCsAgree
  OBVIOUS
<1>1. BooksInv /\ OneAtATime => VCsAgree
  BY QuietIsAtRest, RestAgrees DEF OneAtATime, VCsAgree
<1> QED
  BY <1>1, OneCallAtATime, PTL

(* However messages overtake each other, fail and find a leaf that does    *)
(* not listen yet: a leaf controller's virtual clusters have only servers  *)
(* it has.  The client may call whenever it likes and only never uses the  *)
(* ID of a failed leaf again; or it waits for its calls, may use the IDs   *)
(* of failed leaves, and only removes servers of virtual clusters.         *)
THEOREM LeafVCsAreAlwaysOfServers ==
  (Paced => OnlyVCServersFail) => (PropSpec => []LeafVCsOfServers)
<1> SUFFICES ASSUME Paced => OnlyVCServersFail PROVE PropSpec => []LeafVCsOfServers
  OBVIOUS
<1>1. CASE ~Paced
  BY <1>1, LeafVCsOfServersUnpaced
<1>2. CASE Paced
  <2> DEFINE I == (BooksInv /\ OneAtATime) /\ LeafInv
  <2>1. PropInit => I
    BY InitBooksInv, InitOneAtATime, InitLeafInv
  <2>2. BooksInv /\ OneAtATime /\ mgr["newLeaf"] # <<>> => ctrl[Head(mgr["newLeaf"])] = "down"
    BY StartsAtRest
  <2>3. I /\ [PropNext]_propVars => I'
    BY <1>2, <2>2, NextKeepsBooksInv, NextKeepsOneAtATime, NextKeepsLeafInv
  <2>4. I => LeafVCsOfServers
    BY DEF LeafInv
  <2> QED
    BY <2>1, <2>3, <2>4, PTL DEF PropSpec
<1> QED
  BY <1>1, <1>2

-----------------------------------------------------------------------------
(* The registry and the ports of nodes.                                    *)

LEMMA KnownValue ==
  /\ \A ap \in Known : /\ ap = <<ap[1], ap[2]>> /\ ap[1] \in AsicIDs
                       /\ ap[2] \in DOMAIN Registry[ap[1]].ports
  /\ \A a \in AsicIDs : \A p \in DOMAIN Registry[a].ports : <<a, p>> \in Known
<1>1. ASSUME NEW ap \in Known
      PROVE  /\ ap = <<ap[1], ap[2]>> /\ ap[1] \in AsicIDs
             /\ ap[2] \in DOMAIN Registry[ap[1]].ports
  BY DEF Known, AllPorts
<1>2. ASSUME NEW a \in AsicIDs, NEW p \in DOMAIN Registry[a].ports
      PROVE  <<a, p>> \in Known
  <2>1. p \in UNION {DOMAIN Registry[b].ports : b \in AsicIDs}
    OBVIOUS
  <2>2. <<a, p>> \in AllPorts
    BY <2>1 DEF AllPorts
  <2> QED
    BY <2>2 DEF Known
<1> QED
  BY <1>1, <1>2

(* The control plane of an ASIC is the one at its place in the             *)
(* configuration.                                                          *)
LEMMA DriverExists ==
  ASSUME NEW a \in AsicIDs
  PROVE  \E i \in 1 .. Len(Conf.asics) : Driver(a) = HasDriver(i)
<1> DEFINE I == {i \in 1 .. Len(Conf.asics) : Conf.asics[i].id = a}
<1>1. PICK asic \in Range(Conf.asics) : asic.id = a
  BY DEF AsicIDs, Registry, NewAsicRegistry
<1>2. Conf.asics \in Seq([id : STRING, ctrlAPI : STRING])
  BY ConfAssumption DEF IsConfiguration
<1>3. I # {} /\ I \subseteq Nat
  BY <1>1, <1>2, RangeValue
<1>4. Min(I) \in I
  <2> HIDE DEF I
  <2> QED
    BY <1>3, MinValue
<1>5. SelectInSeq(Conf.asics, LAMBDA x : x.id = a) = Min(I)
  BY <1>3 DEF SelectInSeq
<1> QED
  BY <1>4, <1>5 DEF Driver

LEMMA InUseValue ==
  ASSUME NEW so, NEW lo, NEW ap
  PROVE  ap \in InUse([spineOf |-> so, leafOf |-> lo]) <=>
           \E l \in Leaves : /\ so[l] # None
                             /\ \/ ap \in PortsOfLeaf(l)
                                \/ \E s \in Servers : lo[s] = l /\ ap = PortOfServer(s, l)
<1>1. ap \in InUse([spineOf |-> so, leafOf |-> lo]) <=>
        \E l \in {m \in Leaves : so[m] # None} :
          ap \in PortsOfLeaf(l) \cup {PortOfServer(s, l) : s \in {t \in Servers : lo[t] = l}}
  BY DEF InUse
<1> QED
  BY <1>1

LEMMA InUseNow ==
  ASSUME NEW ap
  PROVE  ap \in PortsInUse <=>
           \E l \in Leaves : /\ spineOf[l] # None
                             /\ \/ ap \in PortsOfLeaf(l)
                                \/ \E s \in Servers : leafOf[s] = l /\ ap = PortOfServer(s, l)
BY InUseValue DEF PortsInUse

LEMMA InUseNext ==
  ASSUME NEW ap
  PROVE  ap \in PortsInUse' <=>
           \E l \in Leaves : /\ spineOf'[l] # None
                             /\ \/ ap \in PortsOfLeaf(l)
                                \/ \E s \in Servers : leafOf'[s] = l /\ ap = PortOfServer(s, l)
<1>1. PICK so, lo : so = spineOf' /\ lo = leafOf'
  OBVIOUS
<1>2. PortsInUse' = InUse([spineOf |-> so, leafOf |-> lo])
  BY <1>1 DEF PortsInUse
<1> QED
  BY <1>1, <1>2, InUseValue

(* A call adds the ports of its node, or takes those of its nodes away.    *)
LEMMA PortsOfNewLeaf ==
  ASSUME TreeTypeOK, NoOrphans, NEW l \in Leaves, NEW sp \in Spines, InsertLeaf(l, sp)
  PROVE  PortsInUse' = PortsInUse \cup PortsOfLeaf(l)
<1>1. /\ leafOf' = leafOf /\ spineOf[l] = None /\ sp # None
      /\ \A m \in Leaves : spineOf'[m] = IF m = l THEN sp ELSE spineOf[m]
      /\ \A s \in Servers : leafOf[s] # l
  BY NoneIsNoNode DEF TreeTypeOK, NoOrphans, InsertLeaf
<1>2. ASSUME NEW ap
      PROVE  ap \in PortsInUse' <=> ap \in PortsInUse \cup PortsOfLeaf(l)
  BY <1>1, InUseNow, InUseNext
<1> QED
  BY <1>2

LEMMA PortsOfNewServer ==
  ASSUME TreeTypeOK, NoOrphans, NEW s \in Servers, NEW l \in Leaves, InsertServer(s, l)
  PROVE  PortsInUse' = PortsInUse \cup {PortOfServer(s, l)}
<1>1. /\ spineOf' = spineOf /\ spineOf[l] # None /\ leafOf[s] = None /\ l # None
      /\ \A t \in Servers : leafOf'[t] = IF t = s THEN l ELSE leafOf[t]
  BY NoneIsNoNode DEF TreeTypeOK, NoOrphans, InsertServer
<1>2. ASSUME NEW ap
      PROVE  ap \in PortsInUse' <=> ap \in PortsInUse \cup {PortOfServer(s, l)}
  BY <1>1, InUseNow, InUseNext, NoneIsNoNode
<1> QED
  BY <1>2

LEMMA PortsOfGoneLeaf ==
  ASSUME TreeTypeOK, NoOrphans, NEW l \in Leaves, DeleteLeaf(l)
  PROVE  /\ PortsInUse' = PortsInUse \ (PortsOfLeaf(l) \cup PortsBelow(l))
         /\ PortsOfLeaf(l) \cup PortsBelow(l) \subseteq PortsInUse
<1>1. /\ spineOf[l] # None
      /\ \A m \in Leaves : spineOf'[m] = IF m = l THEN None ELSE spineOf[m]
      /\ \A t \in Servers : leafOf'[t] = IF leafOf[t] = l THEN None ELSE leafOf[t]
      /\ None \notin Leaves
  BY NoneIsNoNode DEF TreeTypeOK, NoOrphans, DeleteLeaf
<1>2. \A ap : ap \in PortsBelow(l) <=> \E s \in Servers : leafOf[s] = l /\ ap = PortOfServer(s, l)
  BY DEF PortsBelow, Children
<1>3. \A ap : ap \in PortsInUse' <=>
        \E m \in Leaves \ {l} : /\ spineOf[m] # None
                                /\ \/ ap \in PortsOfLeaf(m)
                                   \/ \E s \in Servers : leafOf[s] = m /\ ap = PortOfServer(s, m)
  <2>1. ASSUME NEW ap
        PROVE  ap \in PortsInUse' <=>
                 \E m \in Leaves \ {l} : /\ spineOf[m] # None
                                /\ \/ ap \in PortsOfLeaf(m)
                                   \/ \E s \in Servers : leafOf[s] = m /\ ap = PortOfServer(s, m)
    BY <1>1, InUseNext
  <2> QED
    BY <2>1
<1>4. ASSUME NEW ap, NEW m \in Leaves \ {l}, ap \in PortsOfLeaf(m)
      PROVE  ap \notin PortsOfLeaf(l) \cup PortsBelow(l)
  BY <1>2, <1>4, CablingAssumption
<1>5. ASSUME NEW ap, NEW m \in Leaves \ {l}, NEW s \in Servers, leafOf[s] = m, ap = PortOfServer(s, m)
      PROVE  ap \notin PortsOfLeaf(l) \cup PortsBelow(l)
  BY <1>2, <1>5, CablingAssumption
<1>6. ASSUME NEW ap
      PROVE  ap \in PortsInUse' <=> ap \in PortsInUse /\ ap \notin PortsOfLeaf(l) \cup PortsBelow(l)
  <2>1. ASSUME ap \in PortsInUse'
        PROVE  ap \in PortsInUse /\ ap \notin PortsOfLeaf(l) \cup PortsBelow(l)
    BY <1>3, <1>4, <1>5, <2>1, InUseNow
  <2>2. ASSUME ap \in PortsInUse, ap \notin PortsOfLeaf(l) \cup PortsBelow(l)
        PROVE  ap \in PortsInUse'
    BY <1>2, <1>3, <2>2, InUseNow
  <2> QED
    BY <2>1, <2>2
<1>7. ASSUME NEW ap \in PortsOfLeaf(l) \cup PortsBelow(l)
      PROVE  ap \in PortsInUse
  BY <1>1, <1>2, InUseNow
<1> QED
  BY <1>6, <1>7

LEMMA PortOfGoneServer ==
  ASSUME TreeTypeOK, NoOrphans, NEW s \in Servers, DeleteServer(s)
  PROVE  /\ PortsInUse' = PortsInUse \ {PortOfServer(s, leafOf[s])}
         /\ PortOfServer(s, leafOf[s]) \in PortsInUse
<1>1. PICK l \in Leaves : l = leafOf[s]
  BY DEF TreeTypeOK, DeleteServer
<1>2. /\ spineOf' = spineOf /\ None \notin Leaves /\ spineOf[l] # None
      /\ \A t \in Servers : leafOf'[t] = IF t = s THEN None ELSE leafOf[t]
      /\ \A t \in Servers : leafOf[t] \in Leaves \cup {None}
  BY <1>1, NoneIsNoNode DEF TreeTypeOK, NoOrphans, DeleteServer
<1>3. ASSUME NEW ap
      PROVE  ap \in PortsInUse' <=> ap \in PortsInUse /\ ap # PortOfServer(s, l)
  <2>1. ASSUME ap \in PortsInUse'
        PROVE  ap \in PortsInUse /\ ap # PortOfServer(s, l)
    <3>1. PICK m \in Leaves : /\ spineOf[m] # None
                              /\ \/ ap \in PortsOfLeaf(m)
                                 \/ \E t \in Servers : leafOf'[t] = m /\ ap = PortOfServer(t, m)
      BY <1>2, <2>1, InUseNext
    <3>2. CASE ap \in PortsOfLeaf(m)
      BY <3>1, <3>2, InUseNow, CablingAssumption
    <3>3. ASSUME NEW t \in Servers, leafOf'[t] = m, ap = PortOfServer(t, m)
          PROVE  ap \in PortsInUse /\ ap # PortOfServer(s, l)
      <4>1. t # s /\ leafOf[t] = m
        BY <1>2, <3>3
      <4> QED
        BY <3>1, <3>3, <4>1, InUseNow, CablingAssumption
    <3> QED
      BY <3>1, <3>2, <3>3
  <2>2. ASSUME ap \in PortsInUse, ap # PortOfServer(s, l)
        PROVE  ap \in PortsInUse'
    <3>1. PICK m \in Leaves : /\ spineOf[m] # None
                              /\ \/ ap \in PortsOfLeaf(m)
                                 \/ \E t \in Servers : leafOf[t] = m /\ ap = PortOfServer(t, m)
      BY <2>2, InUseNow
    <3>2. \A t \in Servers : leafOf[t] = m /\ ap = PortOfServer(t, m) => leafOf'[t] = m
      BY <1>1, <1>2, <2>2
    <3> QED
      BY <1>2, <3>1, <3>2, InUseNext
  <2> QED
    BY <2>1, <2>2
<1>4. PortOfServer(s, l) \in PortsInUse
  BY <1>1, <1>2, InUseNow
<1> QED
  BY <1>1, <1>3, <1>4

-----------------------------------------------------------------------------
(* The registry's ports, and what is kept about each of them.              *)
PortTables ==
  /\ DOMAIN on = AsicIDs /\ DOMAIN devPort = AsicIDs /\ DOMAIN fetched = Fetchers
  /\ \A a \in AsicIDs : DOMAIN devPort[a] = DOMAIN Registry[a].ports
  /\ PortsInUse \subseteq Known

(* A control plane with a driver that has come this far has been to every  *)
(* port, except for those still to do.                                     *)
InitDone ==
  /\ BusRuns => todo = {}
  /\ \A i \in 1 .. Len(Conf.asics) : i <= cp /\ HasDriver(i) =>
       \A ap \in Known \ todo :
         Number(ap) = DevPort[ap[1]][ap[2]] /\ (BusRuns \/ IsUp(ap))

(* What is asked for but not done yet about a port is what the port lacks. *)
AskedOf(ap) ==
  /\ ap \in PortsInUse => /\ ap \notin Range(disabledPorts) \cup released
                          /\ BusRuns => IsUp(ap) \/ ap \in Range(enabledPorts)
  /\ ap \in released => /\ ap \notin Range(enabledPorts)
                        /\ ap \in Range(disabledPorts) \/ (BusRuns /\ ~IsUp(ap))

Asked == \A ap \in Known : Driver(ap[1]) => AskedOf(ap)

LEMMA ConcatValue ==
  ASSUME NEW T, NEW p \in Seq(T), NEW q \in Seq(T)
  PROVE  /\ p \o q \in Seq(T)
         /\ Range(p \o q) = Range(p) \cup Range(q)
<1>1. /\ p \o q \in Seq(T) /\ Len(p \o q) = Len(p) + Len(q)
      /\ \A i \in 1 .. Len(p) + Len(q) :
           (p \o q)[i] = IF i <= Len(p) THEN p[i] ELSE q[i - Len(p)]
      /\ Len(p) \in Nat /\ Len(q) \in Nat
  BY ConcatProperties
<1>2. ASSUME NEW x \in Range(p \o q)
      PROVE  x \in Range(p) \cup Range(q)
  <2>1. PICK i \in 1 .. Len(p) + Len(q) : (p \o q)[i] = x
    BY <1>1, <1>2, RangeValue
  <2>2. CASE i <= Len(p)
    BY <1>1, <2>1, <2>2, RangeValue
  <2>3. CASE i > Len(p)
    <3>1. PICK k \in 1 .. Len(q) : k = i - Len(p)
      BY <1>1, <2>3
    <3> QED
      BY <1>1, <2>1, <2>3, <3>1, RangeValue
  <2> QED
    BY <1>1, <2>2, <2>3
<1>3. ASSUME NEW x \in Range(p)
      PROVE  x \in Range(p \o q)
  <2>1. PICK i \in 1 .. Len(p) : p[i] = x
    BY <1>3, RangeValue
  <2>2. i \in 1 .. Len(p) + Len(q) /\ (p \o q)[i] = x
    BY <1>1, <2>1
  <2> QED
    BY <1>1, <2>2, RangeValue
<1>4. ASSUME NEW x \in Range(q)
      PROVE  x \in Range(p \o q)
  <2>1. PICK i \in 1 .. Len(q) : q[i] = x
    BY <1>4, RangeValue
  <2>2. PICK k \in 1 .. Len(p) + Len(q) : k = Len(p) + i /\ k > Len(p) /\ k - Len(p) = i
    BY <1>1
  <2>3. (p \o q)[k] = x
    BY <1>1, <2>1, <2>2
  <2> QED
    BY <1>1, <2>3, RangeValue
<1> QED
  BY <1>1, <1>2, <1>3, <1>4

(* A call that brings a node: its ports are in use from now on.            *)
LEMMA EnableKeepsAsked ==
  ASSUME Asked, enabledPorts \in Seq(Known),
         NEW ports \in Seq(Known),
         Range(ports) \cap (Range(enabledPorts) \cup Range(disabledPorts)) = {},
         PortsInUse' = PortsInUse \cup Range(ports),
         Enable(ports), Releases({})
  PROVE  Asked'
<1>1. Range(enabledPorts') = Range(enabledPorts) \cup Range(ports)
  BY ConcatValue DEF Enable
<1>2. released' = (released \cup PortsInUse) \ PortsInUse'
  BY DEF Releases, PortsInUse
<1>3. on' = on /\ disabledPorts' = disabledPorts /\ (BusRuns' <=> BusRuns)
  BY DEF Enable, BusRuns
<1>4. ASSUME NEW ap \in Known, Driver(ap[1])
      PROVE  AskedOf(ap)'
  <2>1. AskedOf(ap)
    BY <1>4 DEF Asked
  <2>2. IsUp(ap)' <=> IsUp(ap)
    BY <1>3 DEF IsUp
  <2> QED
    BY <1>1, <1>2, <1>3, <2>1, <2>2 DEF AskedOf
<1> QED
  BY <1>4 DEF Asked

(* A call that takes nodes away: the ports in exempt stay up.              *)
LEMMA DisableKeepsAsked ==
  ASSUME Asked, disabledPorts \in Seq(Known),
         NEW ports \in Seq(Known), NEW exempt,
         (Range(ports) \cup exempt) \cap (Range(enabledPorts) \cup Range(disabledPorts)) = {},
         Range(ports) \cap exempt = {}, Range(ports) \cup exempt \subseteq PortsInUse,
         PortsInUse' = PortsInUse \ (Range(ports) \cup exempt),
         Disable(ports), Releases(exempt)
  PROVE  Asked'
<1>1. Range(disabledPorts') = Range(disabledPorts) \cup Range(ports)
  BY ConcatValue DEF Disable
<1>2. released' = (released \cup (PortsInUse \ exempt)) \ PortsInUse'
  BY DEF Releases, PortsInUse
<1>3. on' = on /\ enabledPorts' = enabledPorts /\ (BusRuns' <=> BusRuns)
  BY DEF Disable, BusRuns
<1>4. ASSUME NEW ap \in Known, Driver(ap[1])
      PROVE  AskedOf(ap)'
  <2>1. AskedOf(ap)
    BY <1>4 DEF Asked
  <2>2. IsUp(ap)' <=> IsUp(ap)
    BY <1>3 DEF IsUp
  <2> QED
    BY <1>1, <1>2, <1>3, <2>1, <2>2 DEF AskedOf
<1> QED
  BY <1>4 DEF Asked

LEMMA SameAsked ==
  ASSUME Asked, UNCHANGED <<spineOf, leafOf, cp, on, enabledPorts, disabledPorts, released>>
  PROVE  Asked'
<1>1. /\ PortsInUse' = PortsInUse /\ (BusRuns' <=> BusRuns)
      /\ Range(enabledPorts') = Range(enabledPorts) /\ Range(disabledPorts') = Range(disabledPorts)
  BY DEF PortsInUse, BusRuns
<1>2. ASSUME NEW ap \in Known, AskedOf(ap)
      PROVE  AskedOf(ap)'
  BY <1>1, <1>2 DEF AskedOf, IsUp
<1> QED
  BY <1>2 DEF Asked

LEMMA SameInUse ==
  ASSUME UNCHANGED <<spineOf, leafOf>>
  PROVE  PortsInUse' = PortsInUse
BY DEF PortsInUse

(* InitPorts gives a port its number and brings it up, before the bus runs.*)
LEMMA InitPortKeepsAsked ==
  ASSUME PortTables, InitDone, Asked, NEW ap \in Known, InitPort(ap),
         UNCHANGED <<spineOf, leafOf, released>>
  PROVE  Asked'
<1>1. ~BusRuns /\ ~BusRuns'
  BY DEF InitPort, InitDone, BusRuns
<1>2. PortsInUse' = PortsInUse /\ enabledPorts' = enabledPorts /\ disabledPorts' = disabledPorts
  BY SameInUse DEF InitPort
<1>3. ASSUME NEW bq \in Known, AskedOf(bq)
      PROVE  AskedOf(bq)'
  BY <1>1, <1>2, <1>3 DEF AskedOf
<1> QED
  BY <1>3 DEF Asked

LEMMA NextCPKeepsAsked ==
  ASSUME PortTables, InitDone, Asked, cp \in 1 .. Len(Conf.asics) + 1, Len(Conf.asics) \in Nat, NextCP,
         UNCHANGED <<spineOf, leafOf, released>>
  PROVE  Asked'
<1>1. /\ PortsInUse' = PortsInUse /\ enabledPorts' = enabledPorts /\ disabledPorts' = disabledPorts
      /\ on' = on /\ ~BusRuns /\ todo = {}
  BY SameInUse DEF NextCP
<1>2. ASSUME NEW ap \in Known, Driver(ap[1]), AskedOf(ap), BusRuns'
      PROVE  IsUp(ap)'
  <2>1. PICK i \in 1 .. Len(Conf.asics) : HasDriver(i)
    BY <1>2, KnownValue, DriverExists
  <2>2. i <= cp
    BY <1>2 DEF NextCP, BusRuns
  <2> QED
    BY <1>1, <2>1, <2>2 DEF InitDone, IsUp
<1>3. ASSUME NEW ap \in Known, Driver(ap[1]), AskedOf(ap)
      PROVE  AskedOf(ap)'
  BY <1>1, <1>2, <1>3 DEF AskedOf
<1> QED
  BY <1>3 DEF Asked

(* The bus knows the numbers of the ports it brings up and down.           *)
LEMMA NumbersKnown ==
  ASSUME InitDone, BusRuns, Len(Conf.asics) \in Nat, cp \in Nat,
         NEW ap \in Known, Driver(ap[1])
  PROVE  Number(ap) = DevPort[ap[1]][ap[2]]
<1>1. PICK i \in 1 .. Len(Conf.asics) : HasDriver(i)
  BY KnownValue, DriverExists
<1>2. i <= cp /\ todo = {}
  BY DEF BusRuns, InitDone
<1> QED
  BY <1>1, <1>2 DEF InitDone

LEMMA BringPortUpKeepsAsked ==
  ASSUME PortTables, InitDone, Asked, Len(Conf.asics) \in Nat, cp \in Nat,
         enabledPorts \in Seq(Known), BringPortUp, UNCHANGED <<spineOf, leafOf, released>>
  PROVE  Asked'
<1>1. PICK ap \in Known : /\ ap = Head(enabledPorts)
                          /\ \A y : y \in Range(enabledPorts) <=> y = ap \/ y \in Range(enabledPorts')
  <2>1. enabledPorts # <<>> /\ enabledPorts' = Tail(enabledPorts)
    BY DEF BringPortUp
  <2> QED
    BY <2>1, TailValue
<1>2. /\ PortsInUse' = PortsInUse /\ disabledPorts' = disabledPorts /\ released' = released
      /\ BusRuns /\ BusRuns'
  BY SameInUse DEF BringPortUp, BusMayStart, BusRuns
<1>3. ASSUME NEW bq \in Known, Driver(bq[1])
      PROVE  IsUp(bq)' <=> IsUp(bq) \/ bq = ap
  <2>1. bq[1] \in AsicIDs /\ bq[1] \in DOMAIN on
    BY KnownValue DEF PortTables
  <2>2. CASE Driver(ap[1])
    <3>1. on' = [on EXCEPT ![ap[1]] = @ \cup {DevPort[ap[1]][ap[2]]}]
      BY <1>1, <1>2, <2>2, NumbersKnown DEF BringPortUp
    <3> QED
      BY <2>1, <3>1, DevPortsAssumption DEF IsUp
  <2>3. CASE ~Driver(ap[1])
    <3>1. on' = on
      BY <1>1, <2>3 DEF BringPortUp
    <3> QED
      BY <1>3, <2>3, <3>1 DEF IsUp
  <2> QED
    BY <2>2, <2>3
<1>4. ASSUME NEW bq \in Known, Driver(bq[1]), AskedOf(bq)
      PROVE  AskedOf(bq)'
  BY <1>1, <1>2, <1>3, <1>4 DEF AskedOf
<1> QED
  BY <1>4 DEF Asked

LEMMA TakePortDownKeepsAsked ==
  ASSUME PortTables, InitDone, Asked, Len(Conf.asics) \in Nat, cp \in Nat,
         disabledPorts \in Seq(Known), TakePortDown, UNCHANGED <<spineOf, leafOf, released>>
  PROVE  Asked'
<1>1. PICK ap \in Known : /\ ap = Head(disabledPorts)
                          /\ \A y : y \in Range(disabledPorts) <=> y = ap \/ y \in Range(disabledPorts')
  <2>1. disabledPorts # <<>> /\ disabledPorts' = Tail(disabledPorts)
    BY DEF TakePortDown
  <2> QED
    BY <2>1, TailValue
<1>2. /\ PortsInUse' = PortsInUse /\ enabledPorts' = enabledPorts /\ released' = released
      /\ BusRuns /\ BusRuns'
  BY SameInUse DEF TakePortDown, BusMayStart, BusRuns
<1>3. ASSUME NEW bq \in Known, Driver(bq[1])
      PROVE  IsUp(bq)' <=> IsUp(bq) /\ bq # ap
  <2>1. bq[1] \in AsicIDs /\ bq[1] \in DOMAIN on
    BY KnownValue DEF PortTables
  <2>2. CASE Driver(ap[1])
    <3>1. on' = [on EXCEPT ![ap[1]] = @ \ {DevPort[ap[1]][ap[2]]}]
      BY <1>1, <1>2, <2>2, NumbersKnown DEF TakePortDown
    <3> QED
      BY <2>1, <3>1, DevPortsAssumption DEF IsUp
  <2>3. CASE ~Driver(ap[1])
    <3>1. on' = on
      BY <1>1, <2>3 DEF TakePortDown
    <3> QED
      BY <1>3, <2>3, <3>1 DEF IsUp
  <2> QED
    BY <2>2, <2>3
<1>4. ASSUME NEW bq \in Known, Driver(bq[1]), AskedOf(bq)
      PROVE  AskedOf(bq)'
  BY <1>1, <1>2, <1>3, <1>4 DEF AskedOf
<1> QED
  BY <1>4 DEF Asked

(* InitPorts.                                                              *)
LEMMA SameInitDone ==
  ASSUME InitDone, UNCHANGED <<cp, todo, devPort>>,
         BusRuns \/ on' = on
  PROVE  InitDone'
<1>1. ASSUME NEW ap \in Known, Number(ap) = DevPort[ap[1]][ap[2]] /\ (BusRuns \/ IsUp(ap))
      PROVE  Number(ap)' = DevPort[ap[1]][ap[2]] /\ (BusRuns' \/ IsUp(ap)')
  BY <1>1 DEF Number, BusRuns, IsUp
<1>2. BusRuns' <=> BusRuns
  BY DEF BusRuns
<1>3. cp' = cp /\ todo' = todo
  OBVIOUS
<1> QED
  BY <1>1, <1>2, <1>3 DEF InitDone

LEMMA InitPortKeepsInitDone ==
  ASSUME PortTables, InitDone, NEW ap \in Known, Number(ap) \in {0, DevPort[ap[1]][ap[2]]},
         InitPort(ap)
  PROVE  /\ InitDone'
         /\ \A bq \in Known : Number(bq)' \in {Number(bq), DevPort[bq[1]][bq[2]]}
<1>1. /\ ~BusRuns /\ ~BusRuns' /\ cp' = cp /\ todo' = todo \ {ap}
  BY DEF InitPort, InitDone, BusRuns
<1>2. /\ devPort' = [devPort EXCEPT ![ap[1]][ap[2]] = IF @ = 0 THEN DevPort[ap[1]][ap[2]] ELSE @]
      /\ on' = [on EXCEPT ![ap[1]] = @ \cup {DevPort[ap[1]][ap[2]]}]
  BY DEF InitPort
<1>3. ASSUME NEW bq \in Known
      PROVE  /\ Number(bq)' = IF bq = ap THEN DevPort[ap[1]][ap[2]] ELSE Number(bq)
             /\ IsUp(bq) \/ bq = ap => IsUp(bq)'
  <2>1. /\ bq[1] \in DOMAIN on /\ bq[1] \in DOMAIN devPort /\ bq[2] \in DOMAIN devPort[bq[1]]
        /\ bq = <<bq[1], bq[2]>> /\ ap = <<ap[1], ap[2]>>
        /\ ap[1] \in DOMAIN devPort /\ ap[2] \in DOMAIN devPort[ap[1]]
    BY KnownValue DEF PortTables
  <2>2. Number(bq)' = devPort'[bq[1]][bq[2]] /\ Number(bq) = devPort[bq[1]][bq[2]]
    BY DEF Number
  <2>3. Number(bq)' = IF bq = ap THEN DevPort[ap[1]][ap[2]] ELSE Number(bq)
    <3>1. CASE bq = ap
      <4>1. devPort'[ap[1]][ap[2]] = IF devPort[ap[1]][ap[2]] = 0 THEN DevPort[ap[1]][ap[2]]
                                     ELSE devPort[ap[1]][ap[2]]
        BY <1>2, <2>1
      <4> QED
        BY <2>2, <3>1, <4>1
    <3>2. CASE bq # ap
      <4>1. bq[1] # ap[1] \/ bq[2] # ap[2]
        BY <2>1, <3>2
      <4>2. CASE bq[1] # ap[1]
        BY <1>2, <2>1, <2>2, <3>2, <4>2
      <4>3. CASE bq[1] = ap[1] /\ bq[2] # ap[2]
        BY <1>2, <2>1, <2>2, <3>2, <4>3
      <4> QED
        BY <4>1, <4>2, <4>3
    <3> QED
      BY <3>1, <3>2
  <2>4. IsUp(bq) \/ bq = ap => IsUp(bq)'
    BY <1>2, <2>1 DEF IsUp
  <2> QED
    BY <2>3, <2>4
<1>4. ASSUME NEW i \in 1 .. Len(Conf.asics), i <= cp, HasDriver(i), NEW bq \in Known, bq \notin todo'
      PROVE  Number(bq)' = DevPort[bq[1]][bq[2]] /\ (BusRuns' \/ IsUp(bq)')
  <2>1. CASE bq = ap
    BY <1>3, <2>1
  <2>2. CASE bq # ap
    <3>1. bq \in Known \ todo
      BY <1>1, <1>4, <2>2
    <3>2. Number(bq) = DevPort[bq[1]][bq[2]] /\ IsUp(bq)
      BY <1>1, <1>4, <3>1 DEF InitDone
    <3> QED
      BY <1>3, <2>2, <3>2
  <2> QED
    BY <2>1, <2>2
<1>5. InitDone'
  BY <1>1, <1>4 DEF InitDone
<1> QED
  BY <1>3, <1>5

LEMMA NextCPKeepsInitDone ==
  ASSUME InitDone, cp \in 1 .. Len(Conf.asics) + 1, Len(Conf.asics) \in Nat, NextCP
  PROVE  InitDone'
<1>1. /\ todo = {} /\ ~BusRuns /\ cp' = cp + 1 /\ todo' = PortsFor(cp + 1)
      /\ devPort' = devPort /\ on' = on
  BY DEF NextCP
<1>2. BusRuns' => todo' = {}
  BY <1>1 DEF PortsFor, BusRuns
<1>3. ASSUME NEW i \in 1 .. Len(Conf.asics), i <= cp + 1, HasDriver(i), NEW ap \in Known, ap \notin todo'
      PROVE  Number(ap)' = DevPort[ap[1]][ap[2]] /\ IsUp(ap)'
  <2>1. i # cp + 1
    BY <1>1, <1>3 DEF PortsFor
  <2>2. i <= cp
    BY <1>3, <2>1
  <2>3. Number(ap) = DevPort[ap[1]][ap[2]] /\ IsUp(ap)
    BY <1>1, <1>3, <2>2 DEF InitDone
  <2> QED
    BY <1>1, <2>3 DEF Number, IsUp
<1> QED
  BY <1>1, <1>2, <1>3 DEF InitDone

(* What PortsTypeOK says of the variables that are not VCManager's.        *)
PortTypes ==
  /\ alive \in BOOLEAN /\ portCalls \in 0 .. MaxPortCalls
  /\ cp \in 1 .. Len(Conf.asics) + 1
  /\ todo \subseteq Known /\ released \subseteq Known
  /\ \A ap \in Known : Number(ap) \in {0, DevPort[ap[1]][ap[2]]}
  /\ \A a \in AsicIDs : on[a] \subseteq {DevPort[a][p] : p \in DOMAIN Registry[a].ports}
  /\ enabledPorts \in Seq(Known) /\ disabledPorts \in Seq(Known)

LEMMA PortTypesSplit == PortsTypeOK <=> TypeOK /\ PortTypes
BY DEF PortsTypeOK, PortTypes

LEMMA ConfTypes == Len(Conf.asics) \in Nat
BY ConfAssumption DEF IsConfiguration

(* The steps of Run.                                                       *)
LEMMA RunKeepsTypes ==
  ASSUME PortTypes, PortTables, InitDone, Run
  PROVE  PortTypes' /\ PortTables'
<1>1. UNCHANGED <<spineOf, leafOf, vcs, serverVCs, leafVCs, told, portCalls, released>>
  BY DEF Run, vars
<1>2. PortsInUse' = PortsInUse /\ \A ap \in Known : DevPort[ap[1]][ap[2]] \in Nat \ {0}
  BY <1>1, SameInUse, DevPortsAssumption
<1>3. CASE NextCP
  <2>1. cp' \in 1 .. Len(Conf.asics) + 1
    BY <1>3, ConfTypes DEF NextCP, PortTypes, BusRuns
  <2>2. todo' \subseteq Known
    BY <1>3 DEF NextCP, PortsFor
  <2>3. /\ UNCHANGED <<alive, devPort, on, enabledPorts, disabledPorts, fetched>>
        /\ \A ap \in Known : Number(ap)' = Number(ap)
    BY <1>3 DEF NextCP, Number
  <2> QED
    BY <1>1, <1>2, <2>1, <2>2, <2>3 DEF PortTypes, PortTables
<1>4. CASE BringPortUp \/ TakePortDown
  <2>1. /\ UNCHANGED <<alive, cp, todo, devPort, fetched>> /\ BusRuns
        /\ \A ap \in Known : Number(ap)' = Number(ap)
    BY <1>4 DEF BringPortUp, TakePortDown, Number, BusMayStart
  <2>2. enabledPorts' \in Seq(Known) /\ disabledPorts' \in Seq(Known)
    BY <1>4, TailValue DEF BringPortUp, TakePortDown, PortTypes
  <2>3. PICK ap \in Known :
          \/ on' = on
          \/ Driver(ap[1]) /\ on' = [on EXCEPT ![ap[1]] = @ \cup {Number(ap)}]
          \/ on' = [on EXCEPT ![ap[1]] = @ \ {Number(ap)}]
    BY <1>4, TailValue DEF BringPortUp, TakePortDown, PortTypes
  <2>4. DOMAIN on' = AsicIDs
    BY <2>3 DEF PortTables
  <2>5. Driver(ap[1]) => Number(ap) = DevPort[ap[1]][ap[2]]
    <3>1. cp \in Nat
      BY ConfTypes DEF PortTypes
    <3> QED
      BY <2>1, <3>1, ConfTypes, NumbersKnown
  <2>6. ASSUME NEW a \in AsicIDs
        PROVE  on'[a] \subseteq {DevPort[a][p] : p \in DOMAIN Registry[a].ports}
    <3>1. on[a] \subseteq {DevPort[a][p] : p \in DOMAIN Registry[a].ports} /\ a \in DOMAIN on
      BY <2>6 DEF PortTypes, PortTables
    <3>2. ap[2] \in DOMAIN Registry[ap[1]].ports
      BY KnownValue
    <3> QED
      BY <2>3, <2>5, <3>1, <3>2
  <2> QED
    BY <1>1, <1>2, <2>1, <2>2, <2>4, <2>6 DEF PortTypes, PortTables
<1>5. ASSUME NEW ap \in todo, InitPort(ap)
      PROVE  PortTypes' /\ PortTables'
  <2>1. /\ UNCHANGED <<alive, cp, enabledPorts, disabledPorts, fetched>>
        /\ todo' \subseteq todo
        /\ devPort' = [devPort EXCEPT ![ap[1]][ap[2]] = IF @ = 0 THEN DevPort[ap[1]][ap[2]] ELSE @]
        /\ on' = [on EXCEPT ![ap[1]] = @ \cup {DevPort[ap[1]][ap[2]]}]
    BY <1>5 DEF InitPort
  <2>2. ap \in Known
    BY DEF PortTypes
  <2>3. \A bq \in Known : Number(bq)' \in {Number(bq), DevPort[bq[1]][bq[2]]}
    BY <1>5, <2>2, InitPortKeepsInitDone DEF PortTypes
  <2>4. \A bq \in Known : Number(bq)' \in {0, DevPort[bq[1]][bq[2]]}
    BY <2>3 DEF PortTypes
  <2>5. /\ DOMAIN on' = AsicIDs /\ DOMAIN devPort' = AsicIDs
        /\ \A a \in AsicIDs : DOMAIN devPort'[a] = DOMAIN Registry[a].ports
    BY <2>1 DEF PortTables
  <2>6. ASSUME NEW a \in AsicIDs
        PROVE  on'[a] \subseteq {DevPort[a][p] : p \in DOMAIN Registry[a].ports}
    <3>1. on[a] \subseteq {DevPort[a][p] : p \in DOMAIN Registry[a].ports} /\ a \in DOMAIN on
      BY <2>6 DEF PortTypes, PortTables
    <3>2. ap[2] \in DOMAIN Registry[ap[1]].ports
      BY <2>2, KnownValue
    <3> QED
      BY <2>1, <3>1, <3>2
  <2>7. todo' \subseteq Known /\ released' \subseteq Known
    BY <1>1, <2>1 DEF PortTypes
  <2>8. PortTypes'
    BY <1>1, <2>1, <2>4, <2>6, <2>7 DEF PortTypes
  <2>9. PortTables'
    BY <1>2, <2>1, <2>5 DEF PortTables
  <2> QED
    BY <2>8, <2>9
<1> QED
  BY <1>3, <1>4, <1>5 DEF Run

LEMMA RunKeepsRest ==
  ASSUME PortTypes, PortTables, InitDone, Asked, Run
  PROVE  InitDone' /\ Asked'
<1>1. UNCHANGED <<spineOf, leafOf, vcs, serverVCs, leafVCs, told, portCalls, released>>
  BY DEF Run, vars
<1>2. /\ Len(Conf.asics) \in Nat /\ cp \in Nat /\ cp \in 1 .. Len(Conf.asics) + 1
      /\ enabledPorts \in Seq(Known) /\ disabledPorts \in Seq(Known) /\ todo \subseteq Known
  BY ConfTypes DEF PortTypes
<1>3. CASE NextCP
  BY <1>1, <1>2, <1>3, NextCPKeepsInitDone, NextCPKeepsAsked
<1>4. CASE BringPortUp
  <2>1. InitDone'
    BY <1>4, SameInitDone DEF BringPortUp, BusMayStart
  <2> QED
    BY <1>1, <1>2, <1>4, <2>1, BringPortUpKeepsAsked
<1>5. CASE TakePortDown
  <2>1. InitDone'
    BY <1>5, SameInitDone DEF TakePortDown, BusMayStart
  <2> QED
    BY <1>1, <1>2, <1>5, <2>1, TakePortDownKeepsAsked
<1>6. ASSUME NEW ap \in todo, InitPort(ap)
      PROVE  InitDone' /\ Asked'
  <2>1. ap \in Known /\ Number(ap) \in {0, DevPort[ap[1]][ap[2]]}
    BY <1>2 DEF PortTypes
  <2> QED
    BY <1>1, <1>6, <2>1, InitPortKeepsInitDone, InitPortKeepsAsked
<1> QED
  BY <1>3, <1>4, <1>5, <1>6 DEF Run

(* The calls leave the ports, the numbers and the control planes alone.    *)
LEMMA CallKeepsTypes ==
  ASSUME PortTypes, PortTables, InitDone,
         UNCHANGED <<cp, todo, devPort, on, fetched>>,
         alive' \in BOOLEAN, portCalls' \in 0 .. MaxPortCalls,
         enabledPorts' \in Seq(Known), disabledPorts' \in Seq(Known),
         PortsInUse' \subseteq Known, released' \subseteq Known
  PROVE  PortTypes' /\ PortTables' /\ InitDone'
<1>1. \A ap \in Known : Number(ap)' = Number(ap)
  BY DEF Number
<1>2. InitDone'
  BY SameInitDone
<1>3. PortTypes'
  BY <1>1 DEF PortTypes
<1>4. PortTables'
  BY DEF PortTables
<1> QED
  BY <1>2, <1>3, <1>4

LEMMA OneMoreCall ==
  ASSUME PortTypes, NEW ports, PortCall(ports)
  PROVE  portCalls' \in 0 .. MaxPortCalls
BY BoundsAssumption DEF PortTypes, PortCall

LEMMA FatalKeeps ==
  ASSUME PortTypes, PortTables, InitDone, Asked, NEW ports, PortCall(ports), Fatal
  PROVE  PortTypes' /\ PortTables' /\ InitDone' /\ Asked'
<1>1. /\ alive' = FALSE
      /\ UNCHANGED <<spineOf, leafOf, cp, todo, devPort, on, enabledPorts, disabledPorts, fetched, released>>
  BY DEF Fatal, vars
<1>2. PortsInUse' = PortsInUse
  BY <1>1, SameInUse
<1>3. Asked'
  BY <1>1, SameAsked
<1> QED
  BY <1>1, <1>2, <1>3, OneMoreCall, CallKeepsTypes DEF PortTypes, PortTables

LEMMA CallAddLeafKeeps ==
  ASSUME IInv, PortTypes, PortTables, InitDone, Asked, NEW l \in Leaves, NEW sp \in Spines,
         CallAddLeaf(l, sp)
  PROVE  PortTypes' /\ PortTables' /\ InitDone' /\ Asked'
<1>1. CASE PortsOfLeaf(l) \subseteq Known
  <2> DEFINE ports == LeafPortSeq(l)
  <2>1. AddLeaf(l, sp) /\ Enable(ports) /\ Releases({}) /\ PortCall(PortsOfLeaf(l))
    BY <1>1 DEF CallAddLeaf
  <2>2. ports \in Seq(Known) /\ Range(ports) = PortsOfLeaf(l)
    BY <1>1 DEF LeafPortSeq, PortsOfLeaf, Range
  <2> HIDE DEF ports
  <2>3. PortsInUse' = PortsInUse \cup Range(ports)
    BY <2>1, <2>2, PortsOfNewLeaf DEF AddLeaf, IInv, TypeOK
  <2>4. Asked'
    BY <2>1, <2>2, <2>3, EnableKeepsAsked DEF PortTypes, PortCall
  <2>5. enabledPorts' \in Seq(Known) /\ disabledPorts' \in Seq(Known)
    BY <2>1, <2>2, ConcatValue DEF Enable, PortTypes
  <2>6. released' \subseteq Known /\ PortsInUse' \subseteq Known
    BY <1>1, <2>1, <2>2, <2>3 DEF Releases, PortTypes, PortTables
  <2>7. alive' \in BOOLEAN /\ UNCHANGED <<cp, todo, devPort, on, fetched>>
    BY <2>1 DEF Enable, PortTypes
  <2> QED
    BY <2>1, <2>4, <2>5, <2>6, <2>7, OneMoreCall, CallKeepsTypes
<1>2. CASE ~(PortsOfLeaf(l) \subseteq Known)
  <2>1. Fatal /\ PortCall(PortsOfLeaf(l))
    BY <1>2 DEF CallAddLeaf
  <2> QED
    BY <2>1, FatalKeeps
<1> QED
  BY <1>1, <1>2

LEMMA CallAddServerKeeps ==
  ASSUME IInv, PortTypes, PortTables, InitDone, Asked, NEW s \in Servers, NEW l \in Leaves,
         CallAddServer(s, l)
  PROVE  PortTypes' /\ PortTables' /\ InitDone' /\ Asked'
<1> DEFINE port == PortOfServer(s, l)
<1>0. PortCall({port})
  BY DEF CallAddServer
<1>1. CASE port \in Known
  <2> DEFINE ports == <<port>>
  <2>1. AddServer(s, l) /\ Enable(ports) /\ Releases({})
    BY <1>1 DEF CallAddServer
  <2> HIDE DEF port
  <2>2. ports \in Seq(Known) /\ Range(ports) = {port}
    BY <1>1 DEF Range
  <2>3. PortsInUse' = PortsInUse \cup Range(ports)
    BY <2>1, <2>2, PortsOfNewServer DEF AddServer, IInv, TypeOK, port
  <2> HIDE DEF ports
  <2>4. Asked'
    BY <1>0, <2>1, <2>2, <2>3, EnableKeepsAsked DEF PortTypes, PortCall
  <2>5. enabledPorts' \in Seq(Known) /\ disabledPorts' \in Seq(Known)
    BY <2>1, <2>2, ConcatValue DEF Enable, PortTypes
  <2>6. released' \subseteq Known /\ PortsInUse' \subseteq Known
    BY <1>1, <2>1, <2>2, <2>3 DEF Releases, PortTypes, PortTables
  <2>7. alive' \in BOOLEAN /\ UNCHANGED <<cp, todo, devPort, on, fetched>>
    BY <2>1 DEF Enable, PortTypes
  <2> QED
    BY <1>0, <2>4, <2>5, <2>6, <2>7, OneMoreCall, CallKeepsTypes
<1>2. CASE port \notin Known
  <2>1. Fatal
    BY <1>2 DEF CallAddServer
  <2> QED
    BY <1>0, <2>1, FatalKeeps
<1> QED
  BY <1>1, <1>2

LEMMA PortsBelowFinite ==
  ASSUME NEW l \in Leaves
  PROVE  IsFiniteSet(PortsBelow(l))
<1> DEFINE f == [s \in Children(l) |-> PortOfServer(s, l)]
<1>1. IsFiniteSet(Children(l))
  BY BoundsAssumption, FS_Subset DEF Children
<1>2. f \in Surjection(Children(l), PortsBelow(l))
  BY DEF Surjection, PortsBelow
<1> QED
  BY <1>1, <1>2, FS_Surjection

LEMMA CallFailLeafKeeps ==
  ASSUME IInv, PortTypes, PortTables, InitDone, Asked, NEW l \in Leaves, CallFailLeaf(l)
  PROVE  PortTypes' /\ PortTables' /\ InitDone' /\ Asked'
<1>1. PICK below : below = SetToSeq(PortsBelow(l))
  OBVIOUS
<1> DEFINE ports == LeafPortSeq(l) \o below
<1>2. PortCall(PortsOfLeaf(l) \cup PortsBelow(l)) /\ FailLeaf(l) /\ Disable(ports) /\ Releases({})
  BY <1>1 DEF CallFailLeaf, ServersOfFailing
<1>3. /\ PortsInUse' = PortsInUse \ (PortsOfLeaf(l) \cup PortsBelow(l))
      /\ PortsOfLeaf(l) \cup PortsBelow(l) \subseteq PortsInUse
  BY <1>2, PortsOfGoneLeaf DEF FailLeaf, IInv, TypeOK
<1>4. PortsOfLeaf(l) \subseteq Known /\ PortsBelow(l) \subseteq Known
  BY <1>3 DEF PortTables
<1>5. LeafPortSeq(l) \in Seq(Known) /\ Range(LeafPortSeq(l)) = PortsOfLeaf(l)
  BY <1>4 DEF LeafPortSeq, PortsOfLeaf, Range
<1>6. below \in Seq(Known) /\ Range(below) = PortsBelow(l)
  <2>1. below \in Seq(PortsBelow(l)) /\ Range(below) = PortsBelow(l)
    BY <1>1, PortsBelowFinite, SetToSeqValue
  <2> QED
    BY <1>4, <2>1
<1>7. ports \in Seq(Known) /\ Range(ports) = PortsOfLeaf(l) \cup PortsBelow(l)
  BY <1>5, <1>6, ConcatValue
<1> HIDE DEF ports
<1>8. (Range(ports) \cup {}) \cap (Range(enabledPorts) \cup Range(disabledPorts)) = {}
  BY <1>2, <1>7 DEF PortCall
<1>9. Range(ports) \cup {} \subseteq PortsInUse /\ PortsInUse' = PortsInUse \ (Range(ports) \cup {})
  BY <1>3, <1>7
<1>10. Asked'
  BY <1>2, <1>7, <1>8, <1>9, DisableKeepsAsked DEF PortTypes
<1>11. enabledPorts' \in Seq(Known) /\ disabledPorts' \in Seq(Known)
  BY <1>2, <1>7, ConcatValue DEF Disable, PortTypes
<1>12. released' \subseteq Known /\ PortsInUse' \subseteq Known
  BY <1>2, <1>3 DEF Releases, PortTypes, PortTables
<1>13. alive' \in BOOLEAN /\ UNCHANGED <<cp, todo, devPort, on, fetched>>
  BY <1>2 DEF Disable, PortTypes
<1> QED
  BY <1>2, <1>10, <1>11, <1>12, <1>13, OneMoreCall, CallKeepsTypes

LEMMA CallFailServerKeeps ==
  ASSUME IInv, PortTypes, PortTables, InitDone, Asked, NEW s \in Servers, CallFailServer(s)
  PROVE  PortTypes' /\ PortTables' /\ InitDone' /\ Asked'
<1>1. PICK port, ports, exempt :
        /\ port = PortOfServer(s, leafOf[s])
        /\ ports = IF Detached(s) THEN <<port>> ELSE <<>>
        /\ exempt = IF Detached(s) THEN {} ELSE {port}
  OBVIOUS
<1>2. PortCall({port}) /\ FailServer(s) /\ Disable(ports) /\ Releases(exempt)
  BY <1>1 DEF CallFailServer
<1>3. PortsInUse' = PortsInUse \ {port} /\ port \in PortsInUse
  BY <1>1, <1>2, PortOfGoneServer DEF FailServer, IInv, TypeOK
<1>4. port \in Known
  BY <1>3 DEF PortTables
<1>5. /\ ports \in Seq(Known) /\ Range(ports) \cup exempt = {port} /\ Range(ports) \cap exempt = {}
  <2>1. CASE Detached(s)
    <3>1. ports = <<port>> /\ exempt = {}
      BY <1>1, <2>1
    <3>2. ports \in Seq(Known) /\ Range(ports) = {port}
      BY <1>4, <3>1 DEF Range
    <3> QED
      BY <3>1, <3>2
  <2>2. CASE ~Detached(s)
    <3>1. ports = <<>> /\ exempt = {port}
      BY <1>1, <2>2
    <3>2. ports \in Seq(Known) /\ Range(ports) = {}
      BY <3>1, EmptyValue
    <3> QED
      BY <3>1, <3>2
  <2> QED
    BY <2>1, <2>2
<1>6. (Range(ports) \cup exempt) \cap (Range(enabledPorts) \cup Range(disabledPorts)) = {}
  BY <1>2, <1>5 DEF PortCall
<1>7. Asked'
  BY <1>2, <1>3, <1>5, <1>6, DisableKeepsAsked DEF PortTypes
<1>8. enabledPorts' \in Seq(Known) /\ disabledPorts' \in Seq(Known)
  BY <1>2, <1>5, ConcatValue DEF Disable, PortTypes
<1>9. released' \subseteq Known /\ PortsInUse' \subseteq Known
  BY <1>2, <1>3 DEF Releases, PortTypes, PortTables
<1>10. alive' \in BOOLEAN /\ UNCHANGED <<cp, todo, devPort, on, fetched>>
  BY <1>2 DEF Disable, PortTypes
<1> QED
  BY <1>2, <1>7, <1>8, <1>9, <1>10, OneMoreCall, CallKeepsTypes

LEMMA CallVCKeeps ==
  ASSUME PortTypes, PortTables, InitDone, Asked, CallVC
  PROVE  PortTypes' /\ PortTables' /\ InitDone' /\ Asked'
<1>1. PortCall({}) /\ UNCHANGED <<portVars, released>> /\ UNCHANGED <<spineOf, leafOf>>
  BY DEF CallVC, AddVC, RemoveVC, treeVars
<1>2. PortsInUse' = PortsInUse
  BY <1>1, SameInUse
<1>3. Asked'
  BY <1>1, SameAsked DEF portVars
<1> QED
  BY <1>1, <1>2, <1>3, OneMoreCall, CallKeepsTypes DEF portVars, PortTypes, PortTables

LEMMA FetchKeeps ==
  ASSUME PortTypes, PortTables, InitDone, Asked, NEW f \in Fetchers, Fetch(f)
  PROVE  PortTypes' /\ PortTables' /\ InitDone' /\ Asked'
<1>1. UNCHANGED <<spineOf, leafOf, alive, cp, todo, devPort, on, enabledPorts, disabledPorts,
                  portCalls, released>>
  BY DEF Fetch, vars
<1>2. DOMAIN fetched' = DOMAIN fetched
  BY DEF Fetch
<1>3. PortsInUse' = PortsInUse /\ \A ap \in Known : Number(ap)' = Number(ap)
  BY <1>1, SameInUse DEF Number
<1>4. Asked' /\ InitDone'
  BY <1>1, SameAsked, SameInitDone
<1>5. PortTypes'
  BY <1>1, <1>3 DEF PortTypes
<1>6. PortTables'
  BY <1>1, <1>2, <1>3 DEF PortTables
<1> QED
  BY <1>4, <1>5, <1>6

(* The ports do not interfere with the calls of VCManager.                 *)
LEMMA PortNextIsNext ==
  ASSUME [PortNext]_allVars
  PROVE  [Next]_vars
<1>1. CASE Run \/ UNCHANGED allVars \/ \E f \in Fetchers : Fetch(f)
  BY <1>1 DEF Run, Fetch, allVars
<1>2. ASSUME NEW l \in Leaves, CallFailLeaf(l)
      PROVE  Next
  BY <1>2 DEF CallFailLeaf, Next
<1>3. ASSUME NEW l \in Leaves, NEW sp \in Spines, CallAddLeaf(l, sp)
      PROVE  [Next]_vars
  BY <1>3 DEF CallAddLeaf, Fatal, Next
<1>4. ASSUME NEW s \in Servers, CallFailServer(s)
      PROVE  Next
  BY <1>4 DEF CallFailServer, Next
<1>5. ASSUME NEW s \in Servers, NEW l \in Leaves, CallAddServer(s, l)
      PROVE  [Next]_vars
  BY <1>5 DEF CallAddServer, Fatal, Next
<1>6. CASE CallVC
  <2>1. Spines \in SUBSET Spines
    OBVIOUS
  <2> QED
    BY <1>6, <2>1 DEF CallVC, Next
<1> QED
  BY <1>1, <1>2, <1>3, <1>4, <1>5, <1>6 DEF PortNext

(* The inductive invariant: the tree is sound, the tables have the shape    *)
(* the registry gives them, ports that are up are so by InitPorts or by the *)
(* bus, and the channels hold what a port lacks.                           *)
PortIInv == IInv /\ PortTypes /\ PortTables /\ InitDone /\ Asked

LEMMA PortNextKeepsIInv ==
  ASSUME PortIInv, [PortNext]_allVars
  PROVE  PortIInv'
<1>1. IInv'
  BY PortNextIsNext, NextKeepsIInv DEF PortIInv
<1> DEFINE Kept == PortTypes' /\ PortTables' /\ InitDone' /\ Asked'
<1>2. IInv /\ PortTypes /\ PortTables /\ InitDone /\ Asked
  BY DEF PortIInv
<1>3. ASSUME Run
      PROVE  Kept
  BY <1>2, <1>3, RunKeepsTypes, RunKeepsRest
<1>4. ASSUME NEW l \in Leaves, CallFailLeaf(l)
      PROVE  Kept
  BY <1>2, <1>4, CallFailLeafKeeps
<1>5. ASSUME NEW l \in Leaves, NEW sp \in Spines, CallAddLeaf(l, sp)
      PROVE  Kept
  BY <1>2, <1>5, CallAddLeafKeeps
<1>6. ASSUME NEW s \in Servers, CallFailServer(s)
      PROVE  Kept
  BY <1>2, <1>6, CallFailServerKeeps
<1>7. ASSUME NEW s \in Servers, NEW l \in Leaves, CallAddServer(s, l)
      PROVE  Kept
  BY <1>2, <1>7, CallAddServerKeeps
<1>8. ASSUME CallVC
      PROVE  Kept
  BY <1>2, <1>8, CallVCKeeps
<1>9. ASSUME NEW f \in Fetchers, Fetch(f)
      PROVE  Kept
  BY <1>2, <1>9, FetchKeeps
<1>10. ASSUME UNCHANGED allVars
       PROVE  Kept
  <2>1. /\ UNCHANGED <<spineOf, leafOf, alive, cp, todo, devPort, on, enabledPorts, disabledPorts,
                       fetched, portCalls, released>>
    BY <1>10 DEF allVars, vars, portVars
  <2>2. PortsInUse' = PortsInUse /\ \A ap \in Known : Number(ap)' = Number(ap)
    BY <2>1, SameInUse DEF Number
  <2>3. Asked' /\ InitDone'
    BY <1>2, <2>1, SameAsked, SameInitDone
  <2>4. PortTypes'
    BY <1>2, <2>1, <2>2 DEF PortTypes
  <2>5. PortTables'
    BY <1>2, <2>1, <2>2 DEF PortTables
  <2> QED
    BY <2>3, <2>4, <2>5
<1>11. Kept
  BY <1>3, <1>4, <1>5, <1>6, <1>7, <1>8, <1>9, <1>10 DEF PortNext
<1> QED
  BY <1>1, <1>11 DEF PortIInv

LEMMA PortInitIsOK ==
  ASSUME PortInit
  PROVE  PortIInv
<1>1. TreeTypeOK /\ NoOrphans
  BY StartAssumption DEF PortInit, TreeTypeOK, NoOrphans
<1>2. IInv
  BY <1>1, EmptyBooks, IInvIsBooks DEF PortInit
<1>3. PortsInUse = InUse(TreeStart)
  BY DEF PortInit, PortsInUse, InUse
<1>4. PortTables
  BY <1>3, StartAssumption DEF PortInit, PortTables
<1>5. \A ap \in Known : Number(ap) = 0 /\ ~IsUp(ap)
  <2>1. ASSUME NEW ap \in Known
        PROVE  Number(ap) = 0 /\ ~IsUp(ap)
    BY KnownValue DEF PortInit, Number, IsUp
  <2> QED
    BY <2>1
<1>6. /\ enabledPorts = <<>> /\ disabledPorts = <<>> /\ released = {}
      /\ Range(enabledPorts) = {} /\ Range(disabledPorts) = {}
      /\ enabledPorts \in Seq(Known) /\ disabledPorts \in Seq(Known)
  BY EmptyValue DEF PortInit
<1>7. cp = 1 /\ todo = PortsFor(1) /\ todo \subseteq Known
  BY DEF PortInit, PortsFor
<1>8. PortTypes
  <2>1. cp \in 1 .. Len(Conf.asics) + 1
    BY <1>7, ConfTypes
  <2>2. \A a \in AsicIDs : on[a] = {}
    BY DEF PortInit
  <2>3. alive \in BOOLEAN /\ portCalls \in 0 .. MaxPortCalls
    BY BoundsAssumption DEF PortInit
  <2> QED
    BY <1>5, <1>6, <1>7, <2>1, <2>2, <2>3 DEF PortTypes
<1>9. BusRuns => AsicIDs = {} /\ todo = {}
  <2>1. ASSUME BusRuns
        PROVE  AsicIDs = {} /\ todo = {}
    <3>1. 1 .. Len(Conf.asics) = {}
      BY <1>7, <2>1, ConfTypes DEF BusRuns
    <3>2. AsicIDs = {}
      BY <3>1, DriverExists
    <3> QED
      BY <1>7, <3>1, <3>2, KnownValue
  <2> QED
    BY <2>1
<1>10. InitDone
  <2>1. ASSUME NEW i \in 1 .. Len(Conf.asics), i <= cp, HasDriver(i)
        PROVE  todo = Known
    BY <1>7, <2>1, ConfTypes DEF PortsFor
  <2> QED
    BY <1>9, <2>1 DEF InitDone
<1>11. Asked
  <2>1. ASSUME NEW ap \in Known
        PROVE  AskedOf(ap)
    BY <1>6, <1>9, KnownValue DEF AskedOf
  <2> QED
    BY <2>1 DEF Asked
<1> QED
  BY <1>2, <1>4, <1>8, <1>10, <1>11 DEF PortIInv

(* Every state the central controller reaches while clients change the     *)
(* topology and the bus and InitPorts run satisfies the invariant.          *)
THEOREM PortInvariant == PortSpec => []PortIInv
<1>1. PortInit => PortIInv
  BY PortInitIsOK
<1>2. PortIInv /\ [PortNext]_allVars => PortIInv'
  BY PortNextKeepsIInv
<1> QED
  BY <1>1, <1>2, PTL DEF PortSpec

(* Type correctness: only ports of the registry are numbered, enabled,      *)
(* disabled or released, each with the number of its driver.               *)
THEOREM PortTypeCorrect == PortSpec => []PortsTypeOK
<1>1. PortIInv => PortsTypeOK
  BY PortTypesSplit DEF PortIInv, IInv
<1> QED
  BY <1>1, PortInvariant, PTL

(* Once the bus has done all it was asked for, the ports of the nodes in    *)
(* the tree are up at every ASIC with a driver, and those of failed nodes   *)
(* that no other node uses are down.                                       *)
THEOREM PortsAlwaysFollowTree == PortSpec => []PortsFollowTree
<1>1. PortIInv => PortsFollowTree
  <2>1. ASSUME PortIInv, BusRuns, enabledPorts = <<>>, disabledPorts = <<>>,
               NEW ap \in Known, Driver(ap[1])
        PROVE  /\ ap \in PortsInUse => IsUp(ap)
               /\ ap \in released => ~IsUp(ap)
    BY <2>1, EmptyValue DEF PortIInv, Asked, AskedOf
  <2> QED
    BY <2>1 DEF PortsFollowTree
<1> QED
  BY <1>1, PortInvariant, PTL

-----------------------------------------------------------------------------
(* What another controller makes of the encoded registry.                  *)

LEMMA PlaceInSetToSeq ==
  ASSUME NEW Set, IsFiniteSet(Set), NEW x \in Set
  PROVE  \E i \in 1 .. Len(SetToSeq(Set)) : SetToSeq(Set)[i] = x
<1>1. PICK list : list = SetToSeq(Set)
  OBVIOUS
<1>2. list \in Seq(Set) /\ x \in Range(list)
  BY <1>1, SetToSeqValue
<1>3. \E i \in 1 .. Len(list) : list[i] = x
  BY <1>2, RangeValue
<1> QED
  BY <1>1, <1>3

LEMMA FirstConfigValue ==
  ASSUME NEW T, NEW configs \in Seq(T), NEW k \in 1 .. Len(configs), IsValid(configs[k])
  PROVE  /\ FirstConfig(configs, configs[k].id) \in 1 .. Len(configs)
         /\ configs[FirstConfig(configs, configs[k].id)].id = configs[k].id
         /\ IsValid(configs[FirstConfig(configs, configs[k].id)])
<1> DEFINE id == configs[k].id
           I == {i \in 1 .. Len(configs) : configs[i].id = id /\ IsValid(configs[i])}
<1>1. I # {} /\ I \subseteq Nat
  OBVIOUS
<1>2. Min(I) \in I
  <2> HIDE DEF I
  <2> QED
    BY <1>1, MinValue
<1>3. FirstConfig(configs, id) = Min(I)
  BY <1>1 DEF FirstConfig, SelectInSeq
<1> QED
  BY <1>2, <1>3

LEMMA ConfigMapValue ==
  ASSUME NEW T, NEW configs \in Seq(T), NEW M, M = ConfigMap(configs)
  PROVE  /\ M = [id \in DOMAIN M |-> M[id]]
         /\ \A id \in DOMAIN M : M[id].id = id /\ PortConfig(M[id]) = M[id] /\ IsValid(M[id])
         /\ IsFiniteSet(DOMAIN M)
<1>1. /\ DOMAIN M = {c.id : c \in {c \in Range(configs) : IsValid(c)}}
      /\ \A id \in DOMAIN M : M[id] = PortConfig(configs[FirstConfig(configs, id)])
      /\ M = [id \in DOMAIN M |-> M[id]]
  BY DEF ConfigMap
<1>2. ASSUME NEW id \in DOMAIN M
      PROVE  M[id].id = id /\ PortConfig(M[id]) = M[id] /\ IsValid(M[id])
  <2>1. PICK k \in 1 .. Len(configs) : configs[k].id = id /\ IsValid(configs[k])
    BY <1>1, RangeValue
  <2>2. PICK c : c = configs[FirstConfig(configs, id)]
    OBVIOUS
  <2>3. c.id = id /\ M[id] = PortConfig(c)
    BY <1>1, <2>1, <2>2, FirstConfigValue
  <2>4. M[id] = [id |-> id, value |-> c.value, names |-> [i \in 1 .. 3 |-> "bf"]]
    BY <2>3 DEF PortConfig
  <2> QED
    BY <2>4 DEF PortConfig, IsValid
<1>3. IsFiniteSet(DOMAIN M)
  <2> DEFINE f == [i \in 1 .. Len(configs) |-> configs[i].id]
             ids == {configs[i].id : i \in 1 .. Len(configs)}
  <2>1. f \in Surjection(1 .. Len(configs), ids)
    BY DEF Surjection
  <2>2. IsFiniteSet(1 .. Len(configs))
    BY FS_Interval
  <2>3. IsFiniteSet(ids)
    BY <2>1, <2>2, FS_Surjection
  <2>4. DOMAIN M \subseteq ids
    BY <1>1, RangeValue
  <2> QED
    BY <2>3, <2>4, FS_Subset
<1> QED
  BY <1>1, <1>2, <1>3

(* The configs come back, in whatever order the map gave them.             *)
LEMMA ConfigsComeBack ==
  ASSUME NEW M, M = [id \in DOMAIN M |-> M[id]], IsFiniteSet(DOMAIN M),
         \A id \in DOMAIN M : M[id].id = id /\ PortConfig(M[id]) = M[id] /\ IsValid(M[id])
  PROVE  ConfigMap(SetToSeq({M[id] : id \in DOMAIN M})) = M
<1> DEFINE values == {M[id] : id \in DOMAIN M}
           f == [id \in DOMAIN M |-> M[id]]
<1>1. IsFiniteSet(values)
  <2>1. f \in Surjection(DOMAIN M, values)
    BY DEF Surjection
  <2> QED
    BY <2>1, FS_Surjection
<1>2. PICK info \in Seq(values) : info = SetToSeq(values) /\ Range(info) = values
  BY <1>1, SetToSeqValue
<1>a. \A x : x \in values <=> \E id \in DOMAIN M : x = M[id]
  OBVIOUS
<1> HIDE DEF f, values
<1>b. \A k \in 1 .. Len(info) : info[k] \in values
  BY <1>2
<1>3. {c.id : c \in {c \in Range(info) : IsValid(c)}} = DOMAIN M
  <2>1. \A c : c \in Range(info) <=> \E id \in DOMAIN M : c = M[id]
    BY <1>2, <1>a
  <2>2. ASSUME NEW x
        PROVE  x \in {c.id : c \in {c \in Range(info) : IsValid(c)}} <=> x \in DOMAIN M
    <3>1. x \in {c.id : c \in {c \in Range(info) : IsValid(c)}}
            <=> \E c \in Range(info) : IsValid(c) /\ x = c.id
      OBVIOUS
    <3>2. \A c \in Range(info) : c.id \in DOMAIN M /\ IsValid(c)
      BY <2>1
    <3>3. x \in DOMAIN M => M[x] \in Range(info) /\ IsValid(M[x]) /\ M[x].id = x
      BY <2>1
    <3> QED
      BY <3>1, <3>2, <3>3
  <2> QED
    BY <2>2
<1>4. ASSUME NEW id \in DOMAIN M
      PROVE  PortConfig(info[FirstConfig(info, id)]) = M[id]
  <2>1. PICK k \in 1 .. Len(info) : info[k] = M[id]
    <3>1. M[id] \in Range(info)
      BY <1>2, <1>a
    <3> QED
      BY <3>1, RangeValue
  <2>2. PICK m \in 1 .. Len(info) : m = FirstConfig(info, id) /\ info[m].id = id
    BY <2>1, FirstConfigValue
  <2>3. info[m] \in values
    BY <1>b
  <2> QED
    BY <1>a, <2>2, <2>3
<1>5. ConfigMap(info) = [id \in DOMAIN M |-> M[id]]
  BY <1>3, <1>4 DEF ConfigMap
<1> QED
  BY <1>2, <1>5 DEF values

LEMMA FirstPieceValue ==
  ASSUME NEW T, NEW pieces \in Seq(T), NEW known, NEW port,
         NEW k \in 1 .. Len(pieces), pieces[k].config \in known, port \in pieces[k].ports
  PROVE  /\ FirstPiece(pieces, known, port) \in 1 .. Len(pieces)
         /\ pieces[FirstPiece(pieces, known, port)].config \in known
         /\ port \in pieces[FirstPiece(pieces, known, port)].ports
<1> DEFINE I == {i \in 1 .. Len(pieces) : pieces[i].config \in known /\ port \in pieces[i].ports}
<1>1. I # {} /\ I \subseteq Nat
  OBVIOUS
<1>2. Min(I) \in I
  <2> HIDE DEF I
  <2> QED
    BY <1>1, MinValue
<1>3. FirstPiece(pieces, known, port) = Min(I)
  BY <1>1 DEF FirstPiece, SelectInSeq
<1> QED
  BY <1>2, <1>3

LEMMA PortMapValue ==
  ASSUME NEW M, \A id \in DOMAIN M : M[id].id = id,
         NEW T, NEW pieces \in Seq(T), NEW P, P = PortMap(M, pieces)
  PROVE  /\ P = [p \in DOMAIN P |-> P[p]]
         /\ \A p : p \in DOMAIN P <=>
              \E k \in 1 .. Len(pieces) : pieces[k].config \in DOMAIN M /\ p \in pieces[k].ports
         /\ \A p \in DOMAIN P : P[p] = M[pieces[FirstPiece(pieces, DOMAIN M, p)].config]
         /\ \A p \in DOMAIN P : P[p].id \in DOMAIN M /\ P[p] = M[P[p].id]
<1>1. /\ DOMAIN P = UNION {g.ports : g \in {g \in Range(pieces) : g.config \in DOMAIN M}}
      /\ \A p \in DOMAIN P : P[p] = M[pieces[FirstPiece(pieces, DOMAIN M, p)].config]
      /\ P = [p \in DOMAIN P |-> P[p]]
  BY DEF PortMap
<1>2. \A p : p \in DOMAIN P <=>
        \E k \in 1 .. Len(pieces) : pieces[k].config \in DOMAIN M /\ p \in pieces[k].ports
  BY <1>1, RangeValue
<1>3. ASSUME NEW p \in DOMAIN P
      PROVE  P[p].id \in DOMAIN M /\ P[p] = M[P[p].id]
  <2>1. pieces[FirstPiece(pieces, DOMAIN M, p)].config \in DOMAIN M
    BY <1>2, FirstPieceValue
  <2> QED
    BY <1>1, <2>1
<1> QED
  BY <1>1, <1>2, <1>3

\* What is sent of ports P numbered num, and what it is taken for.
SentPorts(P, num) == SetToSeq({[port |-> p, config |-> P[p].id, devPort |-> num[p]] : p \in DOMAIN P})
FetchedPieces(info) == [i \in 1 .. Len(info) |-> [config |-> info[i].config, ports |-> {info[i].port}]]
FetchedNumber(info, p) == info[SelectInSeq(info, LAMBDA i : i.port = p)].devPort

(* The ports come back, each with its number.                              *)
LEMMA PortsComeBack ==
  ASSUME NEW M, \A id \in DOMAIN M : M[id].id = id,
         NEW P, P = [p \in DOMAIN P |-> P[p]], IsFiniteSet(DOMAIN P),
         \A p \in DOMAIN P : P[p].id \in DOMAIN M /\ P[p] = M[P[p].id],
         NEW num, NEW info, info = SentPorts(P, num)
  PROVE  /\ PortMap(M, FetchedPieces(info)) = P
         /\ \A p \in DOMAIN P : FetchedNumber(info, p) = num[p]
<1> DEFINE Info(p) == [port |-> p, config |-> P[p].id, devPort |-> num[p]]
           all == {Info(p) : p \in DOMAIN P}
           f == [p \in DOMAIN P |-> Info(p)]
           piece(i) == [config |-> info[i].config, ports |-> {info[i].port}]
           pieces == [i \in 1 .. Len(info) |-> piece(i)]
<1>1. IsFiniteSet(all)
  <2>1. f \in Surjection(DOMAIN P, all)
    BY DEF Surjection
  <2> QED
    BY <2>1, FS_Surjection
<1>a. \A x : x \in all <=> \E p \in DOMAIN P : x = Info(p)
  OBVIOUS
<1>b. \A p : Info(p).port = p /\ Info(p).config = P[p].id /\ Info(p).devPort = num[p]
  OBVIOUS
<1>c. info = SetToSeq(all)
  BY DEF SentPorts
<1> HIDE DEF all, f, Info
<1>2. info \in Seq(all) /\ Range(info) = all /\ Len(info) \in Nat
  BY <1>1, <1>c, SetToSeqValue
<1>3. \A i \in 1 .. Len(info) : info[i].port \in DOMAIN P /\ info[i] = Info(info[i].port)
  <2>1. ASSUME NEW i \in 1 .. Len(info)
        PROVE  info[i].port \in DOMAIN P /\ info[i] = Info(info[i].port)
    <3>1. info[i] \in all
      BY <1>2
    <3>2. PICK p \in DOMAIN P : info[i] = Info(p)
      BY <1>a, <3>1
    <3> QED
      BY <1>b, <3>2
  <2> QED
    BY <2>1
<1>4. \A p \in DOMAIN P : \E i \in 1 .. Len(info) : info[i] = Info(p)
  <2>1. ASSUME NEW p \in DOMAIN P
        PROVE  \E i \in 1 .. Len(info) : info[i] = Info(p)
    <3>1. PICK x : x = Info(p)
      OBVIOUS
    <3>2. x \in all
      BY <1>a, <3>1
    <3>3. \E i \in 1 .. Len(SetToSeq(all)) : SetToSeq(all)[i] = x
      BY <1>1, <3>2, PlaceInSetToSeq
    <3> QED
      BY <1>c, <3>1, <3>3
  <2> QED
    BY <2>1
<1>5. /\ pieces \in Seq({piece(i) : i \in 1 .. Len(info)}) /\ Len(pieces) = Len(info)
      /\ \A i \in 1 .. Len(info) : /\ pieces[i].config = P[info[i].port].id
                                   /\ pieces[i].ports = {info[i].port}
  <2>1. \A i \in 1 .. Len(info) : piece(i) \in {piece(k) : k \in 1 .. Len(info)}
    OBVIOUS
  <2>2. \A i \in 1 .. Len(info) : /\ piece(i).config = P[info[i].port].id
                                   /\ piece(i).ports = {info[i].port}
    BY <1>3, <1>b
  <2> HIDE DEF piece
  <2>3. /\ pieces \in Seq({piece(i) : i \in 1 .. Len(info)}) /\ Len(pieces) = Len(info)
        /\ \A i \in 1 .. Len(info) : pieces[i] = piece(i)
    BY <1>2, <2>1
  <2> QED
    BY <2>2, <2>3
<1>d. pieces = FetchedPieces(info)
  BY DEF FetchedPieces
<1> HIDE DEF pieces, piece
<1>6. PICK Q : Q = PortMap(M, pieces)
  OBVIOUS
<1> DEFINE U == {piece(i) : i \in 1 .. Len(info)}
<1>e. pieces \in Seq(U)
  BY <1>5
<1> HIDE DEF U
<1>7. /\ Q = [p \in DOMAIN Q |-> Q[p]]
      /\ \A p : p \in DOMAIN Q <=>
           \E k \in 1 .. Len(pieces) : pieces[k].config \in DOMAIN M /\ p \in pieces[k].ports
      /\ \A p \in DOMAIN Q : Q[p] = M[pieces[FirstPiece(pieces, DOMAIN M, p)].config]
  BY <1>e, <1>6, PortMapValue
<1>8. \A p : p \in DOMAIN Q <=> p \in DOMAIN P
  <2>1. ASSUME NEW p \in DOMAIN Q
        PROVE  p \in DOMAIN P
    <3>1. PICK k \in 1 .. Len(pieces) : p \in pieces[k].ports
      BY <1>7, <2>1
    <3>2. k \in 1 .. Len(info) /\ pieces[k].ports = {info[k].port}
      BY <1>5
    <3> QED
      BY <1>3, <3>1, <3>2
  <2>2. ASSUME NEW p \in DOMAIN P
        PROVE  p \in DOMAIN Q
    <3>1. PICK i \in 1 .. Len(info) : info[i] = Info(p)
      BY <1>4
    <3>2. pieces[i].config \in DOMAIN M /\ p \in pieces[i].ports
      <4>1. pieces[i].config = P[info[i].port].id /\ pieces[i].ports = {info[i].port}
        BY <1>5
      <4>2. info[i].port = p
        BY <1>b, <3>1
      <4> QED
        BY <4>1, <4>2
    <3> QED
      BY <1>5, <1>7, <3>2
  <2> QED
    BY <2>1, <2>2
<1>9. ASSUME NEW p \in DOMAIN P
      PROVE  Q[p] = P[p]
  <2>1. PICK k \in 1 .. Len(pieces) : pieces[k].config \in DOMAIN M /\ p \in pieces[k].ports
    BY <1>7, <1>8
  <2>2. PICK m \in 1 .. Len(pieces) : m = FirstPiece(pieces, DOMAIN M, p) /\ p \in pieces[m].ports
    BY <1>e, <2>1, FirstPieceValue
  <2>3. pieces[m].config = P[p].id
    <3>1. m \in 1 .. Len(info)
      BY <1>5
    <3>2. pieces[m].config = P[info[m].port].id /\ pieces[m].ports = {info[m].port}
      BY <1>5, <3>1
    <3> QED
      BY <2>2, <3>2
  <2> QED
    BY <1>7, <1>8, <2>2, <2>3
<1>10. Q = P
  BY <1>7, <1>8, <1>9
<1>11. ASSUME NEW p \in DOMAIN P
       PROVE  FetchedNumber(info, p) = num[p]
  <2> DEFINE I == {i \in 1 .. Len(info) : info[i].port = p}
  <2>1. I # {} /\ I \subseteq Nat
    BY <1>4, <1>b
  <2>2. Min(I) \in I
    <3> HIDE DEF I
    <3> QED
      BY <2>1, MinValue
  <2>3. SelectInSeq(info, LAMBDA i : i.port = p) = Min(I)
    BY <2>1 DEF SelectInSeq
  <2>4. info[Min(I)] = Info(p)
    BY <1>3, <2>2
  <2>5. FetchedNumber(info, p) = info[Min(I)].devPort
    BY <2>3 DEF FetchedNumber
  <2> QED
    BY <1>b, <2>4, <2>5
<1> QED
  BY <1>6, <1>10, <1>11, <1>d

LEMMA ExpandFinite ==
  ASSUME NEW spec
  PROVE  IsFiniteSet(Expand(spec))
<1>1. IsFiniteSet(Lanes)
  <2>1. IsFiniteSet({"0"})
    BY FS_Singleton
  <2>2. IsFiniteSet({"0"} \cup {"1"})
    BY <2>1, FS_AddElement
  <2>3. IsFiniteSet(({"0"} \cup {"1"}) \cup {"2"})
    BY <2>2, FS_AddElement
  <2>4. IsFiniteSet((({"0"} \cup {"1"}) \cup {"2"}) \cup {"3"})
    BY <2>3, FS_AddElement
  <2>5. Lanes = (({"0"} \cup {"1"}) \cup {"2"}) \cup {"3"}
    BY DEF Lanes
  <2> QED
    BY <2>4, <2>5
<1> DEFINE f == [n \in Lanes |-> <<spec.cage, n>>]
           all == {<<spec.cage, n>> : n \in Lanes}
<1>2. f \in Surjection(Lanes, all)
  BY DEF Surjection
<1>3. IsFiniteSet(all)
  BY <1>1, <1>2, FS_Surjection
<1> HIDE DEF f
<1>4. IsFiniteSet({<<spec.cage, spec.lane>>}) /\ IsFiniteSet({})
  BY FS_Singleton, FS_EmptySet
<1>5. Expand(spec) \in {all, {<<spec.cage, spec.lane>>}, {}}
  <2> HIDE DEF all
  <2>1. Expand(spec) = IF spec.lane = AllLanes THEN all
                       ELSE IF spec.lane \in Lanes THEN {<<spec.cage, spec.lane>>} ELSE {}
    BY DEF Expand, all
  <2> QED
    BY <2>1
<1> HIDE DEF all
<1> QED
  BY <1>3, <1>4, <1>5

LEMMA PieceFinite ==
  ASSUME NEW a, NEW k \in 1 .. Len(Conf.groups)
  PROVE  IsFiniteSet(Pieces(Conf.groups, a)[k].ports)
<1> DEFINE specs == SpecsFor(Conf.groups[k], a)
           sets == {Expand(spec) : spec \in specs}
           f == [spec \in specs |-> Expand(spec)]
<1>1. Pieces(Conf.groups, a)[k].ports = UNION sets
  BY DEF Pieces
<1>2. IsFiniteSet(specs)
  <2>1. Conf.groups[k] \in Range(Conf.groups)
    BY ConfAssumption, RangeValue DEF IsConfiguration
  <2> QED
    BY <2>1, ConfAssumption, FS_EmptySet DEF IsConfiguration, SpecsFor
<1>3. f \in Surjection(specs, sets)
  BY DEF Surjection
<1> HIDE DEF specs, f
<1>4. \A T \in sets : IsFiniteSet(T)
  BY ExpandFinite
<1> HIDE DEF sets
<1>5. IsFiniteSet(sets)
  BY <1>2, <1>3, FS_Surjection
<1> QED
  BY <1>1, <1>4, <1>5, FS_UNION

LEMMA RegistryValue ==
  ASSUME NEW a \in AsicIDs, NEW M, M = ConfigMap(Conf.configs), NEW P, P = Registry[a].ports
  PROVE  /\ Registry[a].configs = M
         /\ P = [p \in DOMAIN P |-> P[p]]
         /\ \A p \in DOMAIN P : P[p].id \in DOMAIN M /\ P[p] = M[P[p].id]
         /\ IsFiniteSet(DOMAIN P)
<1>1. PICK pieces : pieces = Pieces(Conf.groups, a)
  OBVIOUS
<1>2. /\ Registry[a].configs = M /\ P = PortMap(M, pieces)
  <2>1. Registry[a] = [configs |-> M, ports |-> PortMap(M, pieces)]
    BY <1>1 DEF AsicIDs, Registry, NewAsicRegistry
  <2> QED
    BY <2>1
<1> DEFINE n == Len(Conf.groups)
           U == {pieces[k] : k \in 1 .. n}
           sets == {pieces[k].ports : k \in 1 .. n}
           f == [k \in 1 .. n |-> pieces[k].ports]
<1>3. n \in Nat
  BY ConfAssumption DEF IsConfiguration
<1>4. pieces \in Seq(U) /\ Len(pieces) = n
  <2>1. pieces = [k \in 1 .. n |-> pieces[k]]
    BY <1>1 DEF Pieces
  <2>2. \A k \in 1 .. n : pieces[k] \in U
    OBVIOUS
  <2> HIDE DEF U, n
  <2> QED
    BY <1>3, <2>1, <2>2
<1>5. \A id \in DOMAIN M : M[id].id = id
  <2>1. PICK T : Conf.configs \in Seq(T)
    BY ConfAssumption DEF IsConfiguration
  <2> QED
    BY <2>1, ConfigMapValue
<1> HIDE DEF U, n
<1>6. /\ P = [p \in DOMAIN P |-> P[p]]
      /\ \A p \in DOMAIN P : P[p].id \in DOMAIN M /\ P[p] = M[P[p].id]
      /\ \A p : p \in DOMAIN P <=>
           \E k \in 1 .. Len(pieces) : pieces[k].config \in DOMAIN M /\ p \in pieces[k].ports
  BY <1>2, <1>4, <1>5, PortMapValue
<1>7. IsFiniteSet(UNION sets)
  <2>1. \A T \in sets : IsFiniteSet(T)
    BY <1>1, PieceFinite DEF n
  <2>2. f \in Surjection(1 .. n, sets)
    BY DEF Surjection
  <2>3. IsFiniteSet(1 .. n)
    BY <1>3, FS_Interval
  <2> HIDE DEF f, sets
  <2>4. IsFiniteSet(sets)
    BY <2>2, <2>3, FS_Surjection
  <2> QED
    BY <2>1, <2>4, FS_UNION
<1>8. DOMAIN P \subseteq UNION sets
  BY <1>4, <1>6
<1>9. IsFiniteSet(DOMAIN P)
  <2> HIDE DEF sets
  <2> QED
    BY <1>7, <1>8, FS_Subset
<1> QED
  BY <1>2, <1>6, <1>9

(* What a controller fetches are all configs, all ports, and the numbers   *)
(* they have at that time.                                                 *)
LEMMA RegistryComesBack ==
  ASSUME NEW num, NEW R, R = NewAsicRegistryFromInfo(EncodedTopology(Registry, num)),
         NEW a \in AsicIDs
  PROVE  /\ R[a].configs = Registry[a].configs
         /\ R[a].ports = Registry[a].ports
         /\ \A p \in DOMAIN Registry[a].ports : R[a].devPort[p] = num[a][p]
<1>a. PICK M : M = ConfigMap(Conf.configs)
  OBVIOUS
<1>b. PICK P : P = Registry[a].ports
  OBVIOUS
<1>c. PICK numOf : numOf = num[a]
  OBVIOUS
<1>d. PICK info : info = SentPorts(P, numOf)
  OBVIOUS
<1>1. M = ConfigMap(Conf.configs) /\ P = Registry[a].ports /\ numOf = num[a]
  BY <1>a, <1>b, <1>c
<1>2. /\ Registry[a].configs = M
      /\ P = [p \in DOMAIN P |-> P[p]] /\ IsFiniteSet(DOMAIN P)
      /\ \A p \in DOMAIN P : P[p].id \in DOMAIN M /\ P[p] = M[P[p].id]
  BY <1>a, <1>b, RegistryValue
<1>3. /\ M = [id \in DOMAIN M |-> M[id]] /\ IsFiniteSet(DOMAIN M)
      /\ \A id \in DOMAIN M : M[id].id = id /\ PortConfig(M[id]) = M[id] /\ IsValid(M[id])
  <2>1. PICK T : Conf.configs \in Seq(T)
    BY ConfAssumption DEF IsConfiguration
  <2> QED
    BY <1>1, <2>1, ConfigMapValue
<1>4. ConfigMap(EncodeToPortConfigInfo(Registry)) = M
  <2>1. Registry # <<>>
    BY DEF AsicIDs
  <2>2. PICK b \in AsicIDs : b = CHOOSE c \in DOMAIN Registry : TRUE
    BY DEF AsicIDs
  <2>3. Registry[b].configs = M
    BY <1>1, RegistryValue
  <2>4. EncodeToPortConfigInfo(Registry) = SetToSeq({M[id] : id \in DOMAIN M})
    BY <2>1, <2>2, <2>3 DEF EncodeToPortConfigInfo, PortConfigInfo
  <2> QED
    BY <1>3, <2>4, ConfigsComeBack
<1>5. EncodeToAsicInfo(Registry, num)[a] = info
  BY <1>1, <1>d DEF EncodeToAsicInfo, PortInfo, AsicIDs, SentPorts
<1>6. /\ R[a].configs = M
      /\ R[a].ports = PortMap(M, FetchedPieces(info))
      /\ \A p \in DOMAIN R[a].ports : R[a].devPort[p] = FetchedNumber(info, p)
  <2>1. PICK enc : enc = EncodedTopology(Registry, num)
    OBVIOUS
  <2>2. a \in DOMAIN enc.asics /\ enc.asics[a] = info /\ ConfigMap(enc.configs) = M
    BY <1>4, <1>5, <2>1 DEF EncodedTopology, EncodeToAsicInfo, AsicIDs
  <2>3. R[a] = [configs |-> M,
                ports   |-> PortMap(M, FetchedPieces(info)),
                devPort |-> [p \in DOMAIN PortMap(M, FetchedPieces(info)) |->
                               FetchedNumber(info, p)]]
    BY <2>1, <2>2 DEF NewAsicRegistryFromInfo, FetchedPieces, FetchedNumber
  <2> QED
    BY <2>3
<1>7. /\ PortMap(M, FetchedPieces(info)) = P
      /\ \A p \in DOMAIN P : FetchedNumber(info, p) = numOf[p]
  BY <1>2, <1>3, <1>d, PortsComeBack
<1> QED
  BY <1>1, <1>2, <1>6, <1>7

(* What GetTopology sends of the ports is what a controller builds its own  *)
(* registry from: the same configs and ports at each ASIC, and, once        *)
(* InitPorts has run, the numbers of the drivers.                           *)
THEOREM FetchedPortsAreAlwaysReal == PortSpec => FetchedPortsAreReal
<1>1. ASSUME PortIInv, [PortNext]_allVars, NEW f \in Fetchers, fetched'[f] # fetched[f],
             NEW a \in AsicIDs
      PROVE  /\ fetched'[f][a].configs = Registry[a].configs
             /\ fetched'[f][a].ports = Registry[a].ports
             /\ BusRuns /\ (\E i \in 1 .. Len(Conf.asics) : HasDriver(i)) =>
                  \A p \in DOMAIN Registry[a].ports : fetched'[f][a].devPort[p] = DevPort[a][p]
  <2>1. PICK g \in Fetchers : Fetch(g)
    <3>1. CASE UNCHANGED allVars
      BY <1>1, <3>1 DEF allVars, portVars
    <3>2. CASE Run
      BY <1>1, <3>2 DEF Run, NextCP, BringPortUp, TakePortDown, InitPort
    <3>3. CASE CallVC
      BY <1>1, <3>3 DEF CallVC, portVars
    <3>4. ASSUME NEW l \in Leaves, CallFailLeaf(l)
          PROVE  FALSE
      BY <1>1, <3>4 DEF CallFailLeaf, Disable
    <3>5. ASSUME NEW l \in Leaves, NEW sp \in Spines, CallAddLeaf(l, sp)
          PROVE  FALSE
      BY <1>1, <3>5 DEF CallAddLeaf, Enable, Fatal
    <3>6. ASSUME NEW s \in Servers, CallFailServer(s)
          PROVE  FALSE
      BY <1>1, <3>6 DEF CallFailServer, Disable
    <3>7. ASSUME NEW s \in Servers, NEW l \in Leaves, CallAddServer(s, l)
          PROVE  FALSE
      BY <1>1, <3>7 DEF CallAddServer, Enable, Fatal
    <3> QED
      BY <1>1, <3>1, <3>2, <3>3, <3>4, <3>5, <3>6, <3>7 DEF PortNext
  <2>2. DOMAIN fetched = Fetchers
    BY <1>1 DEF PortIInv, PortTables
  <2>3. PICK R : /\ R = NewAsicRegistryFromInfo(EncodedTopology(Registry, devPort))
                 /\ fetched' = [fetched EXCEPT ![g] = R]
    BY <2>1 DEF Fetch
  <2>4. fetched'[f] = R
    BY <1>1, <2>2, <2>3
  <2>5. /\ R[a].configs = Registry[a].configs
        /\ R[a].ports = Registry[a].ports
        /\ \A p \in DOMAIN Registry[a].ports : R[a].devPort[p] = devPort[a][p]
    <3>1. PICK num : num = devPort
      OBVIOUS
    <3> QED
      BY <2>3, <3>1, RegistryComesBack
  <2>6. ASSUME BusRuns, NEW i \in 1 .. Len(Conf.asics), HasDriver(i),
               NEW p \in DOMAIN Registry[a].ports
        PROVE  devPort[a][p] = DevPort[a][p]
    <3>1. <<a, p>> \in Known
      BY KnownValue
    <3>2. i <= cp /\ todo = {}
      BY <1>1, <2>6, ConfTypes DEF PortIInv, PortTypes, InitDone, BusRuns
    <3>3. Number(<<a, p>>) = DevPort[a][p]
      BY <1>1, <2>6, <3>1, <3>2 DEF PortIInv, InitDone
    <3> QED
      BY <3>3 DEF Number
  <2> QED
    BY <2>4, <2>5, <2>6
<1>2. PortIInv /\ [PortNext]_allVars =>
        [\A f \in Fetchers : fetched'[f] # fetched[f] =>
           \A a \in AsicIDs :
             /\ fetched'[f][a].configs = Registry[a].configs
             /\ fetched'[f][a].ports = Registry[a].ports
             /\ BusRuns /\ (\E i \in 1 .. Len(Conf.asics) : HasDriver(i)) =>
                  \A p \in DOMAIN Registry[a].ports : fetched'[f][a].devPort[p] = DevPort[a][p]]_allVars
  BY <1>1
<1> QED
  BY <1>2, PortInvariant, PTL DEF PortSpec, FetchedPortsAreReal

=============================================================================
