------------------------- MODULE CentralCallsProofs -------------------------
(***************************************************************************)
(* What overlapping calls do to the tree, for any numbers of goroutines,   *)
(* nodes and calls: the inductive invariant IInv of CentralCalls says in   *)
(* which way each list, number and index may be unfinished, and for whom.  *)
(* VCInv, below, adds what they do to the virtual clusters.                *)
(***************************************************************************)
EXTENDS CentralCalls, SequenceLemmas, FiniteSetTheorems

-----------------------------------------------------------------------------
(* The invariant.                                                          *)

TreeOps == {"AddLeaf", "AddServer", "FailLeaf", "FailServer"}

\* the places of each kind of call
Stages ==
  {<<"AddLeaf", "appendLeaf">>, <<"AddLeaf", "storeLeaf">>,
   <<"AddServer", "appendServer">>, <<"AddServer", "numberServer">>,
   <<"FailServer", "listVCs">>, <<"FailServer", "scan">>, <<"FailServer", "drop">>,
   <<"FailServer", "shed">>, <<"FailServer", "lookUp">>, <<"FailServer", "lock">>,
   <<"FailServer", "last">>, <<"FailServer", "slice">>,
   <<"FailLeaf", "listVCs">>, <<"FailLeaf", "detachLeaf">>, <<"FailLeaf", "dropLeaf">>,
   <<"FailLeaf", "drain">>, <<"FailLeaf", "first">>, <<"FailLeaf", "lookUp">>,
   <<"FailLeaf", "lock">>, <<"FailLeaf", "last">>, <<"FailLeaf", "slice">>,
   <<"FailLeaf", "lockLeaf">>, <<"FailLeaf", "cutLeaf">>,
   <<"AddVC", "storeVC">>, <<"AddVC", "listVC">>,
   <<"RemoveVC", "deleteVC">>, <<"RemoveVC", "unlistVC">>}

Removing == {"lookUp", "lock", "last", "slice"}

\* where a caller is in its call, and what it has read so far
CallerOK(c) ==
  /\ (call[c] = None) <=> (pc[c] = "idle")
  /\ call[c] # None => <<K(c).op, pc[c]>> \in Stages
  /\ pc[c] \in {"scan", "drop", "shed", "detachLeaf", "dropLeaf"} => loc[c].i > 0
  /\ pc[c] \in {"drop", "shed", "dropLeaf"} => loc[c].vc \in VCIds
  /\ pc[c] \in Removing => loc[c].victim \in Servers

\* what a call for a leaf or a server relies on
TreeCallOK(c) ==
  /\ K(c).op = "AddLeaf" =>
       /\ K(c).leaf \notin leaves
       /\ pc[c] = "appendLeaf" => K(c).leaf \notin Range(spineLeaves)
  /\ K(c).op = "AddServer" =>
       /\ K(c).leaf \in leaves
       /\ parent[K(c).server] = None
  /\ K(c).op = "FailServer" =>
       /\ parent[K(c).server] = K(c).leaf
       /\ pc[c] \in Removing => loc[c].victim = K(c).server
  /\ K(c).op = "FailLeaf" =>
       /\ K(c).leaf \in leaves
       /\ pc[c] = "first" => nodes[K(c).leaf] # <<>>
       /\ pc[c] \in Removing => parent[loc[c].victim] = K(c).leaf
       /\ pc[c] \in {"lockLeaf", "cutLeaf"} => nodes[K(c).leaf] = <<>>

\* calls that are in no race about the tree
Apart(c, d) ==
  call[c] # None /\ call[d] # None =>
    /\ ~AddTwice(K(c), K(d)) /\ ~FailTwice(K(c), K(d))
    /\ ~OneLeaf(K(c), K(d), {"FailLeaf", "FailServer"})
    /\ ~OneLeaf(K(c), K(d), {"AddServer", "FailServer"})
    /\ ~OneLeaf(K(c), K(d), {"AddServer", "FailLeaf"})
    /\ Ops(K(c), K(d)) # {"AddLeaf", "FailLeaf"}

LocksOK ==
  \A c \in Callers :
    /\ topoLock = c <=> pc[c] \in {"last", "slice", "cutLeaf"}
    /\ \A l \in Leaves : leafLock[l] = c <=> pc[c] = "numberServer" /\ K(c).leaf = l

\* the place in the spine's list that a RemoveLeaf is about to cut out
Cut == IF topoLock # None /\ pc[topoLock] = "cutLeaf" THEN loc[topoLock].at ELSE 0

SpineOK ==
  /\ \A i, j \in 1 .. Len(spineLeaves) : spineLeaves[i] = spineLeaves[j] => i = j
  /\ \A l \in Leaves : l \in Range(spineLeaves) <=>
       l \in leaves \/ (\E c \in Callers : pc[c] = "storeLeaf" /\ K(c).leaf = l)
  /\ Cut # 0 => Cut \in 1 .. Len(spineLeaves) /\ spineLeaves[Cut] = K(topoLock).leaf
  /\ topoLock # None /\ pc[topoLock] = "cutLeaf" => Cut # 0
  /\ \A i \in 1 .. Len(spineLeaves) :
       index[spineLeaves[i]] = IF Cut # 0 /\ i > Cut THEN i - 2 ELSE i - 1

\* the servers of a leaf, with the one that has no worker IDs yet
ServersOK(l) ==
  /\ l \notin leaves => nodes[l] = <<>>
  /\ \A i, j \in 1 .. Len(nodes[l]) : nodes[l][i].id = nodes[l][j].id => i = j
  /\ \A s \in Servers :
       s \in IdsOf(nodes[l]) <=>
         parent[s] = l \/ (leafLock[l] # None /\ K(leafLock[l]).server = s)
  /\ leafLock[l] # None => /\ nodes[l] # <<>>
                           /\ nodes[l][Len(nodes[l])].id = K(leafLock[l]).server

\* a RemoveServer has numbered the rest of the leaf's servers
IsRenumbered(l) == topoLock # None /\ pc[topoLock] \in {"last", "slice"} /\ K(topoLock).leaf = l

Gap(l) == IF IsRenumbered(l) THEN loc[topoLock].at ELSE 0
Count(l) == IF leafLock[l] = None THEN Len(nodes[l]) ELSE Len(nodes[l]) - 1

FirstID(i) == (i - 1) * Workers
EndOf(n) == IF n = 0 THEN 0 ELSE FirstID(n + 1) - 1
HasWorkers(node, i) == node.first = FirstID(i) /\ node.last = FirstID(i + 1) - 1

\* the first n servers, but that at the gap, have the IDs of their place
Canonical(list, n, gap) ==
  \A i \in 1 .. n : i # gap => HasWorkers(list[i], IF gap # 0 /\ i > gap THEN i - 1 ELSE i)

NumbersOK(l) ==
  /\ IsRenumbered(l) =>
       /\ loc[topoLock].at \in 1 .. Len(nodes[l])
       /\ nodes[l][loc[topoLock].at].id = loc[topoLock].victim
       /\ loc[topoLock].total = FirstID(Len(nodes[l]))
  /\ l \in leaves => Canonical(nodes[l], Count(l), Gap(l))
  /\ l \in leaves => leafLast[l] = EndOf(IF IsRenumbered(l) /\ pc[topoLock] = "slice"
                                         THEN Len(nodes[l]) - 1 ELSE Count(l))

IInv ==
  /\ up
  /\ TypeOK
  /\ LocksOK
  /\ SpineOK
  /\ \A l \in Leaves : ServersOK(l) /\ NumbersOK(l)
  /\ \A c \in Callers : CallerOK(c) /\ (call[c] # None => TreeCallOK(c))
  /\ \A c, d \in Callers : c # d => Apart(c, d)

-----------------------------------------------------------------------------
(* What a caller's place tells about its call.                             *)

LEMMA CallFields ==
  ASSUME NEW k \in Call
  PROVE  /\ k.op \in TreeOps \cup {"AddVC", "RemoveVC"}
         /\ k.op \in TreeOps => k.leaf \in Leaves
         /\ k.op \in {"AddServer", "FailServer"} => k.server \in Servers
         /\ k.op \in {"AddVC", "RemoveVC"} => k.vc \in VCIds
         /\ k.op = "AddVC" => k.servers \subseteq Servers /\ k.leaves \subseteq Leaves
BY SMTT(30) DEF Call, TreeOps

LEMMA InCall ==
  ASSUME IInv, NEW c \in Callers, pc[c] # "idle"
  PROVE  /\ call[c] # None /\ call[c] \in Served /\ K(c) \in Call
         /\ <<K(c).op, pc[c]>> \in Stages
         /\ CallerOK(c) /\ TreeCallOK(c)
<1>1. CallerOK(c) /\ call[c] \in Served \cup {None}
  BY DEF IInv, TypeOK
<1>2. call[c] # None /\ call[c] \in Served
  BY <1>1 DEF CallerOK
<1>3. call[c].of \in Call
  BY <1>2 DEF Served
<1>4. TreeCallOK(c)
  BY <1>2 DEF IInv
<1> QED
  BY <1>1, <1>2, <1>3, <1>4 DEF CallerOK, K

LEMMA OpAt ==
  ASSUME IInv, NEW c \in Callers
  PROVE  /\ pc[c] \in {"appendLeaf", "storeLeaf"} => K(c).op = "AddLeaf"
         /\ pc[c] \in {"appendServer", "numberServer"} => K(c).op = "AddServer"
         /\ pc[c] \in {"scan", "drop", "shed"} => K(c).op = "FailServer"
         /\ pc[c] \in {"detachLeaf", "dropLeaf", "drain", "first", "lockLeaf", "cutLeaf"}
              => K(c).op = "FailLeaf"
         /\ pc[c] \in Removing \cup {"listVCs"} => K(c).op \in {"FailServer", "FailLeaf"}
         /\ pc[c] \in {"storeVC", "listVC"} => K(c).op = "AddVC"
         /\ pc[c] \in {"deleteVC", "unlistVC"} => K(c).op = "RemoveVC"
<1>1. pc[c] # "idle" => <<K(c).op, pc[c]>> \in Stages
  BY InCall
<1> QED
  BY <1>1 DEF Stages, Removing

-----------------------------------------------------------------------------
(* What a step of c leaves alone.                                          *)

\* nothing happens to caller d, but that its slice may change
Rests(d) ==
  /\ call'[d] = call[d] /\ pc'[d] = pc[d]
  /\ loc'[d].i = loc[d].i /\ loc'[d].vc = loc[d].vc /\ loc'[d].victim = loc[d].victim
  /\ loc'[d].at = loc[d].at /\ loc'[d].total = loc[d].total

LEMMA HoldersOfLocks ==
  ASSUME IInv
  PROVE  /\ topoLock # None => topoLock \in Callers /\ pc[topoLock] \in {"last", "slice", "cutLeaf"}
         /\ \A l \in Leaves : leafLock[l] # None =>
              /\ leafLock[l] \in Callers /\ pc[leafLock[l]] = "numberServer"
              /\ K(leafLock[l]).op = "AddServer" /\ K(leafLock[l]).leaf = l
<1>1. /\ topoLock # None => topoLock \in Callers /\ pc[topoLock] \in {"last", "slice", "cutLeaf"}
      /\ \A l \in Leaves : leafLock[l] # None =>
           /\ leafLock[l] \in Callers /\ pc[leafLock[l]] = "numberServer"
           /\ K(leafLock[l]).leaf = l
  BY DEF IInv, LocksOK, TypeOK
<1> QED
  BY <1>1, OpAt

LEMMA LocksKeep ==
  ASSUME IInv, NEW c \in Callers, UNCHANGED locks,
         pc[c] \notin {"numberServer", "last", "slice", "cutLeaf"},
         pc'[c] \notin {"numberServer", "last", "slice", "cutLeaf"},
         \A d \in Callers \ {c} : Rests(d)
  PROVE  LocksOK'
<1>1. topoLock' = topoLock /\ leafLock' = leafLock
  BY DEF locks
<1>2. ASSUME NEW d \in Callers, d # c
      PROVE  pc'[d] = pc[d] /\ K(d)' = K(d)
  BY <1>2 DEF Rests, K
<1>3. ASSUME NEW d \in Callers
      PROVE  /\ topoLock' = d <=> pc'[d] \in {"last", "slice", "cutLeaf"}
             /\ \A l \in Leaves : leafLock'[l] = d <=> pc'[d] = "numberServer" /\ K(d)'.leaf = l
  <2>1. CASE d = c
    BY <1>1, <2>1 DEF IInv, LocksOK
  <2>2. CASE d # c
    BY <1>1, <1>2, <2>2 DEF IInv, LocksOK
  <2> QED
    BY <2>1, <2>2
<1> QED
  BY <1>3 DEF LocksOK

LEMMA SpineKeeps ==
  ASSUME IInv, NEW c \in Callers, UNCHANGED <<spineLeaves, index, leaves>>,
         topoLock' = topoLock \/ {topoLock, topoLock'} \subseteq {None, c},
         pc[c] \notin {"storeLeaf", "cutLeaf"}, pc'[c] \notin {"storeLeaf", "cutLeaf"},
         \A d \in Callers \ {c} : Rests(d)
  PROVE  SpineOK'
<1>1. ASSUME NEW d \in Callers, d # c
      PROVE  /\ pc'[d] = pc[d] /\ K(d)' = K(d) /\ call'[d].of = call[d].of
             /\ loc'[d].at = loc[d].at
  BY <1>1 DEF Rests, K
<1>2. /\ Cut' = Cut /\ (Cut # 0 => topoLock # None /\ topoLock' = topoLock)
      /\ topoLock # None /\ pc[topoLock] = "cutLeaf" =>
           /\ topoLock' = topoLock /\ K(topoLock)' = K(topoLock) /\ pc'[topoLock] = "cutLeaf"
      /\ topoLock' # None /\ pc'[topoLock'] = "cutLeaf" => topoLock' = topoLock /\ pc[topoLock] = "cutLeaf"
  <2>1. CASE topoLock' = topoLock
    <3>1. CASE topoLock = c \/ topoLock = None
      BY <2>1, <3>1 DEF Cut
    <3>2. CASE topoLock # c /\ topoLock # None
      <4>1. topoLock \in Callers
        BY <3>2, HoldersOfLocks
      <4> QED
        BY <1>1, <2>1, <3>2, <4>1 DEF Cut, K
    <3> QED
      BY <3>1, <3>2
  <2>2. CASE {topoLock, topoLock'} \subseteq {None, c}
    BY <2>2 DEF Cut, K
  <2> QED
    BY <2>1, <2>2
<1>3. \A l \in Leaves : l \in Range(spineLeaves) <=>
         l \in leaves \/ (\E d \in Callers : pc'[d] = "storeLeaf" /\ K(d)'.leaf = l)
  <2>1. /\ \A d \in Callers : pc'[d] = "storeLeaf" <=> pc[d] = "storeLeaf"
        /\ \A d \in Callers : pc[d] = "storeLeaf" => K(d)' = K(d)
    BY <1>1
  <2> QED
    BY <2>1 DEF IInv, SpineOK
<1>4. /\ Cut # 0 => K(topoLock)' = K(topoLock)
      /\ spineLeaves' = spineLeaves /\ index' = index /\ leaves' = leaves
  BY <1>2 DEF Cut
<1> QED
  BY <1>2, <1>3, <1>4 DEF IInv, SpineOK

\* for leaves that c does not work on
LEMMA LeafKeeps ==
  ASSUME IInv, NEW c \in Callers, NEW l \in Leaves,
         nodes'[l] = nodes[l], leafLast'[l] = leafLast[l], leafLock'[l] = leafLock[l],
         l \in leaves' <=> l \in leaves,
         \A s \in Servers : parent'[s] = l <=> parent[s] = l,
         leafLock[l] # c,
         \/ topoLock' = topoLock /\ topoLock # c
         \/ ~IsRenumbered(l) /\ ~IsRenumbered(l)',
         \A d \in Callers \ {c} : Rests(d)
  PROVE  ServersOK(l)' /\ NumbersOK(l)'
<1>1. ServersOK(l) /\ NumbersOK(l)
  BY DEF IInv
<1>2. ASSUME NEW d \in Callers, d # c
      PROVE  /\ pc'[d] = pc[d] /\ K(d)' = K(d) /\ call'[d].of = call[d].of
             /\ loc'[d].at = loc[d].at /\ loc'[d].victim = loc[d].victim /\ loc'[d].total = loc[d].total
  BY <1>2 DEF Rests, K
<1>3. leafLock[l] # None => call'[leafLock[l]].of = call[leafLock[l]].of
  BY <1>2, HoldersOfLocks
<1>4. ServersOK(l)'
  BY <1>1, <1>3 DEF ServersOK, K
<1>5. Count(l)' = Count(l)
  BY DEF Count
<1>6. CASE topoLock' = topoLock /\ topoLock # c
  <2>1. topoLock # None =>
          /\ pc'[topoLock] = pc[topoLock] /\ call'[topoLock].of = call[topoLock].of
          /\ loc'[topoLock].at = loc[topoLock].at
          /\ loc'[topoLock].victim = loc[topoLock].victim
          /\ loc'[topoLock].total = loc[topoLock].total
    BY <1>2, <1>6, HoldersOfLocks
  <2>2. IsRenumbered(l)' <=> IsRenumbered(l)
    BY <1>6, <2>1 DEF IsRenumbered, K
  <2>3. IsRenumbered(l) => topoLock # None
    BY DEF IsRenumbered
  <2>4. Gap(l)' = Gap(l)
    BY <1>6, <2>1, <2>2, <2>3 DEF Gap
  <2> QED
    BY <1>1, <1>4, <1>5, <1>6, <2>1, <2>2, <2>3, <2>4 DEF NumbersOK
<1>7. CASE ~IsRenumbered(l) /\ ~IsRenumbered(l)'
  <2>1. Gap(l)' = Gap(l)
    BY <1>7 DEF Gap
  <2> QED
    BY <1>1, <1>4, <1>5, <1>7, <2>1 DEF NumbersOK
<1> QED
  BY <1>6, <1>7

LEMMA CallsKeepApart ==
  ASSUME IInv, NEW c \in Callers, call'[c] = call[c] \/ call'[c] = None,
         \A d \in Callers \ {c} : Rests(d)
  PROVE  \A d, e \in Callers : d # e => Apart(d, e)'
<1>1. ASSUME NEW d \in Callers
      PROVE  call'[d] = call[d] \/ call'[d] = None
  BY DEF Rests
<1>2. ASSUME NEW d \in Callers, NEW e \in Callers, d # e
      PROVE  Apart(d, e)'
  <2>1. Apart(d, e)
    BY <1>2 DEF IInv
  <2>2. CASE call'[d] = None \/ call'[e] = None
    BY <2>2 DEF Apart
  <2>3. CASE call'[d] = call[d] /\ call'[e] = call[e]
    BY <2>1, <2>3 DEF Apart, K
  <2> QED
    BY <1>1, <2>2, <2>3
<1> QED
  BY <1>2

LEMMA OthersKeep ==
  ASSUME IInv, NEW d \in Callers, Rests(d)
  PROVE  CallerOK(d)' /\ K(d)' = K(d) /\ (call[d] # None => TreeCallOK(d))
BY DEF IInv, CallerOK, Rests, K

(* A step of c that leaves the tree and the locks alone, and does not come *)
(* from or go to a place at which something in them is unfinished.         *)
Unfinished == {"storeLeaf", "numberServer", "last", "slice", "cutLeaf"}

LEMMA NeutralKeeps ==
  ASSUME IInv, NEW c \in Callers,
         TypeOK', UNCHANGED <<up, tree, locks>>,
         pc[c] \notin Unfinished, pc'[c] \notin Unfinished,
         \A d \in Callers \ {c} : Rests(d),
         CallerOK(c)', call'[c] # None => TreeCallOK(c)',
         \A d, e \in Callers : d # e => Apart(d, e)'
  PROVE  IInv'
<1>1. up' = up /\ spineLeaves' = spineLeaves /\ index' = index /\ leaves' = leaves
      /\ nodes' = nodes /\ leafLast' = leafLast /\ parent' = parent
      /\ topoLock' = topoLock /\ leafLock' = leafLock /\ UNCHANGED locks
  BY DEF tree, locks
<1>2. LocksOK'
  BY <1>1, LocksKeep DEF Unfinished
<1>3. SpineOK'
  BY <1>1, SpineKeeps DEF Unfinished
<1>4. /\ topoLock # c
      /\ \A l \in Leaves : leafLock[l] # c
  BY HoldersOfLocks, NoneIsNobody DEF Unfinished
<1>5. ASSUME NEW l \in Leaves
      PROVE  ServersOK(l)' /\ NumbersOK(l)'
  BY <1>1, <1>4, LeafKeeps
<1>6. ASSUME NEW d \in Callers
      PROVE  CallerOK(d)' /\ (call'[d] # None => TreeCallOK(d)')
  <2>1. CASE d = c
    BY <2>1
  <2>2. CASE d # c
    BY <1>1, <2>2, OthersKeep DEF TreeCallOK, Rests, K
  <2> QED
    BY <2>1, <2>2
<1> QED
  BY <1>1, <1>2, <1>3, <1>5, <1>6 DEF IInv

(* Two calls for the tree that are in progress together.                   *)
LEMMA Conflicts ==
  ASSUME IInv, NEW c \in Callers, NEW d \in Callers, c # d,
         call[c] # None, call[d] # None, K(c).op \in TreeOps, K(d).op \in TreeOps
  PROVE  /\ K(c).op \in {"AddLeaf", "FailLeaf"} =>
              K(d).leaf # K(c).leaf /\ {K(c).op, K(d).op} # {"AddLeaf", "FailLeaf"}
         /\ {K(c).op, K(d).op} = {"AddServer", "FailServer"} => K(d).leaf # K(c).leaf
         /\ {K(c).op, K(d).op} \subseteq {"AddServer", "FailServer"} => K(d).server # K(c).server
<1>1. /\ Apart(c, d) /\ Apart(d, c) /\ TreeCallOK(c) /\ TreeCallOK(d)
      /\ call[c] \in Served /\ call[d] \in Served
  BY DEF IInv, TypeOK
<1>2. K(c) \in Call /\ K(d) \in Call
  BY <1>1 DEF Served, K
<1>3. /\ K(c).leaf \in Leaves /\ K(d).leaf \in Leaves
      /\ K(c).op \in {"AddServer", "FailServer"} => K(c).server \in Servers
      /\ K(d).op \in {"AddServer", "FailServer"} => K(d).server \in Servers
  BY <1>2, CallFields
<1>4. /\ ~AddTwice(K(c), K(d)) /\ ~FailTwice(K(c), K(d))
      /\ ~OneLeaf(K(c), K(d), {"FailLeaf", "FailServer"})
      /\ ~OneLeaf(K(c), K(d), {"AddServer", "FailServer"})
      /\ ~OneLeaf(K(c), K(d), {"AddServer", "FailLeaf"})
      /\ Ops(K(c), K(d)) # {"AddLeaf", "FailLeaf"}
  BY <1>1 DEF Apart
<1>5. {K(c).op, K(d).op} # {"AddLeaf", "FailLeaf"}
  BY <1>4 DEF Ops
<1>6. ASSUME K(c).op = "AddServer", K(d).op \in {"FailServer", "FailLeaf"}
      PROVE  K(d).leaf # K(c).leaf
  BY <1>4, <1>6 DEF OneLeaf, Ops
<1>7. ASSUME K(d).op = "AddServer", K(c).op \in {"FailServer", "FailLeaf"}
      PROVE  K(d).leaf # K(c).leaf
  <2>1. {K(c).op, K(d).op} \in {{"AddServer", "FailServer"}, {"AddServer", "FailLeaf"}}
    BY <1>7
  <2> QED
    BY <1>4, <2>1 DEF OneLeaf, Ops
<1>8. ASSUME K(c).op = "FailLeaf", K(d).op \in {"FailServer", "FailLeaf"}
      PROVE  K(d).leaf # K(c).leaf
  <2>1. {K(c).op, K(d).op} \in {{"FailLeaf"}, {"FailLeaf", "FailServer"}}
    BY <1>8
  <2> QED
    BY <1>4, <2>1 DEF OneLeaf, FailTwice, Ops
<1>9. ASSUME K(c).op = "AddLeaf", K(d).op \in {"AddLeaf", "AddServer", "FailServer", "FailLeaf"}
      PROVE  K(d).leaf # K(c).leaf
  <2>1. CASE K(d).op = "AddLeaf"
    BY <1>4, <1>9, <2>1 DEF AddTwice, OneLeaf, Ops
  <2>2. CASE K(d).op \in {"AddServer", "FailLeaf"}
    BY <1>1, <1>9, <2>2 DEF TreeCallOK
  <2>3. CASE K(d).op = "FailServer"
    <3>1. parent[K(d).server] = K(d).leaf
      BY <1>1, <2>3 DEF TreeCallOK
    <3>2. K(d).leaf \in leaves
      BY <1>3, <2>3, <3>1 DEF IInv, ServersOK, IdsOf
    <3> QED
      BY <1>1, <1>9, <3>2 DEF TreeCallOK
  <2> QED
    BY <1>9, <2>1, <2>2, <2>3
<1>10. ASSUME {K(c).op, K(d).op} \subseteq {"AddServer", "FailServer"}
       PROVE  K(d).server # K(c).server
  <2>1. CASE K(c).op = K(d).op
    <3>1. {K(c).op, K(d).op} \in {{"AddServer"}, {"FailServer"}}
      BY <1>10, <2>1
    <3> QED
      BY <1>4, <3>1 DEF AddTwice, FailTwice, OneServer, Ops
  <2>2. CASE K(c).op # K(d).op
    <3>1. {parent[K(c).server], parent[K(d).server]} \in {{None, K(c).leaf}, {None, K(d).leaf}}
      BY <1>1, <1>10, <2>2 DEF TreeCallOK
    <3>2. None \notin Leaves
      BY NoneIsNobody
    <3> QED
      BY <1>3, <1>10, <2>2, <3>1, <3>2
  <2> QED
    BY <2>1, <2>2
<1>11. K(c).op \in {"AddLeaf", "FailLeaf", "AddServer", "FailServer"}
       /\ K(d).op \in {"AddLeaf", "FailLeaf", "AddServer", "FailServer"}
  BY DEF TreeOps
<1> QED
  BY <1>5, <1>6, <1>7, <1>8, <1>9, <1>10, <1>11

-----------------------------------------------------------------------------
(* Adding to the topology.                                                 *)

LEMMA NothingIsCut ==
  ASSUME IInv, NEW c \in Callers, call[c] # None, K(c).op = "AddLeaf"
  PROVE  Cut = 0 /\ \A d \in Callers : pc[d] # "cutLeaf"
<1>1. ASSUME NEW d \in Callers, pc[d] = "cutLeaf" PROVE FALSE
  <2>1. K(d).op = "FailLeaf" /\ call[d] # None /\ d # c
    BY <1>1, OpAt, InCall
  <2> QED
    BY <2>1, Conflicts DEF TreeOps
<1> QED
  BY <1>1, HoldersOfLocks DEF Cut

LEMMA AppendLeafKeeps ==
  ASSUME IInv, NEW c \in Callers, AppendLeaf(c)
  PROVE  IInv'
<1> DEFINE l == K(c).leaf
<1>1. pc[c] = "appendLeaf" /\ up /\ K(c).op = "AddLeaf" /\ l \in Leaves
      /\ call[c] # None /\ TreeCallOK(c)
  BY InCall, OpAt, CallFields DEF AppendLeaf, At, TreeOps
<1>2. /\ l \notin leaves /\ l \notin Range(spineLeaves)
      /\ nodes[l] = <<>>
  BY <1>1 DEF TreeCallOK, IInv, ServersOK
<1>3. /\ nodes \in [Leaves -> Seq(ServerNode)] /\ spineLeaves \in Seq(Leaves) /\ index \in [Leaves -> Nat]
      /\ pc \in [Callers -> Labels]
  BY DEF IInv, TypeOK
<1>4. /\ spineLeaves' = Append(spineLeaves, l)
      /\ index' = [index EXCEPT ![l] = Len(spineLeaves)]
      /\ nodes' = nodes
      /\ pc' = [pc EXCEPT ![c] = "storeLeaf"]
      /\ UNCHANGED <<up, leaves, leafLast, parent, call, calls, loc>>
      /\ UNCHANGED locks /\ topoLock' = topoLock /\ leafLock' = leafLock
      /\ UNCHANGED <<vcs, vcServers, vcLeaves, serverVCs, leafVCs>>
  <2>1. nodes' = [nodes EXCEPT ![l] = <<>>]
    BY DEF AppendLeaf
  <2>2. nodes' = nodes
    BY <1>2, <1>3, <2>1
  <2> QED
    BY <2>2 DEF AppendLeaf, Goto, locks, books
<1>5. pc'[c] = "storeLeaf" /\ \A d \in Callers \ {c} : Rests(d)
  BY <1>3, <1>4 DEF Rests
<1>6. TypeOK'
  BY <1>1, <1>3, <1>4 DEF IInv, TypeOK, Labels
<1>7. LocksOK'
  BY <1>1, <1>4, <1>5, LocksKeep
<1>8. Cut = 0 /\ Cut' = 0
      /\ ~ (topoLock # None /\ pc[topoLock] = "cutLeaf")
      /\ ~ (topoLock' # None /\ pc'[topoLock'] = "cutLeaf")
  <2>1. Cut = 0 /\ \A d \in Callers : pc[d] # "cutLeaf"
    BY <1>1, NothingIsCut
  <2>2. topoLock # None => topoLock \in Callers
    BY HoldersOfLocks
  <2>3. ~ (topoLock' # None /\ pc'[topoLock'] = "cutLeaf")
    BY <1>3, <1>4, <2>1, <2>2
  <2> QED
    BY <2>1, <2>2, <2>3 DEF Cut
<1>9. SpineOK'
  <2> DEFINE n == Len(spineLeaves)
  <2>1. /\ Len(spineLeaves') = n + 1 /\ n \in Nat
        /\ \A i \in 1 .. n : spineLeaves'[i] = spineLeaves[i]
        /\ spineLeaves'[n + 1] = l
        /\ \A m : m \in Range(spineLeaves') <=> m \in Range(spineLeaves) \/ m = l
    BY <1>1, <1>3, <1>4, AppendValue
  <2>2. \A i, j \in 1 .. n : spineLeaves[i] = spineLeaves[j] => i = j
    BY DEF IInv, SpineOK
  <2>3. ASSUME NEW i \in 1 .. n
        PROVE  spineLeaves[i] \in Leaves /\ index[spineLeaves[i]] = i - 1 /\ spineLeaves[i] # l
    <3>1. spineLeaves[i] \in Leaves
      BY <1>3
    <3>2. index[spineLeaves[i]] = i - 1
      BY <1>8 DEF IInv, SpineOK
    <3>3. spineLeaves[i] \in Range(spineLeaves)
      BY <1>3, RangeValue
    <3> QED
      BY <1>2, <3>1, <3>2, <3>3
  <2>4. ASSUME NEW i \in 1 .. n + 1
        PROVE  index'[spineLeaves'[i]] = i - 1
    <3>1. CASE i \in 1 .. n
      BY <1>3, <1>4, <2>1, <2>3, <3>1
    <3>2. CASE i = n + 1
      BY <1>1, <1>3, <1>4, <2>1, <3>2
    <3> QED
      BY <2>1, <3>1, <3>2
  <2>5. \A i, j \in 1 .. n + 1 : spineLeaves'[i] = spineLeaves'[j] => i = j
    BY <2>1, <2>2, <2>3
  <2>6. ASSUME NEW m \in Leaves
        PROVE  m \in Range(spineLeaves') <=>
                 m \in leaves' \/ (\E d \in Callers : pc'[d] = "storeLeaf" /\ K(d)'.leaf = m)
    <3>1. m \in Range(spineLeaves') <=> m \in Range(spineLeaves) \/ m = l
      BY <2>1
    <3>2. \A d \in Callers : K(d)' = K(d)
      BY <1>4 DEF K
    <3>3. m \in Range(spineLeaves) <=> m \in leaves \/ (\E d \in Callers : pc[d] = "storeLeaf" /\ K(d).leaf = m)
      BY DEF IInv, SpineOK
    <3>4. \A d \in Callers : pc'[d] = "storeLeaf" <=> pc[d] = "storeLeaf" \/ d = c
      BY <1>3, <1>4
    <3>5. pc[c] # "storeLeaf"
      BY <1>1
    <3> QED
      BY <1>4, <3>1, <3>2, <3>3, <3>4, <3>5
  <2> QED
    BY <1>8, <2>1, <2>4, <2>5, <2>6 DEF SpineOK
<1>10. ASSUME NEW m \in Leaves
       PROVE  ServersOK(m)' /\ NumbersOK(m)'
  <2>1. topoLock # c /\ leafLock[m] # c
    BY <1>1, HoldersOfLocks, NoneIsNobody
  <2> QED
    BY <1>4, <1>5, <2>1, LeafKeeps
<1>11. ASSUME NEW d \in Callers
       PROVE  CallerOK(d)' /\ (call'[d] # None => TreeCallOK(d)')
  <2>1. CASE d = c
    <3>1. CallerOK(c)'
      BY <1>1, <1>4, <1>5 DEF CallerOK, Stages, K, Removing
    <3>2. TreeCallOK(c)'
      BY <1>1, <1>4, <1>5 DEF TreeCallOK, K
    <3> QED
      BY <2>1, <3>1, <3>2
  <2>2. CASE d # c
    <3>1. CallerOK(d)' /\ K(d)' = K(d) /\ (call[d] # None => TreeCallOK(d)) /\ Rests(d)
      BY <1>5, <2>2, OthersKeep
    <3>2. ASSUME call[d] # None, K(d).op = "AddLeaf", K(d).leaf \notin Range(spineLeaves)
          PROVE  K(d).leaf \notin Range(spineLeaves')
      <4>1. K(d).leaf # l
        BY <1>1, <2>2, <3>2, Conflicts DEF TreeOps
      <4> QED
        BY <1>1, <1>3, <1>4, <3>2, <4>1, AppendValue
    <3> QED
      BY <1>4, <3>1, <3>2 DEF TreeCallOK, Rests
  <2> QED
    BY <2>1, <2>2
<1>12. \A d, e \in Callers : d # e => Apart(d, e)'
  BY <1>4, <1>5, CallsKeepApart
<1> QED
  BY <1>1, <1>4, <1>6, <1>7, <1>9, <1>10, <1>11, <1>12 DEF IInv

LEMMA StoreLeafKeeps ==
  ASSUME IInv, NEW c \in Callers, StoreLeaf(c)
  PROVE  IInv'
<1> DEFINE l == K(c).leaf
<1>1. pc[c] = "storeLeaf" /\ up /\ K(c).op = "AddLeaf" /\ l \in Leaves
      /\ call[c] # None /\ TreeCallOK(c)
  BY InCall, OpAt, CallFields DEF StoreLeaf, At, TreeOps
<1>2. l \notin leaves /\ nodes[l] = <<>> /\ leafLock[l] = None
  BY <1>1 DEF TreeCallOK, IInv, ServersOK
<1>3. /\ leafLast \in [Leaves -> Nat] /\ pc \in [Callers -> Labels]
      /\ call \in [Callers -> Served \cup {None}]
  BY DEF IInv, TypeOK
<1>4. /\ leaves' = leaves \cup {l}
      /\ leafLast' = [leafLast EXCEPT ![l] = 0]
      /\ pc' = [pc EXCEPT ![c] = "idle"] /\ call' = [call EXCEPT ![c] = None]
      /\ UNCHANGED <<up, spineLeaves, index, nodes, parent, calls, loc>>
      /\ UNCHANGED locks /\ topoLock' = topoLock /\ leafLock' = leafLock
      /\ UNCHANGED <<vcs, vcServers, vcLeaves, serverVCs, leafVCs>>
  BY DEF StoreLeaf, Return, locks, books
<1>5. pc'[c] = "idle" /\ call'[c] = None /\ \A d \in Callers \ {c} : Rests(d)
  BY <1>3, <1>4 DEF Rests
<1>6. TypeOK'
  BY <1>1, <1>3, <1>4 DEF IInv, TypeOK, Labels
<1>7. LocksOK'
  BY <1>1, <1>4, <1>5, LocksKeep
<1>8. /\ Cut = 0 /\ Cut' = 0
      /\ ~ (topoLock' # None /\ pc'[topoLock'] = "cutLeaf")
  <2>1. Cut = 0 /\ \A d \in Callers : pc[d] # "cutLeaf"
    BY <1>1, NothingIsCut
  <2>2. topoLock # None => topoLock \in Callers
    BY HoldersOfLocks
  <2>3. ~ (topoLock' # None /\ pc'[topoLock'] = "cutLeaf")
    BY <1>3, <1>4, <2>1, <2>2
  <2> QED
    BY <2>1, <2>2, <2>3 DEF Cut
<1>9. SpineOK'
  <2>1. ASSUME NEW m \in Leaves
        PROVE  m \in Range(spineLeaves) <=>
                 m \in leaves' \/ (\E d \in Callers : pc'[d] = "storeLeaf" /\ K(d)'.leaf = m)
    <3>1. m \in Range(spineLeaves) <=> m \in leaves \/ (\E d \in Callers : pc[d] = "storeLeaf" /\ K(d).leaf = m)
      BY DEF IInv, SpineOK
    <3>2. \A d \in Callers : d # c => pc'[d] = pc[d] /\ K(d)' = K(d)
      BY <1>5 DEF Rests, K
    <3> QED
      BY <1>1, <1>4, <1>5, <3>1, <3>2
  <2> QED
    BY <1>4, <1>8, <2>1 DEF IInv, SpineOK
<1>10. ASSUME NEW m \in Leaves
       PROVE  ServersOK(m)' /\ NumbersOK(m)'
  <2>1. topoLock # c /\ leafLock[m] # c
    BY <1>1, HoldersOfLocks, NoneIsNobody
  <2>2. CASE m # l
    BY <1>1, <1>3, <1>4, <1>5, <2>1, <2>2, LeafKeeps
  <2>3. CASE m = l
    <3>1. ASSUME IsRenumbered(m)' PROVE FALSE
      <4>1. topoLock \in Callers /\ pc[topoLock] \in {"last", "slice"} /\ K(topoLock).leaf = l
        BY <1>4, <1>5, <2>1, <2>3, <3>1, HoldersOfLocks DEF IsRenumbered, Rests, K
      <4>2. call[topoLock] # None /\ K(topoLock).op \in TreeOps
        BY <4>1, OpAt, InCall DEF Removing, TreeOps
      <4> QED
        BY <1>1, <2>1, <4>1, <4>2, Conflicts DEF TreeOps
    <3>2. Count(m)' = 0 /\ Gap(m)' = 0
      BY <1>2, <1>4, <2>3, <3>1 DEF Count, Gap
    <3>3. Canonical(nodes'[m], 0, 0) /\ leafLast'[m] = EndOf(0)
      BY <1>1, <1>3, <1>4, <2>3 DEF Canonical, EndOf
    <3>4. NumbersOK(m)'
      BY <1>4, <3>1, <3>2, <3>3 DEF NumbersOK
    <3>5. ServersOK(m)'
      BY <1>1, <1>2, <1>4, <2>3 DEF IInv, ServersOK
    <3> QED
      BY <3>4, <3>5
  <2> QED
    BY <2>2, <2>3
<1>11. ASSUME NEW d \in Callers
       PROVE  CallerOK(d)' /\ (call'[d] # None => TreeCallOK(d)')
  <2>1. CASE d = c
    BY <1>5, <2>1 DEF CallerOK, Removing
  <2>2. CASE d # c
    <3>1. CallerOK(d)' /\ K(d)' = K(d) /\ (call[d] # None => TreeCallOK(d)) /\ Rests(d)
      BY <1>5, <2>2, OthersKeep
    <3>2. ASSUME call[d] # None, K(d).op = "AddLeaf"
          PROVE  K(d).leaf # l
      BY <1>1, <2>2, <3>2, Conflicts DEF TreeOps
    <3> QED
      BY <1>4, <3>1, <3>2 DEF TreeCallOK, Rests
  <2> QED
    BY <2>1, <2>2
<1>12. \A d, e \in Callers : d # e => Apart(d, e)'
  BY <1>5, CallsKeepApart
<1> QED
  BY <1>1, <1>4, <1>6, <1>7, <1>9, <1>10, <1>11, <1>12 DEF IInv

-----------------------------------------------------------------------------
(* Worker IDs, the arithmetic of a leaf's places.                          *)

LEMMA FirstIDValue ==
  /\ FirstID(1) = 0
  /\ \A i \in Nat \ {0} : FirstID(i) \in Nat /\ FirstID(i + 1) = FirstID(i) + Workers
  /\ \A i \in Nat \ {0, 1} : FirstID(i) >= Workers
<1>1. Workers \in Nat /\ Workers > 1
  BY WorkersAssumption
<1>2. FirstID(1) = 0
  BY <1>1 DEF FirstID
<1>3. ASSUME NEW i \in Nat \ {0}
      PROVE  FirstID(i) \in Nat /\ FirstID(i + 1) = FirstID(i) + Workers
  BY <1>1 DEF FirstID
<1>4. ASSUME NEW i \in Nat \ {0, 1}
      PROVE  FirstID(i) >= Workers
  <2>1. i - 1 \in Nat \ {0} /\ (i - 1) + 1 = i
    OBVIOUS
  <2>2. FirstID(i - 1) \in Nat /\ FirstID((i - 1) + 1) = FirstID(i - 1) + Workers
    BY <1>3, <2>1
  <2> QED
    BY <1>1, <2>1, <2>2
<1> QED
  BY <1>2, <1>3, <1>4

\* a new server gets the IDs that follow those of n servers
LEMMA EndOfValue ==
  ASSUME NEW n \in Nat
  PROVE  /\ EndOf(n) \in Nat
         /\ FirstID(n + 1) = IF EndOf(n) > 0 THEN EndOf(n) + 1 ELSE 0
         /\ EndOf(n + 1) = FirstID(n + 1) + Workers - 1
         /\ EndOf(n) = IF FirstID(n + 1) = 0 THEN 0 ELSE FirstID(n + 1) - 1
<1>1. n + 1 \in Nat \ {0} /\ Workers \in Nat /\ Workers > 1
  BY WorkersAssumption
<1>2. FirstID(n + 1) \in Nat /\ FirstID((n + 1) + 1) = FirstID(n + 1) + Workers
  BY <1>1, FirstIDValue
<1>3. CASE n = 0
  BY <1>1, <1>2, <1>3, FirstIDValue DEF EndOf
<1>4. CASE n # 0
  <2>1. n + 1 \in Nat \ {0, 1}
    BY <1>4
  <2>2. FirstID(n + 1) >= Workers
    BY <2>1, FirstIDValue
  <2> QED
    BY <1>1, <1>2, <1>4, <2>2 DEF EndOf
<1> QED
  BY <1>3, <1>4

LEMMA IdsValue ==
  ASSUME NEW list \in Seq(ServerNode), NEW s
  PROVE  s \in IdsOf(list) <=> \E i \in 1 .. Len(list) : list[i].id = s
BY DEF IdsOf

-----------------------------------------------------------------------------
(* AddServerToLeaf.                                                        *)

LEMMA AppendServerKeeps ==
  ASSUME IInv, NEW c \in Callers, AppendServer(c)
  PROVE  IInv'
<1>1. PICK l \in Leaves, s \in Servers :
        /\ pc[c] = "appendServer" /\ up /\ K(c).op = "AddServer" /\ l = K(c).leaf /\ s = K(c).server
        /\ call[c] # None /\ TreeCallOK(c)
  BY InCall, OpAt, CallFields DEF AppendServer, At, TreeOps
<1>2. l \in leaves /\ parent[s] = None /\ leafLock[l] = None
  BY <1>1 DEF TreeCallOK, AppendServer, LeafIsFree
<1> DEFINE node == [id |-> s, first |-> 0, last |-> 0]
<1>3. /\ nodes \in [Leaves -> Seq(ServerNode)] /\ nodes[l] \in Seq(ServerNode)
      /\ leafLock \in [Leaves -> Callers \cup {None}]
      /\ pc \in [Callers -> Labels] /\ node \in ServerNode
  BY DEF IInv, TypeOK, ServerNode
<1>4. /\ leafLock' = [leafLock EXCEPT ![l] = c]
      /\ nodes' = [nodes EXCEPT ![l] = Append(nodes[l], node)]
      /\ pc' = [pc EXCEPT ![c] = "numberServer"]
      /\ UNCHANGED <<up, spineLeaves, index, leaves, leafLast, parent, topoLock, call, calls, loc>>
      /\ UNCHANGED <<vcs, vcServers, vcLeaves, serverVCs, leafVCs>>
  BY <1>1 DEF AppendServer, Goto, books
<1>5. pc'[c] = "numberServer" /\ \A d \in Callers \ {c} : Rests(d)
  BY <1>3, <1>4 DEF Rests
<1>6. /\ Append(nodes[l], node) \in Seq(ServerNode)
      /\ Len(Append(nodes[l], node)) = Len(nodes[l]) + 1 /\ Len(nodes[l]) \in Nat
      /\ \A i \in 1 .. Len(nodes[l]) : Append(nodes[l], node)[i] = nodes[l][i]
      /\ Append(nodes[l], node)[Len(nodes[l]) + 1] = node
  BY <1>3, AppendValue
<1>7. TypeOK'
  BY <1>1, <1>3, <1>4, <1>6 DEF IInv, TypeOK, Labels
<1>8. LocksOK'
  <2>1. ASSUME NEW d \in Callers
        PROVE  /\ topoLock' = d <=> pc'[d] \in {"last", "slice", "cutLeaf"}
               /\ \A m \in Leaves : leafLock'[m] = d <=> pc'[d] = "numberServer" /\ K(d)'.leaf = m
    <3>1. /\ topoLock = d <=> pc[d] \in {"last", "slice", "cutLeaf"}
          /\ \A m \in Leaves : leafLock[m] = d <=> pc[d] = "numberServer" /\ K(d).leaf = m
      BY DEF IInv, LocksOK
    <3>2. K(d)' = K(d)
      BY <1>4 DEF K
    <3>3. CASE d = c
      BY <1>1, <1>2, <1>3, <1>4, <1>5, <3>1, <3>2, <3>3
    <3>4. CASE d # c
      BY <1>2, <1>3, <1>4, <3>1, <3>2, <3>4, NoneIsNobody
    <3> QED
      BY <3>3, <3>4
  <2> QED
    BY <2>1 DEF LocksOK
<1>9. SpineOK'
  BY <1>1, <1>4, <1>5, SpineKeeps
<1>10. topoLock # c /\ ~IsRenumbered(l) /\ ~IsRenumbered(l)'
  <2>1. topoLock # c
    BY <1>1, HoldersOfLocks, NoneIsNobody
  <2>2. ASSUME topoLock # None, pc[topoLock] \in {"last", "slice"} PROVE K(topoLock).leaf # l
    <3>1. topoLock \in Callers /\ call[topoLock] # None /\ K(topoLock).op \in {"FailServer", "FailLeaf"}
      BY <2>2, HoldersOfLocks, OpAt, InCall DEF Removing
    <3> QED
      BY <1>1, <2>1, <3>1, Conflicts DEF TreeOps
  <2>3. topoLock # None => topoLock \in Callers
    BY HoldersOfLocks
  <2> QED
    BY <1>3, <1>4, <2>1, <2>2, <2>3 DEF IsRenumbered, K
<1>11. ServersOK(l)'
  <2>1. /\ \A i, j \in 1 .. Len(nodes[l]) : nodes[l][i].id = nodes[l][j].id => i = j
        /\ \A t \in Servers : t \in IdsOf(nodes[l]) <=> parent[t] = l
    BY <1>2 DEF IInv, ServersOK
  <2>2. s \notin IdsOf(nodes[l])
    BY <1>2, <2>1, NoneIsNobody
  <2>3. \A i \in 1 .. Len(nodes[l]) : nodes[l][i].id # s
    BY <1>3, <2>2, IdsValue
  <2>4. nodes'[l] = Append(nodes[l], node) /\ leafLock'[l] = c
    BY <1>3, <1>4
  <2>5. \A i, j \in 1 .. Len(nodes'[l]) : nodes'[l][i].id = nodes'[l][j].id => i = j
    BY <1>6, <2>1, <2>3, <2>4
  <2>6. ASSUME NEW t \in Servers
        PROVE  t \in IdsOf(nodes'[l]) <=> parent'[t] = l \/ t = s
    <3>1. t \in IdsOf(nodes'[l]) <=> \E i \in 1 .. Len(nodes'[l]) : nodes'[l][i].id = t
      BY <1>6, <2>4, IdsValue
    <3>2. t \in IdsOf(nodes[l]) <=> \E i \in 1 .. Len(nodes[l]) : nodes[l][i].id = t
      BY <1>3, IdsValue
    <3>3. 1 .. Len(nodes'[l]) = 1 .. Len(nodes[l]) \cup {Len(nodes[l]) + 1}
      BY <1>6, <2>4
    <3> QED
      BY <1>4, <1>6, <2>1, <2>4, <3>1, <3>2, <3>3
  <2>7. K(c)' = K(c) /\ c # None
    BY <1>4, NoneIsNobody DEF K
  <2>8. nodes'[l] # <<>> /\ nodes'[l][Len(nodes'[l])].id = s
    BY <1>6, <2>4
  <2> QED
    BY <1>1, <1>2, <1>4, <2>4, <2>5, <2>6, <2>7, <2>8 DEF ServersOK
<1>12. NumbersOK(l)'
  <2>1. Canonical(nodes[l], Len(nodes[l]), 0) /\ leafLast[l] = EndOf(Len(nodes[l]))
    BY <1>2, <1>10 DEF IInv, NumbersOK, Gap, Count
  <2>2. nodes'[l] = Append(nodes[l], node) /\ leafLock'[l] = c /\ c # None
    BY <1>3, <1>4, NoneIsNobody
  <2>3. Count(l)' = Len(nodes[l]) /\ Gap(l)' = 0
    BY <1>6, <1>10, <2>2 DEF Count, Gap
  <2>4. Canonical(nodes'[l], Len(nodes[l]), 0)
    BY <1>6, <2>1, <2>2 DEF Canonical
  <2> QED
    BY <1>4, <1>10, <2>1, <2>3, <2>4 DEF NumbersOK
<1>13. ASSUME NEW m \in Leaves
       PROVE  ServersOK(m)' /\ NumbersOK(m)'
  <2>1. leafLock[m] # c
    BY <1>1, HoldersOfLocks, NoneIsNobody
  <2>2. CASE m # l
    BY <1>3, <1>4, <1>5, <1>10, <2>1, <2>2, LeafKeeps
  <2> QED
    BY <1>11, <1>12, <2>2
<1>14. ASSUME NEW d \in Callers
       PROVE  CallerOK(d)' /\ (call'[d] # None => TreeCallOK(d)')
  <2>1. CASE d = c
    <3>1. CallerOK(c)'
      BY <1>1, <1>4, <1>5 DEF CallerOK, Stages, K, Removing
    <3>2. TreeCallOK(c)'
      BY <1>1, <1>4, <1>5 DEF TreeCallOK, K
    <3> QED
      BY <2>1, <3>1, <3>2
  <2>2. CASE d # c
    <3>1. CallerOK(d)' /\ K(d)' = K(d) /\ (call[d] # None => TreeCallOK(d)) /\ Rests(d)
      BY <1>5, <2>2, OthersKeep
    <3>2. ASSUME call[d] # None, K(d).op = "FailLeaf"
          PROVE  nodes'[K(d).leaf] = nodes[K(d).leaf]
      <4>1. K(d).leaf # l
        BY <1>1, <2>2, <3>2, Conflicts DEF TreeOps
      <4> QED
        BY <1>3, <1>4, <4>1
    <3> QED
      BY <1>4, <3>1, <3>2 DEF TreeCallOK, Rests
  <2> QED
    BY <2>1, <2>2
<1>15. \A d, e \in Callers : d # e => Apart(d, e)'
  BY <1>4, <1>5, CallsKeepApart
<1> QED
  BY <1>1, <1>4, <1>7, <1>8, <1>9, <1>13, <1>14, <1>15 DEF IInv

LEMMA NumberServerKeeps ==
  ASSUME IInv, NEW c \in Callers, NumberServer(c)
  PROVE  IInv'
<1>1. PICK l \in Leaves, s \in Servers :
        /\ pc[c] = "numberServer" /\ up /\ K(c).op = "AddServer" /\ l = K(c).leaf /\ s = K(c).server
        /\ call[c] # None /\ TreeCallOK(c)
  BY InCall, OpAt, CallFields DEF NumberServer, At, TreeOps
<1>2. l \in leaves /\ parent[s] = None /\ leafLock[l] = c /\ c # None
  BY <1>1, NoneIsNobody DEF TreeCallOK, IInv, LocksOK
<1>3. /\ nodes \in [Leaves -> Seq(ServerNode)] /\ nodes[l] \in Seq(ServerNode)
      /\ leafLock \in [Leaves -> Callers \cup {None}]
      /\ parent \in [Servers -> Leaves \cup {None}] /\ leafLast \in [Leaves -> Nat]
      /\ pc \in [Callers -> Labels] /\ call \in [Callers -> Served \cup {None}]
  BY DEF IInv, TypeOK
<1> DEFINE n == Len(nodes[l])
           first == IF leafLast[l] > 0 THEN leafLast[l] + 1 ELSE 0
           node == [id |-> s, first |-> first, last |-> first + Workers - 1]
           list == [nodes[l] EXCEPT ![n] = node]
<1>4. /\ nodes' = [nodes EXCEPT ![l] = list]
      /\ leafLast' = [leafLast EXCEPT ![l] = node.last]
      /\ parent' = [parent EXCEPT ![s] = l]
      /\ leafLock' = [leafLock EXCEPT ![l] = None]
      /\ pc' = [pc EXCEPT ![c] = "idle"] /\ call' = [call EXCEPT ![c] = None]
      /\ UNCHANGED <<up, spineLeaves, index, leaves, topoLock, calls, loc>>
      /\ UNCHANGED <<vcs, vcServers, vcLeaves, serverVCs, leafVCs>>
  <2>1. nodes' = [nodes EXCEPT ![l][Len(nodes[l])] = node]
    BY <1>1 DEF NumberServer
  <2>2. nodes' = [nodes EXCEPT ![l] = list]
    BY <1>3, <2>1
  <2> QED
    BY <1>1, <2>2 DEF NumberServer, Return, books
<1>5. pc'[c] = "idle" /\ call'[c] = None /\ \A d \in Callers \ {c} : Rests(d)
  BY <1>3, <1>4 DEF Rests
<1>6. topoLock # c /\ ~IsRenumbered(l) /\ ~IsRenumbered(l)'
  <2>1. topoLock # c
    BY <1>1, HoldersOfLocks, NoneIsNobody
  <2>2. ASSUME topoLock # None, pc[topoLock] \in {"last", "slice"} PROVE K(topoLock).leaf # l
    <3>1. topoLock \in Callers /\ call[topoLock] # None /\ K(topoLock).op \in {"FailServer", "FailLeaf"}
      BY <2>2, HoldersOfLocks, OpAt, InCall DEF Removing
    <3> QED
      BY <1>1, <2>1, <3>1, Conflicts DEF TreeOps
  <2>3. topoLock # None => call'[topoLock].of = call[topoLock].of /\ pc'[topoLock] = pc[topoLock]
    BY <1>5, <2>1, HoldersOfLocks DEF Rests
  <2>4. topoLock' = topoLock
    BY <1>4
  <2> QED
    BY <2>1, <2>2, <2>3, <2>4 DEF IsRenumbered, K
<1>7. /\ n \in Nat \ {0} /\ nodes[l][n].id = s
      /\ \A i, j \in 1 .. n : nodes[l][i].id = nodes[l][j].id => i = j
      /\ \A t \in Servers : t \in IdsOf(nodes[l]) <=> parent[t] = l \/ t = s
  <2>1. ServersOK(l) /\ n \in Nat /\ (nodes[l] # <<>> => n # 0)
    BY <1>3 DEF IInv
  <2>2. K(leafLock[l]).server = s
    BY <1>1, <1>2
  <2> HIDE DEF n
  <2> QED
    BY <1>2, <2>1, <2>2 DEF ServersOK, n
<1>8. /\ Canonical(nodes[l], n - 1, 0)
      /\ leafLast[l] = EndOf(n - 1)
  BY <1>2, <1>6 DEF IInv, NumbersOK, Gap, Count
<1>9. /\ first \in Nat /\ node.last \in Nat /\ node.first = first /\ node.id = s
      /\ first = FirstID(n) /\ node.last = EndOf(n) /\ node.last = FirstID(n + 1) - 1
  <2>1. n - 1 \in Nat /\ (n - 1) + 1 = n
    BY <1>7
  <2>2. /\ FirstID(n) = IF EndOf(n - 1) > 0 THEN EndOf(n - 1) + 1 ELSE 0
        /\ EndOf(n) = FirstID(n) + Workers - 1
    BY <2>1, EndOfValue
  <2>3. FirstID(n) \in Nat /\ FirstID(n + 1) = FirstID(n) + Workers
    BY <1>7, FirstIDValue
  <2>4. node.last = first + Workers - 1 /\ node.first = first /\ node.id = s /\ first = FirstID(n)
    BY <1>8, <2>2
  <2> QED
    BY <2>2, <2>3, <2>4, WorkersAssumption
<1>10. /\ list \in Seq(ServerNode) /\ Len(list) = n
       /\ \A i \in 1 .. n : list[i].id = nodes[l][i].id
       /\ \A i \in 1 .. n - 1 : list[i] = nodes[l][i]
       /\ list[n] = node
  <2>1. node \in ServerNode
    BY <1>9 DEF ServerNode
  <2>2. n \in 1 .. n /\ n \in Nat
    BY <1>7
  <2>3. list \in Seq(ServerNode) /\ Len(list) = n
    BY <1>3, <2>1, <2>2
  <2>4. \A i \in 1 .. n : list[i] = IF i = n THEN node ELSE nodes[l][i]
    BY <1>3, <2>2
  <2> HIDE DEF list, node
  <2> QED
    BY <1>7, <1>9, <2>2, <2>3, <2>4
<1>11. nodes'[l] = list /\ leafLock'[l] = None /\ leafLast'[l] = node.last /\ parent'[s] = l
  BY <1>3, <1>4
<1> HIDE DEF list, node, first
<1>12. TypeOK'
  <2>1. nodes' \in [Leaves -> Seq(ServerNode)] /\ leafLast' \in [Leaves -> Nat]
        /\ parent' \in [Servers -> Leaves \cup {None}]
        /\ leafLock' \in [Leaves -> Callers \cup {None}]
        /\ pc' \in [Callers -> Labels] /\ call' \in [Callers -> Served \cup {None}]
    BY <1>1, <1>3, <1>4, <1>9, <1>10 DEF Labels
  <2> QED
    BY <1>4, <2>1 DEF IInv, TypeOK
<1>13. LocksOK'
  <2>1. ASSUME NEW d \in Callers
        PROVE  /\ topoLock' = d <=> pc'[d] \in {"last", "slice", "cutLeaf"}
               /\ \A m \in Leaves : leafLock'[m] = d <=> pc'[d] = "numberServer" /\ K(d)'.leaf = m
    <3>1. /\ topoLock = d <=> pc[d] \in {"last", "slice", "cutLeaf"}
          /\ \A m \in Leaves : leafLock[m] = d <=> pc[d] = "numberServer" /\ K(d).leaf = m
      BY DEF IInv, LocksOK
    <3>2. CASE d = c
      BY <1>1, <1>2, <1>3, <1>4, <1>5, <3>1, <3>2
    <3>3. CASE d # c
      <4>1. K(d)' = K(d) /\ pc'[d] = pc[d] /\ d # None
        BY <1>3, <1>4, <3>3, NoneIsNobody DEF K
      <4>2. \A m \in Leaves : leafLock'[m] = d <=> leafLock[m] = d
        BY <1>2, <1>3, <1>4, <3>3, <4>1
      <4> QED
        BY <1>4, <3>1, <4>1, <4>2
    <3> QED
      BY <3>2, <3>3
  <2> QED
    BY <2>1 DEF LocksOK
<1>14. SpineOK'
  BY <1>1, <1>4, <1>5, SpineKeeps
<1>15. ServersOK(l)'
  <2>1. \A i, j \in 1 .. Len(nodes'[l]) : nodes'[l][i].id = nodes'[l][j].id => i = j
    BY <1>7, <1>10, <1>11
  <2>2. ASSUME NEW t \in Servers
        PROVE  t \in IdsOf(nodes'[l]) <=> parent'[t] = l
    <3>1. t \in IdsOf(nodes'[l]) <=> t \in IdsOf(nodes[l])
      <4>1. t \in IdsOf(nodes[l]) <=> \E i \in 1 .. n : nodes[l][i].id = t
        BY <1>3, IdsValue
      <4>2. t \in IdsOf(list) <=> \E i \in 1 .. n : list[i].id = t
        BY <1>10, IdsValue
      <4> QED
        BY <1>10, <1>11, <4>1, <4>2
    <3> QED
      BY <1>3, <1>4, <1>7, <3>1
  <2> QED
    BY <1>2, <1>4, <1>11, <2>1, <2>2 DEF ServersOK
<1>16. NumbersOK(l)'
  <2>1. Count(l)' = n /\ Gap(l)' = 0
    BY <1>6, <1>10, <1>11 DEF Count, Gap
  <2>2. HasWorkers(node, n)
    BY <1>9 DEF HasWorkers
  <2>3. Canonical(list, n, 0)
    <3>1. ASSUME NEW i \in 1 .. n
          PROVE  HasWorkers(list[i], i)
      <4>1. CASE i = n
        BY <1>10, <2>2, <4>1
      <4>2. CASE i # n
        <5>1. i \in 1 .. n - 1 /\ i # 0
          BY <1>7, <4>2
        <5> QED
          BY <1>8, <1>10, <5>1 DEF Canonical
      <4> QED
        BY <4>1, <4>2
    <3> QED
      BY <3>1 DEF Canonical
  <2> QED
    BY <1>6, <1>9, <1>11, <2>1, <2>3 DEF NumbersOK
<1>17. ASSUME NEW m \in Leaves
       PROVE  ServersOK(m)' /\ NumbersOK(m)'
  <2>1. CASE m # l
    <3>1. leafLock[m] # c
      BY <1>1, <2>1 DEF IInv, LocksOK
    <3>2. \A t \in Servers : parent'[t] = m <=> parent[t] = m
      BY <1>2, <1>3, <1>4, <2>1, NoneIsNobody
    <3> QED
      BY <1>3, <1>4, <1>5, <1>6, <2>1, <3>1, <3>2, LeafKeeps
  <2> QED
    BY <1>15, <1>16, <2>1
<1>18. ASSUME NEW d \in Callers
       PROVE  CallerOK(d)' /\ (call'[d] # None => TreeCallOK(d)')
  <2>1. CASE d = c
    BY <1>5, <2>1 DEF CallerOK, Removing
  <2>2. CASE d # c
    <3>1. CallerOK(d)' /\ K(d)' = K(d) /\ (call[d] # None => TreeCallOK(d)) /\ Rests(d)
      BY <1>5, <2>2, OthersKeep
    <3>2. ASSUME call[d] # None, K(d).op = "FailLeaf"
          PROVE  K(d).leaf # l /\ nodes'[K(d).leaf] = nodes[K(d).leaf]
      <4>1. K(d).leaf # l
        BY <1>1, <2>2, <3>2, Conflicts DEF TreeOps
      <4> QED
        BY <1>3, <1>4, <4>1
    <3>3. ASSUME call[d] # None, K(d).op \in {"AddServer", "FailServer"}
          PROVE  K(d).server # s
      BY <1>1, <2>2, <3>3, Conflicts DEF TreeOps
    <3>4. \A t \in Servers : t # s => parent'[t] = parent[t]
      BY <1>3, <1>4
    <3>5. call[d] # None => TreeCallOK(d)'
      <4> SUFFICES ASSUME call[d] # None PROVE TreeCallOK(d)'
        OBVIOUS
      <4>1. TreeCallOK(d) /\ K(d) \in Call /\ CallerOK(d)
        BY <3>1, InCall DEF IInv, CallerOK
      <4>2. CASE K(d).op = "AddLeaf"
        BY <1>4, <3>1, <4>1, <4>2 DEF TreeCallOK, Rests
      <4>3. CASE K(d).op \in {"AddServer", "FailServer"}
        <5>1. parent'[K(d).server] = parent[K(d).server]
          BY <3>3, <3>4, <4>1, <4>3, CallFields
        <5> QED
          BY <1>4, <3>1, <4>1, <4>3, <5>1 DEF TreeCallOK, Rests
      <4>4. CASE K(d).op = "FailLeaf"
        <5>1. \A t \in Servers : parent'[t] = K(d).leaf => parent[t] = K(d).leaf
          BY <1>11, <3>2, <3>4, <4>4
        <5>2. pc[d] \in Removing => parent'[loc[d].victim] = K(d).leaf
          <6> SUFFICES ASSUME pc[d] \in Removing PROVE parent'[loc[d].victim] = K(d).leaf
            OBVIOUS
          <6>1. parent[loc[d].victim] = K(d).leaf /\ loc[d].victim \in Servers
            BY <4>1, <4>4 DEF TreeCallOK, CallerOK
          <6>2. K(d).leaf # None
            BY <4>1, <4>4, CallFields, NoneIsNobody DEF TreeOps
          <6> QED
            BY <1>2, <3>4, <6>1, <6>2
        <5> QED
          BY <1>4, <3>1, <3>2, <4>1, <4>4, <5>1, <5>2 DEF TreeCallOK, Rests
      <4>5. CASE K(d).op \in {"AddVC", "RemoveVC"}
        BY <3>1, <4>5 DEF TreeCallOK
      <4> QED
        BY <4>1, <4>2, <4>3, <4>4, <4>5, CallFields DEF TreeOps
    <3> QED
      BY <3>1, <3>5 DEF Rests
  <2> QED
    BY <2>1, <2>2
<1>19. \A d, e \in Callers : d # e => Apart(d, e)'
  BY <1>5, CallsKeepApart
<1> QED
  BY <1>1, <1>4, <1>12, <1>13, <1>14, <1>17, <1>18, <1>19 DEF IInv

-----------------------------------------------------------------------------
(* RemoveServer.                                                           *)

\* what the loop of RemoveServer has added up behind the first i servers,
\* when the one it skips is at a place at
Offset(at, i) == IF i < at THEN FirstID(i + 1) ELSE FirstID(i)

LEMMA OffsetValue ==
  ASSUME NEW n \in Nat, NEW at \in 1 .. n
  PROVE  /\ Offset(at, 0) = 0
         /\ \A i \in 0 .. n : Offset(at, i) \in Nat
         /\ \A i \in 1 .. n : Offset(at, i) = Offset(at, i - 1) + (IF i = at THEN 0 ELSE Workers)
<1>1. Offset(at, 0) = 0
  BY FirstIDValue DEF Offset
<1>2. ASSUME NEW i \in 0 .. n
      PROVE  Offset(at, i) \in Nat
  <2>1. CASE i < at
    <3>1. i + 1 \in Nat \ {0}
      OBVIOUS
    <3> QED
      BY <2>1, <3>1, FirstIDValue DEF Offset
  <2>2. CASE ~ (i < at)
    <3>1. i \in Nat \ {0}
      BY <2>2
    <3> QED
      BY <2>2, <3>1, FirstIDValue DEF Offset
  <2> QED
    BY <2>1, <2>2
<1>3. ASSUME NEW i \in 1 .. n
      PROVE  Offset(at, i) = Offset(at, i - 1) + (IF i = at THEN 0 ELSE Workers)
  <2>1. i \in Nat \ {0} /\ (i - 1) + 1 = i
    OBVIOUS
  <2>2. FirstID(i) \in Nat /\ FirstID(i + 1) = FirstID(i) + Workers
    BY <2>1, FirstIDValue
  <2>3. CASE i < at
    <3>1. Offset(at, i) = FirstID(i + 1) /\ Offset(at, i - 1) = FirstID((i - 1) + 1) /\ i # at
      BY <2>3 DEF Offset
    <3> QED
      BY <2>1, <2>2, <3>1
  <2>4. CASE i = at
    <3>1. Offset(at, i) = FirstID(i) /\ Offset(at, i - 1) = FirstID((i - 1) + 1)
      BY <2>4 DEF Offset
    <3> QED
      BY <2>1, <2>2, <2>4, <3>1
  <2>5. CASE i > at
    <3>1. Offset(at, i) = FirstID(i) /\ Offset(at, i - 1) = FirstID(i - 1) /\ i - 1 \in Nat \ {0} /\ i # at
      BY <2>5 DEF Offset
    <3>2. FirstID((i - 1) + 1) = FirstID(i - 1) + Workers
      BY <3>1, FirstIDValue
    <3> QED
      BY <2>1, <3>1, <3>2
  <2> QED
    BY <2>3, <2>4, <2>5
<1> QED
  BY <1>1, <1>2, <1>3

LEMMA WorkersBeforeValue ==
  ASSUME NEW list \in Seq(ServerNode), NEW at \in 1 .. Len(list), NEW s,
         Canonical(list, Len(list), 0), list[at].id = s,
         \A j \in 1 .. Len(list) : list[j].id = s => j = at,
         NEW i \in 0 .. Len(list)
  PROVE  WorkersBefore(list, s, i) = Offset(at, i)
<1> DEFINE w(j) == IF list[j].id = s THEN 0 ELSE list[j].last - list[j].first + 1
           Sums(f) == f = [j \in 0 .. i |-> IF j = 0 THEN 0 ELSE f[j - 1] + w(j)]
           sum == CHOOSE f : Sums(f)
           g == [j \in 0 .. i |-> Offset(at, j)]
<1>1. Len(list) \in Nat
  OBVIOUS
<1>2. ASSUME NEW j \in 1 .. Len(list)
      PROVE  w(j) = IF j = at THEN 0 ELSE Workers
  <2>1. CASE j = at
    BY <2>1
  <2>2. CASE j # at
    <3>1. list[j].id # s /\ list[j].first = FirstID(j) /\ list[j].last = FirstID(j + 1) - 1
      BY <1>1, <2>2 DEF Canonical, HasWorkers
    <3>2. j \in Nat \ {0}
      BY <1>1
    <3>3. FirstID(j) \in Nat /\ FirstID(j + 1) = FirstID(j) + Workers /\ Workers \in Nat
      BY <3>2, FirstIDValue, WorkersAssumption
    <3> QED
      BY <2>2, <3>1, <3>3
  <2> QED
    BY <2>1, <2>2
<1> HIDE DEF w
<1>3. \A j \in 1 .. i : j \in 1 .. Len(list) /\ Offset(at, j) = Offset(at, j - 1) + w(j)
  BY SMTT(30), <1>1, <1>2, OffsetValue
<1>4. Sums(g)
  <2>1. Offset(at, 0) = 0
    BY <1>1, OffsetValue
  <2>2. \A j \in 0 .. i : g[j] = IF j = 0 THEN 0 ELSE g[j - 1] + w(j)
    BY <1>1, <1>3, <2>1
  <2> QED
    BY <2>2
<1>5. Sums(sum)
  <2> HIDE DEF Sums, g
  <2> QED
    BY <1>4
<1>6. WorkersBefore(list, s, i) = sum[i]
  BY DEF WorkersBefore, w
<1> HIDE DEF sum
<1> DEFINE S == {n \in Nat : n <= i => sum[n] = Offset(at, n)}
<1>7. 0 \in S
  BY <1>1, <1>5, OffsetValue
<1>8. ASSUME NEW n \in Nat, n \in S
      PROVE  n + 1 \in S
  <2> SUFFICES ASSUME n + 1 <= i
               PROVE  sum[n + 1] = Offset(at, n + 1)
    OBVIOUS
  <2>1. sum[n + 1] = sum[n] + w(n + 1)
    BY <1>1, <1>5
  <2>2. sum[n] = Offset(at, n) /\ n + 1 \in 1 .. i /\ (n + 1) - 1 = n
    BY <1>1, <1>8
  <2> QED
    BY <1>3, <2>1, <2>2
<1>9. Nat \subseteq S
  <2> HIDE DEF S
  <2> QED
    BY <1>7, <1>8, NatSetInduction
<1> QED
  BY <1>1, <1>6, <1>9

LEMMA Remover ==
  ASSUME IInv, NEW c \in Callers, pc[c] \in Removing
  PROVE  /\ call[c] # None /\ TreeCallOK(c) /\ K(c).op \in {"FailServer", "FailLeaf"}
         /\ K(c).leaf \in Leaves /\ K(c).leaf \in leaves
         /\ loc[c].victim \in Servers /\ parent[loc[c].victim] = K(c).leaf
         /\ leafLock[K(c).leaf] = None
<1>1. /\ call[c] # None /\ TreeCallOK(c) /\ K(c).op \in {"FailServer", "FailLeaf"}
      /\ K(c) \in Call /\ CallerOK(c)
  BY InCall, OpAt DEF Removing
<1>2. K(c).leaf \in Leaves /\ loc[c].victim \in Servers
  BY <1>1, CallFields DEF TreeOps, CallerOK
<1>3. parent[loc[c].victim] = K(c).leaf
  BY <1>1 DEF TreeCallOK
<1>4. K(c).leaf \in leaves
  BY <1>2, <1>3 DEF IInv, ServersOK, IdsOf
<1>5. leafLock[K(c).leaf] = None
  <2> SUFFICES ASSUME leafLock[K(c).leaf] # None PROVE FALSE
    OBVIOUS
  <2> DEFINE d == leafLock[K(c).leaf]
  <2>1. d \in Callers /\ K(d).op = "AddServer" /\ K(d).leaf = K(c).leaf /\ pc[d] = "numberServer"
    BY <1>2, HoldersOfLocks
  <2> HIDE DEF d
  <2>2. call[d] # None
    BY <2>1, InCall
  <2>3. d # c
    BY <1>1, <2>1
  <2> QED
    BY <1>1, <2>1, <2>2, <2>3, Conflicts DEF TreeOps
<1> QED
  BY <1>1, <1>2, <1>3, <1>4, <1>5

LEMMA RemoverAndOthers ==
  ASSUME IInv, NEW c \in Callers, NEW d \in Callers, c # d, pc[c] \in Removing, call[d] # None
  PROVE  /\ K(d).op = "FailLeaf" => K(d).leaf # K(c).leaf
         /\ K(d).op = "AddServer" => K(d).leaf # K(c).leaf
         /\ K(d).op \in {"AddServer", "FailServer"} => K(d).server # loc[c].victim
<1>1. /\ call[c] # None /\ TreeCallOK(c) /\ K(c).op \in {"FailServer", "FailLeaf"}
      /\ K(c).leaf \in Leaves /\ parent[loc[c].victim] = K(c).leaf
  BY Remover
<1>2. K(d).op \in {"FailLeaf", "AddServer"} => K(d).leaf # K(c).leaf
  BY <1>1, Conflicts DEF TreeOps
<1>3. ASSUME K(d).op \in {"AddServer", "FailServer"}
      PROVE  K(d).server # loc[c].victim
  <2>1. CASE K(c).op = "FailServer"
    <3>1. loc[c].victim = K(c).server
      BY <1>1, <2>1 DEF TreeCallOK
    <3> QED
      BY <1>1, <1>3, <2>1, <3>1, Conflicts DEF TreeOps
  <2>2. CASE K(c).op = "FailLeaf"
    <3>1. K(d).leaf # K(c).leaf
      BY <1>1, <1>3, <2>2, Conflicts DEF TreeOps
    <3>2. parent[K(d).server] = None \/ parent[K(d).server] = K(d).leaf
      BY <1>3 DEF IInv, TreeCallOK
    <3> QED
      BY <1>1, <3>1, <3>2, NoneIsNobody
  <2> QED
    BY <1>1, <2>1, <2>2
<1> QED
  BY <1>2, <1>3

LEMMA LockTopologyKeeps ==
  ASSUME IInv, NEW c \in Callers, LockTopology(c)
  PROVE  IInv'
<1> DEFINE l == K(c).leaf
           s == loc[c].victim
           list == nodes[l]
           n == Len(list)
           at == Position(list, s)
<1>1. pc[c] = "lock" /\ up /\ topoLock = None
  BY DEF LockTopology, At, TopoIsFree
<1>2. /\ call[c] # None /\ TreeCallOK(c) /\ K(c).op \in {"FailServer", "FailLeaf"}
      /\ l \in Leaves /\ l \in leaves /\ s \in Servers /\ parent[s] = l /\ leafLock[l] = None
  BY <1>1, Remover DEF Removing
<1>3. /\ nodes \in [Leaves -> Seq(ServerNode)] /\ list \in Seq(ServerNode) /\ n \in Nat
      /\ pc \in [Callers -> Labels] /\ loc \in [Callers -> Local]
  BY <1>2 DEF IInv, TypeOK
<1>4. /\ topoLock' = c
      /\ nodes' = [nodes EXCEPT ![l] = Renumbered(list, s)]
      /\ loc' = [loc EXCEPT ![c] = [[loc[c] EXCEPT !.at = at] EXCEPT !.total = WorkersBefore(list, s, n)]]
      /\ pc' = [pc EXCEPT ![c] = "last"]
      /\ UNCHANGED <<up, spineLeaves, index, leaves, leafLast, parent, leafLock, call, calls>>
      /\ UNCHANGED <<vcs, vcServers, vcLeaves, serverVCs, leafVCs>>
  <2>1. loc' = [loc EXCEPT ![c].at = at, ![c].total = WorkersBefore(list, s, n)]
    BY DEF LockTopology
  <2>2. loc' = [loc EXCEPT ![c] = [[loc[c] EXCEPT !.at = at] EXCEPT !.total = WorkersBefore(list, s, n)]]
    BY <1>3, <2>1
  <2> QED
    BY <2>2 DEF LockTopology, Goto, books
<1>5. /\ ServersOK(l) /\ NumbersOK(l) /\ ~IsRenumbered(l)
  BY <1>1, <1>2 DEF IInv, IsRenumbered
<1>6. /\ Canonical(list, n, 0) /\ leafLast[l] = EndOf(n)
      /\ \A i, j \in 1 .. n : list[i].id = list[j].id => i = j
      /\ \A t \in Servers : t \in IdsOf(list) <=> parent[t] = l
  BY <1>2, <1>5 DEF NumbersOK, ServersOK, Gap, Count
<1>7. at \in 1 .. n /\ list[at].id = s /\ \A j \in 1 .. n : list[j].id = s => j = at
  <2>1. s \in IdsOf(list)
    BY <1>2, <1>6
  <2>2. \E i \in 1 .. n : list[i].id = s
    BY <1>3, <2>1, IdsValue
  <2>3. PICK i \in 1 .. n : list[i].id = s
    BY <2>2
  <2>4. \A j \in 1 .. n : list[j].id = s => j = i
    BY <1>6, <2>3
  <2>5. {j \in 1 .. n : list[j].id = s} = {i}
    BY <2>3, <2>4
  <2>6. Max({i}) = i
    BY <2>3 DEF Max
  <2>7. at = i
    BY <2>5, <2>6 DEF Position, SelectLastInSeq
  <2> QED
    BY <2>3, <2>4, <2>7
<1> HIDE DEF at
<1>8. ASSUME NEW i \in 0 .. n
      PROVE  WorkersBefore(list, s, i) = Offset(at, i)
  <2> HIDE DEF list, s
  <2> QED
    BY <1>3, <1>6, <1>7, WorkersBeforeValue
<1> DEFINE new == Renumbered(list, s)
<1>9. /\ new \in Seq(ServerNode) /\ Len(new) = n
      /\ \A i \in 1 .. n : new[i].id = list[i].id
      /\ \A i \in 1 .. n : i # at => HasWorkers(new[i], IF i > at THEN i - 1 ELSE i)
  <2>1. ASSUME NEW i \in 1 .. n
        PROVE  /\ new[i] \in ServerNode /\ new[i].id = list[i].id
               /\ i # at => HasWorkers(new[i], IF i > at THEN i - 1 ELSE i)
    <3>1. list[i] \in ServerNode /\ i \in Nat /\ i \in 0 .. n /\ i - 1 \in 0 .. n /\ (i - 1) + 1 = i
      BY <1>3
    <3>2. CASE i = at
      <4>1. new[i] = list[i]
        BY <1>7, <3>2 DEF Renumbered
      <4> QED
        BY <3>1, <3>2, <4>1
    <3>3. CASE i # at
      <4>1. new[i] = [id |-> list[i].id, first |-> Offset(at, i - 1), last |-> Offset(at, i) - 1]
        <5>1. list[i].id # s
          BY <1>7, <3>3
        <5>2. new[i] = [id |-> list[i].id, first |-> WorkersBefore(list, s, i - 1),
                        last |-> WorkersBefore(list, s, i) - 1]
          BY <5>1 DEF Renumbered
        <5> QED
          BY <1>8, <3>1, <5>2
      <4>2. /\ Offset(at, i - 1) \in Nat /\ Offset(at, i) \in Nat
            /\ Offset(at, i) = Offset(at, i - 1) + Workers
        BY <1>3, <1>7, <3>1, <3>3, OffsetValue
      <4>3. Offset(at, i) - 1 \in Nat
        BY <4>2, WorkersAssumption
      <4>4. new[i] \in ServerNode
        BY <3>1, <4>1, <4>2, <4>3 DEF ServerNode
      <4>5. CASE i > at
        <5>1. /\ Offset(at, i - 1) = FirstID(i - 1) /\ Offset(at, i) = FirstID((i - 1) + 1)
          BY <1>3, <1>7, <3>1, <4>5 DEF Offset
        <5> QED
          BY <4>1, <4>4, <4>5, <5>1 DEF HasWorkers
      <4>6. CASE ~ (i > at)
        <5>1. /\ Offset(at, i - 1) = FirstID((i - 1) + 1) /\ Offset(at, i) = FirstID(i + 1)
          BY <1>3, <1>7, <3>1, <3>3, <4>6 DEF Offset
        <5> QED
          BY <3>1, <4>1, <4>4, <4>6, <5>1 DEF HasWorkers
      <4> QED
        BY <4>1, <4>4, <4>5, <4>6
    <3> QED
      BY <3>2, <3>3
  <2>2. new = [i \in 1 .. n |-> new[i]]
    BY DEF Renumbered
  <2> HIDE DEF new
  <2>3. n \in Nat /\ \A i \in 1 .. n : new[i] \in ServerNode
    BY <1>3, <2>1
  <2> HIDE DEF n
  <2>4. new \in Seq(ServerNode) /\ Len(new) = n
    BY <2>2, <2>3
  <2> QED
    BY <2>1, <2>4
<1>10. WorkersBefore(list, s, n) = FirstID(n) /\ FirstID(n) \in Nat
  <2>1. n \in 0 .. n /\ n \in Nat \ {0} /\ ~ (n < at)
    BY <1>3, <1>7
  <2> QED
    BY <1>8, <2>1, FirstIDValue DEF Offset
<1>11. /\ nodes'[l] = new /\ pc'[c] = "last" /\ call'[c] = call[c]
       /\ loc'[c].at = at /\ loc'[c].total = FirstID(n) /\ loc'[c].victim = s
       /\ loc'[c].i = loc[c].i /\ loc'[c].vc = loc[c].vc
       /\ loc'[c] \in Local
       /\ \A d \in Callers \ {c} : Rests(d)
  <2>1. nodes'[l] = new /\ pc'[c] = "last" /\ call'[c] = call[c]
    BY <1>2, <1>3, <1>4
  <2>2. loc'[c] = [[loc[c] EXCEPT !.at = at] EXCEPT !.total = FirstID(n)] /\ loc[c] \in Local
    BY <1>3, <1>4, <1>10
  <2>3. \A d \in Callers \ {c} : Rests(d)
    BY <1>3, <1>4 DEF Rests
  <2>4. at \in Nat /\ FirstID(n) \in Nat
    BY <1>3, <1>7, <1>10
  <2>5. /\ loc'[c].at = at /\ loc'[c].total = FirstID(n) /\ loc'[c].victim = s
        /\ loc'[c].i = loc[c].i /\ loc'[c].vc = loc[c].vc /\ loc'[c] \in Local
    BY <2>2, <2>4 DEF Local
  <2> QED
    BY <2>1, <2>3, <2>5
<1>12. TypeOK'
  <2>1. /\ nodes' \in [Leaves -> Seq(ServerNode)] /\ pc' \in [Callers -> Labels]
        /\ loc' \in [Callers -> Local]
    BY <1>3, <1>4, <1>9, <1>11 DEF Labels
  <2> QED
    BY <1>4, <2>1 DEF IInv, TypeOK
<1> HIDE DEF new
<1>13. LocksOK'
  <2>1. ASSUME NEW d \in Callers
        PROVE  /\ topoLock' = d <=> pc'[d] \in {"last", "slice", "cutLeaf"}
               /\ \A m \in Leaves : leafLock'[m] = d <=> pc'[d] = "numberServer" /\ K(d)'.leaf = m
    <3>1. /\ topoLock = d <=> pc[d] \in {"last", "slice", "cutLeaf"}
          /\ \A m \in Leaves : leafLock[m] = d <=> pc[d] = "numberServer" /\ K(d).leaf = m
      BY DEF IInv, LocksOK
    <3>2. K(d)' = K(d) /\ d # None
      BY <1>4, NoneIsNobody DEF K
    <3>3. CASE d = c
      BY <1>1, <1>4, <1>11, <3>1, <3>2, <3>3
    <3>4. CASE d # c
      BY <1>1, <1>3, <1>4, <3>1, <3>2, <3>4
    <3> QED
      BY <3>3, <3>4
  <2> QED
    BY <2>1 DEF LocksOK
<1>14. SpineOK'
  <2>1. {topoLock, topoLock'} \subseteq {None, c}
    BY <1>1, <1>4
  <2>2. UNCHANGED <<spineLeaves, index, leaves>>
    BY <1>4
  <2> QED
    BY <1>1, <1>11, <2>1, <2>2, SpineKeeps
<1>15. ASSUME NEW m \in Leaves
       PROVE  ServersOK(m)' /\ NumbersOK(m)'
  <2>1. CASE m # l
    <3>1. leafLock[m] # c /\ ~IsRenumbered(m)
      BY <1>1, HoldersOfLocks, NoneIsNobody DEF IsRenumbered
    <3>2. ~IsRenumbered(m)'
      BY <1>4, <2>1 DEF IsRenumbered, K
    <3> QED
      BY <1>3, <1>4, <1>11, <2>1, <3>1, <3>2, LeafKeeps
  <2>2. CASE m = l
    <3>1. /\ nodes'[m] = new /\ leafLock'[m] = None /\ topoLock' = c /\ c # None
          /\ leafLast'[m] = leafLast[m] /\ K(c)'.leaf = m
      BY <1>2, <1>4, <1>11, <2>2, NoneIsNobody DEF K
    <3>2. IsRenumbered(m)'
      BY <1>11, <3>1 DEF IsRenumbered, K
    <3>3. Gap(m)' = at /\ Count(m)' = n
      BY <1>9, <1>11, <3>1, <3>2 DEF Gap, Count
    <3>4. Canonical(nodes'[m], n, at)
      BY <1>7, <1>9, <3>1 DEF Canonical
    <3>5. NumbersOK(m)'
      BY <1>6, <1>7, <1>9, <1>11, <2>2, <3>1, <3>2, <3>3, <3>4 DEF NumbersOK
    <3>6. \A t \in Servers : t \in IdsOf(new) <=> parent[t] = l
      <4>1. ASSUME NEW t \in Servers
            PROVE  t \in IdsOf(new) <=> t \in IdsOf(list)
        <5>1. t \in IdsOf(list) <=> \E i \in 1 .. n : list[i].id = t
          BY <1>3, IdsValue
        <5>2. t \in IdsOf(new) <=> \E i \in 1 .. n : new[i].id = t
          BY <1>9, IdsValue
        <5> QED
          BY <1>9, <5>1, <5>2
      <4> QED
        BY <1>6, <4>1
    <3>7. \A i, j \in 1 .. n : new[i].id = new[j].id => i = j
      BY <1>6, <1>9
    <3>8. ServersOK(m)'
      BY <1>2, <1>4, <1>9, <2>2, <3>1, <3>6, <3>7 DEF ServersOK
    <3> QED
      BY <3>5, <3>8
  <2> QED
    BY <2>1, <2>2
<1>16. ASSUME NEW d \in Callers
       PROVE  CallerOK(d)' /\ (call'[d] # None => TreeCallOK(d)')
  <2>1. CASE d = c
    <3>1. CallerOK(c)
      BY DEF IInv
    <3>2. CallerOK(c)'
      BY <1>1, <1>2, <1>11, <3>1 DEF CallerOK, Stages, K, Removing
    <3>3. TreeCallOK(c)'
      BY <1>1, <1>2, <1>4, <1>11 DEF TreeCallOK, K, Removing
    <3> QED
      BY <2>1, <3>2, <3>3
  <2>2. CASE d # c
    <3>1. CallerOK(d)' /\ K(d)' = K(d) /\ (call[d] # None => TreeCallOK(d)) /\ Rests(d)
      BY <1>11, <2>2, OthersKeep
    <3>2. ASSUME call[d] # None, K(d).op = "FailLeaf"
          PROVE  nodes'[K(d).leaf] = nodes[K(d).leaf]
      <4>1. K(d).leaf # l
        BY <1>1, <2>2, <3>2, RemoverAndOthers DEF Removing
      <4> QED
        BY <1>3, <1>4, <4>1
    <3> QED
      BY <1>4, <3>1, <3>2 DEF TreeCallOK, Rests
  <2> QED
    BY <2>1, <2>2
<1>17. \A d, e \in Callers : d # e => Apart(d, e)'
  BY <1>11, CallsKeepApart
<1> QED
  BY <1>1, <1>4, <1>12, <1>13, <1>14, <1>15, <1>16, <1>17 DEF IInv

\* while RemoveServer is between its loop and the end
LEMMA BeingRenumbered ==
  ASSUME IInv, NEW c \in Callers, pc[c] \in {"last", "slice"}
  PROVE  /\ topoLock = c /\ c # None /\ \A m \in Leaves : IsRenumbered(m) <=> m = K(c).leaf
         /\ nodes[K(c).leaf] \in Seq(ServerNode)
         /\ loc[c].at \in 1 .. Len(nodes[K(c).leaf])
         /\ nodes[K(c).leaf][loc[c].at].id = loc[c].victim
         /\ loc[c].total = FirstID(Len(nodes[K(c).leaf]))
         /\ Canonical(nodes[K(c).leaf], Len(nodes[K(c).leaf]), loc[c].at)
         /\ \A i, j \in 1 .. Len(nodes[K(c).leaf]) :
              nodes[K(c).leaf][i].id = nodes[K(c).leaf][j].id => i = j
         /\ \A t \in Servers : t \in IdsOf(nodes[K(c).leaf]) <=> parent[t] = K(c).leaf
         /\ leafLast[K(c).leaf] = EndOf(IF pc[c] = "slice" THEN Len(nodes[K(c).leaf]) - 1
                                         ELSE Len(nodes[K(c).leaf]))
<1>1. topoLock = c /\ c # None
  BY NoneIsNobody DEF IInv, LocksOK
<1>2. /\ K(c).leaf \in Leaves /\ K(c).leaf \in leaves /\ leafLock[K(c).leaf] = None
  BY Remover DEF Removing
<1>3. \A m \in Leaves : IsRenumbered(m) <=> m = K(c).leaf
  BY <1>1 DEF IsRenumbered
<1>4. PICK l \in Leaves : l = K(c).leaf
  BY <1>2
<1>5. ServersOK(l) /\ NumbersOK(l) /\ nodes[l] \in Seq(ServerNode)
  BY DEF IInv, TypeOK
<1>6. IsRenumbered(l) /\ Gap(l) = loc[c].at /\ Count(l) = Len(nodes[l])
  BY <1>1, <1>2, <1>3, <1>4 DEF Gap, Count
<1>7. /\ loc[c].at \in 1 .. Len(nodes[l])
      /\ nodes[l][loc[c].at].id = loc[c].victim
      /\ loc[c].total = FirstID(Len(nodes[l]))
      /\ Canonical(nodes[l], Len(nodes[l]), loc[c].at)
      /\ leafLast[l] = EndOf(IF pc[c] = "slice" THEN Len(nodes[l]) - 1 ELSE Len(nodes[l]))
  BY <1>1, <1>2, <1>4, <1>5, <1>6 DEF NumbersOK
<1>8. /\ \A i, j \in 1 .. Len(nodes[l]) : nodes[l][i].id = nodes[l][j].id => i = j
      /\ \A t \in Servers : t \in IdsOf(nodes[l]) <=> parent[t] = l
  BY <1>2, <1>4, <1>5 DEF ServersOK
<1> QED
  BY <1>1, <1>3, <1>4, <1>5, <1>7, <1>8

LEMMA SetLeafLastKeeps ==
  ASSUME IInv, NEW c \in Callers, SetLeafLast(c)
  PROVE  IInv'
<1>1. pc[c] = "last" /\ up
  BY DEF SetLeafLast, At
<1>2. PICK l \in Leaves :
        /\ l = K(c).leaf /\ call[c] # None /\ TreeCallOK(c) /\ K(c).op \in {"FailServer", "FailLeaf"}
        /\ l \in leaves /\ leafLock[l] = None
  BY <1>1, Remover DEF Removing
<1> DEFINE n == Len(nodes[l])
           last == IF loc[c].total = 0 THEN 0 ELSE loc[c].total - 1
<1>3. /\ topoLock = c /\ c # None /\ \A m \in Leaves : IsRenumbered(m) <=> m = l
      /\ n \in Nat \ {0} /\ loc[c].at \in 1 .. n /\ nodes[l][loc[c].at].id = loc[c].victim
      /\ loc[c].total = FirstID(n) /\ Canonical(nodes[l], n, loc[c].at)
  BY <1>1, <1>2, BeingRenumbered
<1>4. /\ leafLast \in [Leaves -> Nat] /\ pc \in [Callers -> Labels]
  BY DEF IInv, TypeOK
<1>5. /\ leafLast' = [leafLast EXCEPT ![l] = last]
      /\ pc' = [pc EXCEPT ![c] = "slice"]
      /\ UNCHANGED <<up, spineLeaves, index, leaves, nodes, parent, topoLock, leafLock, call, calls, loc>>
      /\ UNCHANGED <<vcs, vcServers, vcLeaves, serverVCs, leafVCs>>
  BY <1>2 DEF SetLeafLast, Goto, books, locks
<1>6. last = EndOf(n - 1) /\ last \in Nat
  <2>1. n - 1 \in Nat /\ (n - 1) + 1 = n
    BY <1>3
  <2> HIDE DEF n
  <2> QED
    BY <1>3, <2>1, EndOfValue
<1>7. pc'[c] = "slice" /\ leafLast'[l] = last /\ K(c)' = K(c) /\ \A d \in Callers \ {c} : Rests(d)
  BY <1>2, <1>4, <1>5 DEF Rests, K
<1> HIDE DEF last
<1>8. TypeOK'
  BY <1>4, <1>5, <1>6 DEF IInv, TypeOK, Labels
<1>9. LocksOK'
  <2>1. ASSUME NEW d \in Callers
        PROVE  /\ topoLock' = d <=> pc'[d] \in {"last", "slice", "cutLeaf"}
               /\ \A m \in Leaves : leafLock'[m] = d <=> pc'[d] = "numberServer" /\ K(d)'.leaf = m
    <3>1. /\ topoLock = d <=> pc[d] \in {"last", "slice", "cutLeaf"}
          /\ \A m \in Leaves : leafLock[m] = d <=> pc[d] = "numberServer" /\ K(d).leaf = m
      BY DEF IInv, LocksOK
    <3>2. K(d)' = K(d)
      BY <1>5 DEF K
    <3> QED
      BY <1>1, <1>4, <1>5, <3>1, <3>2
  <2> QED
    BY <2>1 DEF LocksOK
<1>10. SpineOK'
  BY <1>1, <1>5, <1>7, SpineKeeps
<1>11. ASSUME NEW m \in Leaves
       PROVE  ServersOK(m)' /\ NumbersOK(m)'
  <2>1. leafLock[m] # c
    BY <1>1, HoldersOfLocks, NoneIsNobody
  <2>2. CASE m # l
    <3>1. ~IsRenumbered(m) /\ ~IsRenumbered(m)'
      BY <1>2, <1>3, <1>5, <1>7, <2>2 DEF IsRenumbered
    <3>2. leafLast'[m] = leafLast[m]
      BY <1>4, <1>5, <2>2
    <3> QED
      BY <1>5, <1>7, <2>1, <3>1, <3>2, LeafKeeps
  <2>3. CASE m = l
    <3>1. ServersOK(m) /\ leafLock'[m] = None
      BY <1>2, <1>5, <2>3 DEF IInv
    <3>2. ServersOK(m)'
      BY <1>5, <2>3, <3>1 DEF ServersOK
    <3>3. IsRenumbered(m)'
      BY <1>2, <1>3, <1>5, <1>7, <2>3 DEF IsRenumbered, K
    <3>4. Gap(m)' = loc[c].at /\ Count(m)' = n
      BY <1>3, <1>5, <2>3, <3>1, <3>3 DEF Gap, Count
    <3> QED
      BY <1>3, <1>5, <1>6, <1>7, <2>3, <3>2, <3>3, <3>4 DEF NumbersOK
  <2> QED
    BY <2>2, <2>3
<1>12. ASSUME NEW d \in Callers
       PROVE  CallerOK(d)' /\ (call'[d] # None => TreeCallOK(d)')
  <2>1. CASE d = c
    <3>1. CallerOK(c) /\ call'[c] = call[c] /\ loc'[c] = loc[c]
      BY <1>5 DEF IInv
    <3>2. CallerOK(c)'
      BY <1>1, <1>2, <1>7, <3>1 DEF CallerOK, Stages, K, Removing
    <3>3. TreeCallOK(c)'
      BY <1>1, <1>2, <1>5, <1>7, <3>1 DEF TreeCallOK, K, Removing
    <3> QED
      BY <2>1, <3>2, <3>3
  <2>2. CASE d # c
    <3>1. CallerOK(d)' /\ K(d)' = K(d) /\ (call[d] # None => TreeCallOK(d)) /\ Rests(d)
      BY <1>7, <2>2, OthersKeep
    <3> QED
      BY <1>5, <3>1 DEF TreeCallOK, Rests
  <2> QED
    BY <2>1, <2>2
<1>13. \A d, e \in Callers : d # e => Apart(d, e)'
  BY <1>5, <1>7, CallsKeepApart
<1> QED
  BY <1>1, <1>5, <1>8, <1>9, <1>10, <1>11, <1>12, <1>13 DEF IInv

LEMMA NoLocalsType == NoLocals \in Local
BY DEF NoLocals, Local

\* the servers behind the removed one are where their IDs belong
LEMMA ListWithoutServer ==
  ASSUME NEW list \in Seq(ServerNode), NEW at \in 1 .. Len(list),
         Canonical(list, Len(list), at),
         \A i, j \in 1 .. Len(list) : list[i].id = list[j].id => i = j
  PROVE  LET new == RemoveAt(list, at) IN
         /\ new \in Seq(ServerNode) /\ Len(new) = Len(list) - 1
         /\ Canonical(new, Len(list) - 1, 0)
         /\ \A i, j \in 1 .. Len(new) : new[i].id = new[j].id => i = j
         /\ \A t : t \in IdsOf(new) <=> t \in IdsOf(list) /\ t # list[at].id
<1> DEFINE new == RemoveAt(list, at)
           n == Len(list)
           Old(i) == IF i < at THEN i ELSE i + 1
<1>1. /\ new \in Seq(ServerNode) /\ Len(new) = n - 1 /\ n \in Nat
      /\ \A i \in 1 .. n - 1 : new[i] = IF i < at THEN list[i] ELSE list[i + 1]
  BY RemoveAtValue
<1>2. \A i \in 1 .. n - 1 : /\ Old(i) \in 1 .. n /\ Old(i) # at /\ new[i] = list[Old(i)]
                            /\ i = IF at # 0 /\ Old(i) > at THEN Old(i) - 1 ELSE Old(i)
  BY <1>1
<1>3. \A i, j \in 1 .. n - 1 : Old(i) = Old(j) => i = j
  BY <1>1
<1>4. \A k \in 1 .. n : k # at => \E i \in 1 .. n - 1 : Old(i) = k
  <2> SUFFICES ASSUME NEW k \in 1 .. n, k # at
               PROVE  \E i \in 1 .. n - 1 : Old(i) = k
    OBVIOUS
  <2>1. CASE k < at
    <3>1. k \in 1 .. n - 1 /\ Old(k) = k
      BY <1>1, <2>1
    <3> QED
      BY <3>1
  <2>2. CASE k > at
    <3>1. k - 1 \in 1 .. n - 1 /\ Old(k - 1) = k
      BY <1>1, <2>2
    <3> QED
      BY <3>1
  <2> QED
    BY <1>1, <2>1, <2>2
<1> HIDE DEF new, Old
<1>5. Canonical(new, n - 1, 0)
  <2> SUFFICES ASSUME NEW i \in 1 .. n - 1
               PROVE  HasWorkers(new[i], i)
    BY DEF Canonical
  <2>1. HasWorkers(list[Old(i)], IF at # 0 /\ Old(i) > at THEN Old(i) - 1 ELSE Old(i))
    BY <1>2 DEF Canonical
  <2>2. i = IF at # 0 /\ Old(i) > at THEN Old(i) - 1 ELSE Old(i)
    BY <1>2
  <2> QED
    BY <1>2, <2>1, <2>2
<1>6. ASSUME NEW i \in 1 .. n - 1, NEW j \in 1 .. n - 1, new[i].id = new[j].id
      PROVE  i = j
  <2>1. /\ Old(i) \in 1 .. Len(list) /\ new[i] = list[Old(i)]
        /\ Old(j) \in 1 .. Len(list) /\ new[j] = list[Old(j)]
    BY <1>2
  <2>2. Old(i) = Old(j)
    BY <1>6, <2>1
  <2> QED
    BY <1>3, <2>2
<1>7. ASSUME NEW t
      PROVE  t \in IdsOf(new) <=> t \in IdsOf(list) /\ t # list[at].id
  <2>1. t \in IdsOf(new) <=> \E i \in 1 .. n - 1 : new[i].id = t
    BY <1>1, IdsValue
  <2>2. t \in IdsOf(list) <=> \E i \in 1 .. n : list[i].id = t
    BY IdsValue
  <2>3. \A k \in 1 .. n : k # at => list[k].id # list[at].id
    OBVIOUS
  <2>4. ASSUME NEW i \in 1 .. n - 1, new[i].id = t
        PROVE  t \in IdsOf(list) /\ t # list[at].id
    <3>1. Old(i) \in 1 .. n /\ Old(i) # at /\ new[i] = list[Old(i)]
      BY <1>2
    <3> QED
      BY <2>2, <2>3, <2>4, <3>1
  <2>5. ASSUME NEW k \in 1 .. n, list[k].id = t, t # list[at].id
        PROVE  t \in IdsOf(new)
    <3>1. PICK i \in 1 .. n - 1 : Old(i) = k
      BY <1>4, <2>5
    <3>2. new[i] = list[k]
      BY <1>2, <3>1
    <3> QED
      BY <2>1, <2>5, <3>2
  <2> HIDE DEF n
  <2> QED
    BY <2>1, <2>2, <2>4, <2>5
<1> QED
  BY <1>1, <1>5, <1>6, <1>7 DEF new

LEMMA SliceServerKeeps ==
  ASSUME IInv, NEW c \in Callers, SliceServer(c)
  PROVE  IInv'
<1>1. pc[c] = "slice" /\ up
  BY DEF SliceServer, At
<1>2. PICK l \in Leaves, s \in Servers :
        /\ l = K(c).leaf /\ s = loc[c].victim
        /\ call[c] # None /\ TreeCallOK(c) /\ K(c).op \in {"FailServer", "FailLeaf"}
        /\ l \in leaves /\ leafLock[l] = None /\ parent[s] = l
  BY <1>1, Remover DEF Removing
<1> DEFINE list == nodes[l]
           n == Len(list)
           at == loc[c].at
           new == RemoveAt(list, at)
<1>3. /\ topoLock = c /\ c # None /\ \A m \in Leaves : IsRenumbered(m) <=> m = l
      /\ list \in Seq(ServerNode) /\ n \in Nat \ {0} /\ at \in 1 .. n /\ at # 0 /\ list[at].id = s
      /\ Canonical(list, n, at)
      /\ \A i, j \in 1 .. n : list[i].id = list[j].id => i = j
      /\ \A t \in Servers : t \in IdsOf(list) <=> parent[t] = l
      /\ leafLast[l] = EndOf(n - 1)
  <2>1. /\ topoLock = c /\ c # None /\ \A m \in Leaves : IsRenumbered(m) <=> m = l
        /\ list \in Seq(ServerNode) /\ at \in 1 .. n /\ list[at].id = s
        /\ Canonical(list, n, at)
        /\ \A i, j \in 1 .. n : list[i].id = list[j].id => i = j
        /\ \A t \in Servers : t \in IdsOf(list) <=> parent[t] = l
        /\ leafLast[l] = EndOf(n - 1)
    BY <1>1, <1>2, BeingRenumbered
  <2>2. n \in Nat
    BY <2>1
  <2> HIDE DEF n
  <2> QED
    BY <2>1, <2>2
<1>4. /\ nodes \in [Leaves -> Seq(ServerNode)] /\ parent \in [Servers -> Leaves \cup {None}]
      /\ pc \in [Callers -> Labels] /\ call \in [Callers -> Served \cup {None}]
      /\ loc \in [Callers -> Local]
  BY DEF IInv, TypeOK
<1>5. /\ nodes' = [nodes EXCEPT ![l] = new]
      /\ parent' = [parent EXCEPT ![s] = None]
      /\ topoLock' = None
      /\ loc' = [loc EXCEPT ![c] = NoLocals]
      /\ \/ /\ K(c).op = "FailServer"
            /\ pc' = [pc EXCEPT ![c] = "idle"] /\ call' = [call EXCEPT ![c] = None]
         \/ /\ K(c).op = "FailLeaf"
            /\ pc' = [pc EXCEPT ![c] = "drain"] /\ call' = call
      /\ UNCHANGED <<up, spineLeaves, index, leaves, leafLast, leafLock, calls>>
      /\ UNCHANGED <<vcs, vcServers, vcLeaves, serverVCs, leafVCs>>
  BY <1>2, <1>3 DEF SliceServer, AfterRemoveServer, Return, Goto, Unlocked, books
<1>6. /\ new \in Seq(ServerNode) /\ Len(new) = n - 1
      /\ Canonical(new, n - 1, 0)
      /\ \A i, j \in 1 .. Len(new) : new[i].id = new[j].id => i = j
      /\ \A t : t \in IdsOf(new) <=> t \in IdsOf(list) /\ t # s
  <2>1. PICK seq \in Seq(ServerNode) : seq = list
    BY <1>3
  <2>2. PICK k \in 1 .. Len(seq) : seq = list /\ k = at
    BY <1>3, <2>1
  <2>3. Canonical(seq, Len(seq), k)
    BY <1>3, <2>2
  <2>4. \A i, j \in 1 .. Len(seq) : seq[i].id = seq[j].id => i = j
    BY <1>3, <2>2
  <2>5. /\ RemoveAt(seq, k) \in Seq(ServerNode) /\ Len(RemoveAt(seq, k)) = Len(seq) - 1
        /\ Canonical(RemoveAt(seq, k), Len(seq) - 1, 0)
        /\ \A i, j \in 1 .. Len(RemoveAt(seq, k)) :
             RemoveAt(seq, k)[i].id = RemoveAt(seq, k)[j].id => i = j
        /\ \A t : t \in IdsOf(RemoveAt(seq, k)) <=> t \in IdsOf(seq) /\ t # seq[k].id
    BY <2>3, <2>4, ListWithoutServer
  <2>6. new = RemoveAt(seq, k) /\ n = Len(seq) /\ seq[k].id = s /\ IdsOf(seq) = IdsOf(list)
    BY <1>3, <2>2
  <2> HIDE DEF new, n, list, at
  <2>7. /\ new \in Seq(ServerNode) /\ Len(new) = n - 1 /\ Canonical(new, n - 1, 0)
        /\ \A i, j \in 1 .. Len(new) : new[i].id = new[j].id => i = j
    BY <2>5, <2>6
  <2>8. ASSUME NEW t
        PROVE  t \in IdsOf(new) <=> t \in IdsOf(list) /\ t # s
    BY <2>5, <2>6
  <2> QED
    BY <2>7, <2>8
<1>7. /\ nodes'[l] = new /\ parent'[s] = None /\ \A t \in Servers : t # s => parent'[t] = parent[t]
      /\ \A m \in Leaves : m # l => nodes'[m] = nodes[m]
      /\ loc'[c] = NoLocals
  BY <1>4, <1>5
<1> HIDE DEF new, list, n
<1>8. /\ call'[c] = call[c] \/ call'[c] = None
      /\ \/ pc'[c] = "idle" /\ call'[c] = None
         \/ pc'[c] = "drain" /\ call'[c] = call[c] /\ K(c).op = "FailLeaf"
      /\ \A d \in Callers \ {c} : Rests(d)
  <2>1. \A d \in Callers \ {c} : loc'[d] = loc[d]
    BY <1>4, <1>5
  <2>2. CASE /\ pc' = [pc EXCEPT ![c] = "idle"] /\ call' = [call EXCEPT ![c] = None]
    <3>1. \A d \in Callers \ {c} : pc'[d] = pc[d] /\ call'[d] = call[d]
      BY <1>4, <2>2
    <3>2. pc'[c] = "idle" /\ call'[c] = None
      BY <1>4, <2>2
    <3> QED
      BY <2>1, <3>1, <3>2 DEF Rests
  <2>3. CASE /\ K(c).op = "FailLeaf"
             /\ pc' = [pc EXCEPT ![c] = "drain"] /\ call' = call
    BY <1>4, <2>1, <2>3 DEF Rests
  <2> QED
    BY <1>5, <2>2, <2>3
<1>9. TypeOK'
  <2>1. /\ nodes' \in [Leaves -> Seq(ServerNode)] /\ parent' \in [Servers -> Leaves \cup {None}]
        /\ loc' \in [Callers -> Local]
    BY <1>4, <1>5, <1>6, NoLocalsType
  <2>2. pc' \in [Callers -> Labels] /\ call' \in [Callers -> Served \cup {None}]
    BY <1>4, <1>5 DEF Labels
  <2> QED
    BY <1>5, <2>1, <2>2 DEF IInv, TypeOK
<1>10. LocksOK'
  <2>1. ASSUME NEW d \in Callers
        PROVE  /\ topoLock' = d <=> pc'[d] \in {"last", "slice", "cutLeaf"}
               /\ \A m \in Leaves : leafLock'[m] = d <=> pc'[d] = "numberServer" /\ K(d)'.leaf = m
    <3>1. /\ topoLock = d <=> pc[d] \in {"last", "slice", "cutLeaf"}
          /\ \A m \in Leaves : leafLock[m] = d <=> pc[d] = "numberServer" /\ K(d).leaf = m
          /\ d # None
      BY NoneIsNobody DEF IInv, LocksOK
    <3>2. CASE d = c
      BY <1>1, <1>3, <1>5, <1>8, <3>1, <3>2
    <3>3. CASE d # c
      <4>1. K(d)' = K(d) /\ pc'[d] = pc[d]
        BY <1>8, <3>3 DEF Rests, K
      <4> QED
        BY <1>3, <1>5, <3>1, <3>3, <4>1
    <3> QED
      BY <3>2, <3>3
  <2> QED
    BY <2>1 DEF LocksOK
<1>11. SpineOK'
  <2>1. {topoLock, topoLock'} \subseteq {None, c} /\ UNCHANGED <<spineLeaves, index, leaves>>
    BY <1>3, <1>5
  <2> QED
    BY <1>1, <1>8, <2>1, SpineKeeps
<1>12. ASSUME NEW m \in Leaves
       PROVE  ServersOK(m)' /\ NumbersOK(m)'
  <2>1. leafLock[m] # c /\ ~IsRenumbered(m)'
    BY <1>1, <1>5, HoldersOfLocks, NoneIsNobody DEF IsRenumbered
  <2>2. CASE m # l
    <3>1. \A t \in Servers : parent'[t] = m <=> parent[t] = m
      BY <1>2, <1>7, <2>2, NoneIsNobody
    <3> QED
      BY <1>3, <1>5, <1>7, <1>8, <2>1, <2>2, <3>1, LeafKeeps
  <2>3. CASE m = l
    <3>1. \A t \in Servers : t \in IdsOf(nodes'[m]) <=> parent'[t] = m
      BY <1>3, <1>6, <1>7, <2>3, NoneIsNobody
    <3>2. leafLock'[m] = None /\ nodes'[m] = new /\ leafLast'[m] = leafLast[l]
      BY <1>2, <1>5, <1>7, <2>3
    <3>3. ServersOK(m)'
      BY <1>2, <1>5, <1>6, <2>3, <3>1, <3>2 DEF ServersOK
    <3>4. Gap(m)' = 0 /\ Count(m)' = n - 1
      BY <1>6, <2>1, <3>2 DEF Gap, Count
    <3>5. NumbersOK(m)'
      BY <1>3, <1>6, <2>1, <3>2, <3>4 DEF NumbersOK
    <3> QED
      BY <3>3, <3>5
  <2> QED
    BY <2>2, <2>3
<1>13. ASSUME NEW d \in Callers
       PROVE  CallerOK(d)' /\ (call'[d] # None => TreeCallOK(d)')
  <2>1. CASE d = c
    <3>1. CASE pc'[c] = "idle" /\ call'[c] = None
      BY <2>1, <3>1 DEF CallerOK, Removing
    <3>2. CASE pc'[c] = "drain" /\ call'[c] = call[c] /\ K(c).op = "FailLeaf"
      <4>1. CallerOK(c)'
        BY <1>2, <3>2 DEF CallerOK, Stages, K, Removing
      <4>2. \A t \in Servers : parent'[t] = l => parent[t] = l
        BY <1>2, <1>7, NoneIsNobody
      <4>3. TreeCallOK(c)'
        BY <1>2, <1>5, <3>2, <4>2 DEF TreeCallOK, K, Removing
      <4> QED
        BY <2>1, <4>1, <4>3
    <3> QED
      BY <1>8, <3>1, <3>2
  <2>2. CASE d # c
    <3>1. CallerOK(d)' /\ K(d)' = K(d) /\ (call[d] # None => TreeCallOK(d)) /\ Rests(d)
      BY <1>8, <2>2, OthersKeep
    <3>2. call[d] # None => TreeCallOK(d)'
      <4> SUFFICES ASSUME call[d] # None PROVE TreeCallOK(d)'
        OBVIOUS
      <4>1. TreeCallOK(d) /\ K(d) \in Call /\ CallerOK(d)
        BY <3>1, InCall DEF IInv, CallerOK
      <4>2. CASE K(d).op = "AddLeaf"
        BY <1>5, <3>1, <4>1, <4>2 DEF TreeCallOK, Rests
      <4>3. CASE K(d).op \in {"AddServer", "FailServer"}
        <5>1. K(d).server # s
          BY <1>1, <1>2, <2>2, <4>3, RemoverAndOthers DEF Removing
        <5>2. parent'[K(d).server] = parent[K(d).server]
          BY <1>7, <4>1, <4>3, <5>1, CallFields
        <5> QED
          BY <1>5, <3>1, <4>1, <4>3, <5>2 DEF TreeCallOK, Rests
      <4>4. CASE K(d).op = "FailLeaf"
        <5>1. K(d).leaf # l /\ K(d).leaf \in Leaves /\ K(d).leaf # None
          BY <1>1, <1>2, <2>2, <4>1, <4>4, RemoverAndOthers, CallFields, NoneIsNobody DEF Removing, TreeOps
        <5>2. \A t \in Servers : parent'[t] = K(d).leaf <=> parent[t] = K(d).leaf
          BY <1>2, <1>7, <5>1
        <5>3. pc[d] \in Removing => loc[d].victim \in Servers
          BY <4>1 DEF CallerOK
        <5>4. nodes'[K(d).leaf] = nodes[K(d).leaf]
          BY <1>7, <5>1
        <5> QED
          BY <1>5, <3>1, <4>1, <4>4, <5>2, <5>3, <5>4 DEF TreeCallOK, Rests
      <4>5. CASE K(d).op \in {"AddVC", "RemoveVC"}
        BY <3>1, <4>5 DEF TreeCallOK
      <4> QED
        BY <4>1, <4>2, <4>3, <4>4, <4>5, CallFields DEF TreeOps
    <3> QED
      BY <3>1, <3>2 DEF Rests
  <2> QED
    BY <2>1, <2>2
<1>14. \A d, e \in Callers : d # e => Apart(d, e)'
  BY <1>8, CallsKeepApart
<1> QED
  BY <1>1, <1>5, <1>9, <1>10, <1>11, <1>12, <1>13, <1>14 DEF IInv

-----------------------------------------------------------------------------
(* The end of RemoveLeaf.                                                  *)

LEMMA PlaceInSpineValue ==
  ASSUME IInv, NEW l \in Leaves
  PROVE  /\ PlaceInSpine(l) \in 0 .. Len(spineLeaves) /\ Len(spineLeaves) \in Nat
         /\ PlaceInSpine(l) = 0 <=> l \notin Range(spineLeaves)
         /\ PlaceInSpine(l) # 0 => spineLeaves[PlaceInSpine(l)] = l
         /\ \A i \in 1 .. Len(spineLeaves) : spineLeaves[i] = l => PlaceInSpine(l) = i
<1>1. /\ spineLeaves \in Seq(Leaves)
      /\ \A i, j \in 1 .. Len(spineLeaves) : spineLeaves[i] = spineLeaves[j] => i = j
  BY DEF IInv, TypeOK, SpineOK
<1>2. PlaceInSpine(l) = FirstPlace(spineLeaves, l)
  BY DEF PlaceInSpine, FirstPlace
<1>3. /\ FirstPlace(spineLeaves, l) \in 0 .. Len(spineLeaves)
      /\ FirstPlace(spineLeaves, l) = 0 <=> \A i \in 1 .. Len(spineLeaves) : spineLeaves[i] # l
      /\ FirstPlace(spineLeaves, l) # 0 => spineLeaves[FirstPlace(spineLeaves, l)] = l
  BY <1>1, FirstPlaceValue
<1>4. l \in Range(spineLeaves) <=> \E i \in 1 .. Len(spineLeaves) : spineLeaves[i] = l
  BY <1>1, RangeValue
<1>5. Len(spineLeaves) \in Nat
  BY <1>1
<1> QED
  BY <1>1, <1>2, <1>3, <1>4, <1>5

LEMMA LockForLeafKeeps ==
  ASSUME IInv, NEW c \in Callers, LockForLeaf(c)
  PROVE  IInv'
<1>1. pc[c] = "lockLeaf" /\ up /\ topoLock = None /\ c # None
  BY NoneIsNobody DEF LockForLeaf, At, TopoIsFree
<1>2. PICK l \in Leaves :
        /\ l = K(c).leaf /\ call[c] # None /\ TreeCallOK(c) /\ K(c).op = "FailLeaf" /\ l \in leaves
  <2>1. call[c] # None /\ TreeCallOK(c) /\ K(c).op = "FailLeaf" /\ K(c) \in Call
    BY <1>1, InCall, OpAt
  <2> QED
    BY <2>1, CallFields DEF TreeCallOK, TreeOps
<1> DEFINE k == PlaceInSpine(l)
<1>3. /\ spineLeaves \in Seq(Leaves) /\ index \in [Leaves -> Nat]
      /\ pc \in [Callers -> Labels] /\ loc \in [Callers -> Local]
  BY DEF IInv, TypeOK
<1>4. /\ Cut = 0 /\ \A i \in 1 .. Len(spineLeaves) : index[spineLeaves[i]] = i - 1
      /\ \A i, j \in 1 .. Len(spineLeaves) : spineLeaves[i] = spineLeaves[j] => i = j
  BY <1>1 DEF IInv, SpineOK, Cut
<1>5. k \in 1 .. Len(spineLeaves) /\ spineLeaves[k] = l /\ Len(spineLeaves) \in Nat /\ k # 0
  <2>1. l \in Range(spineLeaves)
    BY <1>2 DEF IInv, SpineOK
  <2> QED
    BY <2>1, PlaceInSpineValue
<1>6. /\ topoLock' = c
      /\ index' = [m \in Leaves |-> IF IsBehind(m, k) THEN index[m] - 1 ELSE index[m]]
      /\ loc' = [loc EXCEPT ![c] = [loc[c] EXCEPT !.at = k]]
      /\ pc' = [pc EXCEPT ![c] = "cutLeaf"]
      /\ UNCHANGED <<up, spineLeaves, leaves, nodes, leafLast, parent, leafLock, call, calls>>
      /\ UNCHANGED <<vcs, vcServers, vcLeaves, serverVCs, leafVCs>>
  <2>1. loc' = [loc EXCEPT ![c].at = k]
    BY <1>2, <1>5 DEF LockForLeaf
  <2>2. loc' = [loc EXCEPT ![c] = [loc[c] EXCEPT !.at = k]]
    BY <1>3, <2>1
  <2> QED
    BY <1>2, <2>2 DEF LockForLeaf, Goto, books
<1> HIDE DEF k
<1>7. /\ pc'[c] = "cutLeaf" /\ call'[c] = call[c] /\ K(c)' = K(c)
      /\ loc'[c] \in Local /\ loc'[c].at = k /\ loc'[c].i = loc[c].i /\ loc'[c].vc = loc[c].vc
      /\ \A d \in Callers \ {c} : Rests(d)
  <2>1. loc'[c] = [loc[c] EXCEPT !.at = k] /\ loc[c] \in Local /\ k \in Nat
    BY <1>3, <1>5, <1>6
  <2>2. loc'[c] \in Local /\ loc'[c].at = k /\ loc'[c].i = loc[c].i /\ loc'[c].vc = loc[c].vc
    BY <2>1 DEF Local
  <2>3. pc'[c] = "cutLeaf" /\ call'[c] = call[c] /\ K(c)' = K(c) /\ \A d \in Callers \ {c} : Rests(d)
    BY <1>3, <1>6 DEF Rests, K
  <2> QED
    BY <2>2, <2>3
<1>8. ASSUME NEW i \in 1 .. Len(spineLeaves)
      PROVE  index'[spineLeaves[i]] = IF i > k THEN i - 2 ELSE i - 1
  <2>1. spineLeaves[i] \in Leaves /\ index[spineLeaves[i]] = i - 1
    BY <1>3, <1>4
  <2>2. PlaceInSpine(spineLeaves[i]) = i
    BY <2>1, PlaceInSpineValue
  <2> QED
    BY <1>5, <1>6, <2>1, <2>2 DEF IsBehind
<1>9. TypeOK'
  <2>1. ASSUME NEW m \in Leaves, IsBehind(m, k)
        PROVE  index[m] - 1 \in Nat
    <3>1. PlaceInSpine(m) > k
      BY <2>1 DEF IsBehind
    <3>2. PlaceInSpine(m) \in 1 .. Len(spineLeaves) /\ spineLeaves[PlaceInSpine(m)] = m
      BY <1>5, <3>1, PlaceInSpineValue
    <3>3. index[m] = PlaceInSpine(m) - 1
      BY <1>4, <3>2
    <3> QED
      BY <1>5, <3>1, <3>2, <3>3
  <2>2. index' \in [Leaves -> Nat]
    BY <1>3, <1>6, <2>1
  <2>3. topoLock' \in Callers \cup {None} /\ pc' \in [Callers -> Labels] /\ loc' \in [Callers -> Local]
    BY <1>3, <1>6, <1>7 DEF Labels
  <2> QED
    BY <1>6, <2>2, <2>3 DEF IInv, TypeOK
<1>10. LocksOK'
  <2>1. ASSUME NEW d \in Callers
        PROVE  /\ topoLock' = d <=> pc'[d] \in {"last", "slice", "cutLeaf"}
               /\ \A m \in Leaves : leafLock'[m] = d <=> pc'[d] = "numberServer" /\ K(d)'.leaf = m
    <3>1. /\ topoLock = d <=> pc[d] \in {"last", "slice", "cutLeaf"}
          /\ \A m \in Leaves : leafLock[m] = d <=> pc[d] = "numberServer" /\ K(d).leaf = m
      BY DEF IInv, LocksOK
    <3>2. K(d)' = K(d) /\ d # None
      BY <1>6, NoneIsNobody DEF K
    <3>3. CASE d = c
      BY <1>1, <1>6, <1>7, <3>1, <3>2, <3>3
    <3>4. CASE d # c
      BY <1>1, <1>3, <1>6, <3>1, <3>2, <3>4
    <3> QED
      BY <3>3, <3>4
  <2> QED
    BY <2>1 DEF LocksOK
<1>11. SpineOK'
  <2>1. Cut' = k /\ topoLock' = c
    BY <1>1, <1>6, <1>7 DEF Cut
  <2>2. ASSUME NEW m \in Leaves
        PROVE  m \in Range(spineLeaves) <=>
                 m \in leaves \/ (\E d \in Callers : pc'[d] = "storeLeaf" /\ K(d)'.leaf = m)
    <3>1. m \in Range(spineLeaves) <=> m \in leaves \/ (\E d \in Callers : pc[d] = "storeLeaf" /\ K(d).leaf = m)
      BY DEF IInv, SpineOK
    <3>2. \A d \in Callers : K(d)' = K(d) /\ (pc'[d] = "storeLeaf" <=> pc[d] = "storeLeaf")
      BY <1>1, <1>3, <1>6 DEF K
    <3> QED
      BY <3>1, <3>2
  <2>3. spineLeaves' = spineLeaves /\ leaves' = leaves /\ K(topoLock)'.leaf = l
    BY <1>2, <1>6, <1>7, <2>1 DEF K
  <2> QED
    BY <1>4, <1>5, <1>8, <2>1, <2>2, <2>3 DEF SpineOK
<1>12. ASSUME NEW m \in Leaves
       PROVE  ServersOK(m)' /\ NumbersOK(m)'
  <2>1. leafLock[m] # c
    BY <1>1, HoldersOfLocks
  <2>2. ~IsRenumbered(m) /\ ~IsRenumbered(m)'
    BY <1>1, <1>6, <1>7 DEF IsRenumbered
  <2> QED
    BY <1>6, <1>7, <2>1, <2>2, LeafKeeps
<1>13. ASSUME NEW d \in Callers
       PROVE  CallerOK(d)' /\ (call'[d] # None => TreeCallOK(d)')
  <2>1. CASE d = c
    <3>1. CallerOK(c)'
      BY <1>2, <1>7 DEF CallerOK, Stages, K, Removing
    <3>2. TreeCallOK(c)'
      BY <1>1, <1>2, <1>6, <1>7 DEF TreeCallOK, Removing
    <3> QED
      BY <2>1, <3>1, <3>2
  <2>2. CASE d # c
    <3>1. CallerOK(d)' /\ K(d)' = K(d) /\ (call[d] # None => TreeCallOK(d)) /\ Rests(d)
      BY <1>7, <2>2, OthersKeep
    <3> QED
      BY <1>6, <3>1 DEF TreeCallOK, Rests
  <2> QED
    BY <2>1, <2>2
<1>14. \A d, e \in Callers : d # e => Apart(d, e)'
  BY <1>7, CallsKeepApart
<1> QED
  BY <1>1, <1>6, <1>9, <1>10, <1>11, <1>12, <1>13, <1>14 DEF IInv

\* while RemoveLeaf is between its loop and the end
LEMMA BeingCut ==
  ASSUME IInv, NEW c \in Callers, pc[c] = "cutLeaf"
  PROVE  /\ topoLock = c /\ c # None /\ Cut = loc[c].at
         /\ call[c] # None /\ TreeCallOK(c) /\ K(c).op = "FailLeaf" /\ K(c).leaf \in Leaves
         /\ K(c).leaf \in leaves /\ nodes[K(c).leaf] = <<>>
         /\ spineLeaves \in Seq(Leaves) /\ Len(spineLeaves) \in Nat
         /\ loc[c].at \in 1 .. Len(spineLeaves) /\ spineLeaves[loc[c].at] = K(c).leaf
         /\ \A d \in Callers : call[d] # None => K(d).op # "AddLeaf"
<1>1. topoLock = c /\ c # None
  BY NoneIsNobody DEF IInv, LocksOK
<1>2. /\ call[c] # None /\ TreeCallOK(c) /\ K(c).op = "FailLeaf" /\ K(c) \in Call
  BY InCall, OpAt
<1>3. /\ K(c).leaf \in Leaves /\ K(c).leaf \in leaves /\ nodes[K(c).leaf] = <<>>
  BY <1>2, CallFields DEF TreeOps, TreeCallOK
<1>4. Cut = loc[c].at /\ Cut # 0
  BY <1>1 DEF IInv, SpineOK, Cut
<1>5. Cut \in 1 .. Len(spineLeaves) /\ spineLeaves[Cut] = K(c).leaf /\ spineLeaves \in Seq(Leaves)
  BY <1>1, <1>4 DEF IInv, SpineOK, TypeOK
<1>6. ASSUME NEW d \in Callers, call[d] # None
      PROVE  K(d).op # "AddLeaf"
  <2>1. CASE d = c
    BY <1>2, <2>1
  <2>2. CASE d # c
    BY <1>2, <1>6, <2>2, Conflicts DEF TreeOps
  <2> QED
    BY <2>1, <2>2
<1>7. Len(spineLeaves) \in Nat
  BY <1>5
<1> QED
  BY <1>1, <1>2, <1>3, <1>4, <1>5, <1>6, <1>7

LEMMA CutLeafKeeps ==
  ASSUME IInv, NEW c \in Callers, CutLeaf(c)
  PROVE  IInv'
<1>1. pc[c] = "cutLeaf" /\ up
  BY DEF CutLeaf, At
<1>2. PICK l \in Leaves, k \in 1 .. Len(spineLeaves) :
        /\ l = K(c).leaf /\ k = loc[c].at /\ spineLeaves[k] = l
        /\ call[c] # None /\ K(c).op = "FailLeaf" /\ l \in leaves /\ nodes[l] = <<>>
        /\ topoLock = c /\ c # None /\ Cut = k
        /\ \A d \in Callers : call[d] # None => K(d).op # "AddLeaf"
  BY <1>1, BeingCut
<1>3. /\ spineLeaves \in Seq(Leaves) /\ Len(spineLeaves) \in Nat /\ spineLeaves # <<>>
      /\ pc \in [Callers -> Labels] /\ loc \in [Callers -> Local]
      /\ call \in [Callers -> Served \cup {None}]
  <2>1. spineLeaves \in Seq(Leaves) /\ pc \in [Callers -> Labels] /\ loc \in [Callers -> Local]
        /\ call \in [Callers -> Served \cup {None}]
    BY DEF IInv, TypeOK
  <2>2. Len(spineLeaves) \in Nat /\ (spineLeaves = <<>> => Len(spineLeaves) = 0)
    BY <2>1
  <2>3. spineLeaves # <<>>
    BY <1>2, <2>2
  <2> QED
    BY <2>1, <2>2, <2>3
<1> DEFINE n == Len(spineLeaves)
           new == RemoveAt(spineLeaves, k)
<1>4. /\ spineLeaves' = new
      /\ leaves' = leaves \ {l}
      /\ topoLock' = None
      /\ loc' = [loc EXCEPT ![c] = NoLocals]
      /\ pc' = [pc EXCEPT ![c] = "idle"] /\ call' = [call EXCEPT ![c] = None]
      /\ UNCHANGED <<up, index, nodes, leafLast, parent, leafLock, calls>>
      /\ UNCHANGED <<vcs, vcServers, vcLeaves, serverVCs, leafVCs>>
  BY <1>2, <1>3 DEF CutLeaf, Return, books
<1>5. /\ new \in Seq(Leaves) /\ Len(new) = n - 1
      /\ \A i \in 1 .. n - 1 : new[i] = IF i < k THEN spineLeaves[i] ELSE spineLeaves[i + 1]
  BY <1>3, RemoveAtValue
<1>6. /\ \A i, j \in 1 .. n : spineLeaves[i] = spineLeaves[j] => i = j
      /\ \A i \in 1 .. n : index[spineLeaves[i]] = IF i > k THEN i - 2 ELSE i - 1
  <2>1. k # 0
    OBVIOUS
  <2> QED
    BY <1>2, <2>1 DEF IInv, SpineOK
<1>7. pc'[c] = "idle" /\ call'[c] = None /\ \A d \in Callers \ {c} : Rests(d)
  BY <1>3, <1>4 DEF Rests
<1> HIDE DEF new
<1>8. TypeOK'
  <2>1. /\ spineLeaves' \in Seq(Leaves) /\ leaves' \subseteq Leaves /\ topoLock' \in Callers \cup {None}
        /\ pc' \in [Callers -> Labels] /\ loc' \in [Callers -> Local]
        /\ call' \in [Callers -> Served \cup {None}]
    BY <1>3, <1>4, <1>5, NoLocalsType DEF IInv, TypeOK, Labels
  <2> QED
    BY <1>4, <2>1 DEF IInv, TypeOK
<1>9. LocksOK'
  <2>1. ASSUME NEW d \in Callers
        PROVE  /\ topoLock' = d <=> pc'[d] \in {"last", "slice", "cutLeaf"}
               /\ \A m \in Leaves : leafLock'[m] = d <=> pc'[d] = "numberServer" /\ K(d)'.leaf = m
    <3>1. /\ topoLock = d <=> pc[d] \in {"last", "slice", "cutLeaf"}
          /\ \A m \in Leaves : leafLock[m] = d <=> pc[d] = "numberServer" /\ K(d).leaf = m
          /\ d # None
      BY NoneIsNobody DEF IInv, LocksOK
    <3>2. CASE d = c
      BY <1>1, <1>4, <1>7, <3>1, <3>2
    <3>3. CASE d # c
      <4>1. K(d)' = K(d) /\ pc'[d] = pc[d]
        BY <1>7, <3>3 DEF Rests, K
      <4> QED
        BY <1>2, <1>4, <3>1, <3>3, <4>1
    <3> QED
      BY <3>2, <3>3
  <2> QED
    BY <2>1 DEF LocksOK
<1>10. SpineOK'
  <2>1. Cut' = 0 /\ topoLock' = None
    BY <1>4 DEF Cut
  <2>2. ASSUME NEW i \in 1 .. n - 1
        PROVE  index[new[i]] = i - 1
    <3>1. CASE i < k
      <4>1. new[i] = spineLeaves[i] /\ i \in 1 .. n /\ ~ (i > k)
        BY <1>3, <1>5, <3>1
      <4> QED
        BY <1>6, <4>1
    <3>2. CASE ~ (i < k)
      <4>1. new[i] = spineLeaves[i + 1] /\ i + 1 \in 1 .. n /\ i + 1 > k /\ (i + 1) - 2 = i - 1
        BY <1>3, <1>5, <3>2
      <4> QED
        BY <1>6, <4>1
    <3> QED
      BY <3>1, <3>2
  <2>3. ASSUME NEW i \in 1 .. n - 1, NEW j \in 1 .. n - 1, new[i] = new[j]
        PROVE  i = j
    <3>1. index[new[i]] = i - 1 /\ index[new[j]] = j - 1
      BY <2>2
    <3> QED
      BY <1>3, <2>3, <3>1
  <2>4. ASSUME NEW m \in Leaves
        PROVE  m \in Range(new) <=> m \in leaves \ {l}
    <3>1. m \in Range(spineLeaves) <=> m \in leaves
      <4>1. \A d \in Callers : pc[d] # "storeLeaf"
        BY <1>2, InCall, OpAt
      <4> QED
        BY <4>1 DEF IInv, SpineOK
    <3>2. m \in Range(spineLeaves) <=> \E i \in 1 .. n : spineLeaves[i] = m
      BY <1>3, RangeValue
    <3>3. m \in Range(new) <=> \E i \in 1 .. n - 1 : new[i] = m
      BY <1>5, RangeValue
    <3>4. ASSUME NEW i \in 1 .. n - 1
          PROVE  \E j \in 1 .. n : j # k /\ new[i] = spineLeaves[j]
      <4>1. CASE i < k
        <5>1. new[i] = spineLeaves[i] /\ i \in 1 .. n /\ i # k
          BY <1>3, <1>5, <4>1
        <5> QED
          BY <5>1
      <4>2. CASE ~ (i < k)
        <5>1. new[i] = spineLeaves[i + 1] /\ i + 1 \in 1 .. n /\ i + 1 # k
          BY <1>3, <1>5, <4>2
        <5> QED
          BY <5>1
      <4> QED
        BY <4>1, <4>2
    <3>5. ASSUME NEW j \in 1 .. n, j # k
          PROVE  \E i \in 1 .. n - 1 : new[i] = spineLeaves[j]
      <4>1. CASE j < k
        <5>1. j \in 1 .. n - 1 /\ new[j] = spineLeaves[j]
          BY <1>3, <1>5, <4>1
        <5> QED
          BY <5>1
      <4>2. CASE j > k
        <5>1. j - 1 \in 1 .. n - 1 /\ ~ (j - 1 < k) /\ (j - 1) + 1 = j
          BY <1>3, <4>2
        <5>2. new[j - 1] = spineLeaves[j]
          BY <1>5, <5>1
        <5> QED
          BY <5>1, <5>2
      <4> QED
        BY <1>3, <3>5, <4>1, <4>2
    <3>6. m = l => ~ (\E i \in 1 .. n - 1 : new[i] = m)
      BY <1>2, <1>6, <3>4
    <3>7. m # l => (\E i \in 1 .. n - 1 : new[i] = m) <=> (\E i \in 1 .. n : spineLeaves[i] = m)
      <4> SUFFICES ASSUME m # l
                   PROVE  (\E i \in 1 .. n - 1 : new[i] = m) <=> (\E i \in 1 .. n : spineLeaves[i] = m)
        OBVIOUS
      <4>1. ASSUME NEW i \in 1 .. n - 1, new[i] = m
            PROVE  \E j \in 1 .. n : spineLeaves[j] = m
        BY <3>4, <4>1
      <4>2. ASSUME NEW j \in 1 .. n, spineLeaves[j] = m
            PROVE  \E i \in 1 .. n - 1 : new[i] = m
        <5>1. j # k
          BY <1>2, <4>2
        <5> QED
          BY <3>5, <4>2, <5>1
      <4> QED
        BY <4>1, <4>2
    <3> QED
      BY <3>1, <3>2, <3>3, <3>6, <3>7
  <2>5. \A d \in Callers : pc'[d] # "storeLeaf"
    <3>1. \A d \in Callers : pc[d] # "storeLeaf"
      BY <1>2, InCall, OpAt
    <3> QED
      BY <1>3, <1>4, <3>1
  <2>6. index' = index /\ spineLeaves' = new /\ leaves' = leaves \ {l}
    BY <1>4
  <2> QED
    BY <1>5, <2>1, <2>2, <2>3, <2>4, <2>5, <2>6 DEF SpineOK
<1>11. ASSUME NEW m \in Leaves
       PROVE  ServersOK(m)' /\ NumbersOK(m)'
  <2>1. leafLock[m] # c /\ ~IsRenumbered(m) /\ ~IsRenumbered(m)'
    BY <1>1, <1>2, <1>4, HoldersOfLocks DEF IsRenumbered
  <2>2. CASE m # l
    BY <1>4, <1>7, <2>1, <2>2, LeafKeeps
  <2>3. CASE m = l
    <3>1. ServersOK(m) /\ leafLock[m] = None
      BY <1>2, <2>3 DEF IInv, ServersOK
    <3>2. ServersOK(m)'
      BY <1>2, <1>4, <2>3, <3>1 DEF ServersOK
    <3>3. m \notin leaves'
      BY <1>4, <2>3
    <3> QED
      BY <2>1, <3>2, <3>3 DEF NumbersOK
  <2> QED
    BY <2>2, <2>3
<1>12. ASSUME NEW d \in Callers
       PROVE  CallerOK(d)' /\ (call'[d] # None => TreeCallOK(d)')
  <2>1. CASE d = c
    BY <1>7, <2>1 DEF CallerOK, Removing
  <2>2. CASE d # c
    <3>1. CallerOK(d)' /\ K(d)' = K(d) /\ (call[d] # None => TreeCallOK(d)) /\ Rests(d)
      BY <1>7, <2>2, OthersKeep
    <3>2. ASSUME call[d] # None, K(d).op \in TreeOps
          PROVE  K(d).leaf # l /\ K(d).op # "AddLeaf"
      BY <1>2, <2>2, <3>2, Conflicts DEF TreeOps
    <3> QED
      BY <1>4, <3>1, <3>2 DEF TreeCallOK, Rests, TreeOps
  <2> QED
    BY <2>1, <2>2
<1>13. \A d, e \in Callers : d # e => Apart(d, e)'
  BY <1>7, CallsKeepApart
<1> QED
  BY <1>1, <1>4, <1>8, <1>9, <1>10, <1>11, <1>12, <1>13 DEF IInv

-----------------------------------------------------------------------------
(* The steps that leave the tree alone.                                    *)

BooksOK ==
  /\ vcs \subseteq VCIds
  /\ vcServers \in [VCIds -> SUBSET Servers] /\ vcLeaves \in [VCIds -> SUBSET Leaves]
  /\ serverVCs \in [Servers -> Seq(VCIds)] /\ leafVCs \in [Leaves -> Seq(VCIds)]

\* the other callers keep their local variables, but for the slice
OthersLocal(c) ==
  \A d \in Callers \ {c} :
    /\ loc'[d].i = loc[d].i /\ loc'[d].vc = loc[d].vc /\ loc'[d].victim = loc[d].victim
    /\ loc'[d].at = loc[d].at /\ loc'[d].total = loc[d].total

\* what c must have read when it goes to a place of its call
MayGoTo(c, label) ==
  /\ <<K(c).op, label>> \in Stages
  /\ label \in {"scan", "drop", "shed", "detachLeaf", "dropLeaf"} => loc'[c].i > 0
  /\ label \in {"drop", "shed", "dropLeaf"} => loc'[c].vc \in VCIds
  /\ label \in Removing =>
       /\ loc'[c].victim \in Servers /\ parent[loc'[c].victim] = K(c).leaf
       /\ K(c).op = "FailServer" => loc'[c].victim = K(c).server
  /\ label = "first" => nodes[K(c).leaf] # <<>>
  /\ label = "lockLeaf" => nodes[K(c).leaf] = <<>>

LEMMA GotoKeeps ==
  ASSUME IInv, NEW c \in Callers, NEW label \in Labels \ (Unfinished \cup {"idle", "appendLeaf"}),
         pc[c] \notin Unfinished, pc[c] # "idle",
         UNCHANGED <<tree, locks>>, BooksOK', loc' \in [Callers -> Local], OthersLocal(c),
         Goto(c, label), MayGoTo(c, label)
  PROVE  IInv'
<1>1. /\ pc' = [pc EXCEPT ![c] = label] /\ UNCHANGED <<up, call, calls>>
      /\ pc \in [Callers -> Labels]
  BY DEF Goto, IInv, TypeOK
<1>2. /\ call[c] # None /\ TreeCallOK(c)
  BY InCall
<1>3. TypeOK'
  <2>1. /\ UNCHANGED <<spineLeaves, index, leaves, nodes, leafLast, parent, topoLock, leafLock>>
    BY DEF tree, locks
  <2>2. pc' \in [Callers -> Labels]
    BY <1>1
  <2> QED
    BY <1>1, <2>1, <2>2 DEF IInv, TypeOK, BooksOK
<1>4. /\ pc'[c] = label /\ call'[c] = call[c] /\ K(c)' = K(c) /\ call'[c].of = K(c)
  BY <1>1 DEF K
<1>5. \A d \in Callers \ {c} : Rests(d)
  BY <1>1 DEF Rests, OthersLocal
<1>6. leaves' = leaves /\ parent' = parent /\ nodes' = nodes
  BY DEF tree
<1>7. CallerOK(c)'
  BY <1>2, <1>4 DEF CallerOK, MayGoTo
<1>8. TreeCallOK(c)'
  <2>1. K(c).op # "AddLeaf" \/ label = "storeLeaf"
    BY DEF MayGoTo, Stages
  <2>2. label # "storeLeaf" /\ label # "cutLeaf"
    BY DEF Unfinished
  <2> QED
    BY <1>2, <1>4, <1>6, <2>1, <2>2 DEF TreeCallOK, MayGoTo
<1>9. \A d, e \in Callers : d # e => Apart(d, e)'
  BY <1>1, <1>5, CallsKeepApart
<1> QED
  BY <1>1, <1>3, <1>4, <1>5, <1>7, <1>8, <1>9, NeutralKeeps

LEMMA ReturnKeeps ==
  ASSUME IInv, NEW c \in Callers, pc[c] \notin Unfinished,
         UNCHANGED <<tree, locks>>, BooksOK', loc' \in [Callers -> Local], OthersLocal(c),
         Return(c)
  PROVE  IInv'
<1>1. /\ pc' = [pc EXCEPT ![c] = "idle"] /\ call' = [call EXCEPT ![c] = None]
      /\ UNCHANGED <<up, calls>>
      /\ pc \in [Callers -> Labels] /\ call \in [Callers -> Served \cup {None}]
  BY DEF Return, IInv, TypeOK
<1>2. TypeOK'
  <2>1. UNCHANGED <<spineLeaves, index, leaves, nodes, leafLast, parent, topoLock, leafLock>>
    BY DEF tree, locks
  <2>2. pc' \in [Callers -> Labels] /\ call' \in [Callers -> Served \cup {None}]
    BY <1>1 DEF Labels
  <2> QED
    BY <1>1, <2>1, <2>2 DEF IInv, TypeOK, BooksOK
<1>3. pc'[c] = "idle" /\ call'[c] = None
  BY <1>1
<1>4. \A d \in Callers \ {c} : Rests(d)
  BY <1>1 DEF Rests, OthersLocal
<1>5. CallerOK(c)'
  BY <1>3 DEF CallerOK, Removing
<1>6. \A d, e \in Callers : d # e => Apart(d, e)'
  BY <1>3, <1>4, CallsKeepApart
<1> QED
  BY <1>1, <1>2, <1>3, <1>4, <1>5, <1>6, NeutralKeeps DEF Unfinished

-----------------------------------------------------------------------------
(* The lists of VCs, and the slices that loops go over.                    *)

LEMMA PlaceOfValue ==
  ASSUME NEW list \in Seq(VCIds), NEW v
  PROVE  /\ PlaceOf(list, v) \in 0 .. Len(list)
         /\ PlaceOf(list, v) = 0 <=> \A i \in 1 .. Len(list) : list[i] # v
         /\ PlaceOf(list, v) # 0 => list[PlaceOf(list, v)] = v
<1>1. PlaceOf(list, v) = FirstPlace(list, v)
  BY DEF PlaceOf, FirstPlace
<1> QED
  BY <1>1, FirstPlaceValue

LEMMA UnlistedType ==
  ASSUME NEW list \in Seq(VCIds), NEW v
  PROVE  Unlisted(list, v) \in Seq(VCIds)
<1>1. PlaceOf(list, v) \in 0 .. Len(list) /\ Len(list) \in Nat
  BY PlaceOfValue
<1>2. CASE PlaceOf(list, v) = 0
  BY <1>2 DEF Unlisted
<1>3. CASE PlaceOf(list, v) # 0
  <2>1. PlaceOf(list, v) \in 1 .. Len(list)
    BY <1>1, <1>3
  <2>2. RemoveAt(list, PlaceOf(list, v)) \in Seq(VCIds)
    BY <2>1, RemoveAtValue
  <2> QED
    BY <1>3, <2>2 DEF Unlisted
<1> QED
  BY <1>2, <1>3

LEMMA MovedDownType ==
  ASSUME NEW slice \in Seq(VCIds), NEW list \in Seq(VCIds), NEW v
  PROVE  MovedDown(slice, list, v) \in Seq(VCIds)
<1>1. Len(slice) \in Nat /\ Len(list) \in Nat
  OBVIOUS
<1>2. ASSUME NEW i \in 1 .. Len(slice)
      PROVE  (IF PlaceOf(list, v) \in 1 .. i /\ i < Len(list) THEN list[i + 1] ELSE slice[i]) \in VCIds
  BY <1>1
<1> QED
  BY <1>1, <1>2 DEF MovedDown

LEMMA BooksType == ASSUME IInv PROVE BooksOK
BY DEF IInv, TypeOK, BooksOK

LEMMA RemoveFromVCListsType ==
  ASSUME IInv, NEW v, NEW servers, NEW inLeaves, RemoveFromVCLists(v, servers, inLeaves)
  PROVE  serverVCs' \in [Servers -> Seq(VCIds)] /\ leafVCs' \in [Leaves -> Seq(VCIds)]
<1>1. serverVCs \in [Servers -> Seq(VCIds)] /\ leafVCs \in [Leaves -> Seq(VCIds)]
  BY DEF IInv, TypeOK
<1>2. \A s \in Servers : Unlisted(serverVCs[s], v) \in Seq(VCIds)
  BY <1>1, UnlistedType
<1>3. \A l \in Leaves : Unlisted(leafVCs[l], v) \in Seq(VCIds)
  BY <1>1, UnlistedType
<1> QED
  BY <1>1, <1>2, <1>3 DEF RemoveFromVCLists

LEMMA ListOfType ==
  ASSUME IInv, NEW d \in Callers, pc[d] # "idle", K(d).op \in {"FailServer", "FailLeaf"}
  PROVE  ListOf(K(d)) \in Seq(VCIds)
<1>1. K(d) \in Call
  BY InCall
<1>2. K(d).leaf \in Leaves /\ (K(d).op = "FailServer" => K(d).server \in Servers)
  BY <1>1, CallFields DEF TreeOps
<1> QED
  BY <1>2 DEF ListOf, IInv, TypeOK

\* only slices change, and no slice gets longer or shorter
LEMMA LocalsAfterValue ==
  ASSUME IInv, NEW v, NEW servers, NEW inLeaves
  PROVE  /\ LocalsAfter(v, servers, inLeaves) \in [Callers -> Local]
         /\ \A d \in Callers :
              LET new == LocalsAfter(v, servers, inLeaves)[d] IN
              /\ new.i = loc[d].i /\ new.vc = loc[d].vc /\ new.victim = loc[d].victim
              /\ new.at = loc[d].at /\ new.total = loc[d].total
<1> DEFINE After == LocalsAfter(v, servers, inLeaves)
           New(d) == [loc[d] EXCEPT !.list = MovedDown(@, ListOf(K(d)), v)]
<1>1. loc \in [Callers -> Local]
  BY DEF IInv, TypeOK
<1>2. ASSUME NEW d \in Callers, InLoop(d)
      PROVE  /\ New(d) \in Local
             /\ New(d).i = loc[d].i /\ New(d).vc = loc[d].vc /\ New(d).victim = loc[d].victim
             /\ New(d).at = loc[d].at /\ New(d).total = loc[d].total
  <2>1. pc[d] # "idle" /\ K(d).op \in {"FailServer", "FailLeaf"}
    BY <1>2, OpAt DEF InLoop
  <2>2. ListOf(K(d)) \in Seq(VCIds) /\ loc[d] \in Local /\ loc[d].list \in Seq(VCIds)
    BY <1>1, <2>1, ListOfType DEF Local
  <2>3. MovedDown(loc[d].list, ListOf(K(d)), v) \in Seq(VCIds)
    BY <2>2, MovedDownType
  <2> QED
    BY <2>2, <2>3 DEF Local
<1>3. /\ DOMAIN After = Callers
      /\ After = [d \in Callers |-> After[d]]
      /\ \A d \in Callers : After[d] = loc[d] \/ (InLoop(d) /\ After[d] = New(d))
  BY DEF LocalsAfter
<1> HIDE DEF After, New
<1>4. \A d \in Callers : After[d] \in Local
  BY <1>1, <1>2, <1>3
<1>5. After \in [Callers -> Local]
  BY <1>3, <1>4
<1>6. \A d \in Callers :
        /\ After[d].i = loc[d].i /\ After[d].vc = loc[d].vc /\ After[d].victim = loc[d].victim
        /\ After[d].at = loc[d].at /\ After[d].total = loc[d].total
  BY <1>2, <1>3
<1> QED
  BY <1>5, <1>6 DEF After

LEMMA ListVCsKeeps ==
  ASSUME IInv, NEW c \in Callers, ListVCs(c)
  PROVE  IInv'
<1> DEFINE label == IF K(c).op = "FailServer" THEN "scan" ELSE "detachLeaf"
<1>1. pc[c] = "listVCs" /\ K(c).op \in {"FailServer", "FailLeaf"} /\ ListOf(K(c)) \in Seq(VCIds)
  BY OpAt, ListOfType DEF ListVCs, At
<1>2. loc \in [Callers -> Local]
  BY DEF IInv, TypeOK
<1>3. /\ loc' = [loc EXCEPT ![c] = [loc[c] EXCEPT !.list = ListOf(K(c)), !.i = 1]]
      /\ UNCHANGED <<tree, locks, books>> /\ Goto(c, label)
  BY <1>2 DEF ListVCs
<1>4. loc' \in [Callers -> Local] /\ OthersLocal(c) /\ loc'[c].i = 1
  BY <1>1, <1>2, <1>3 DEF Local, OthersLocal
<1>5. BooksOK'
  BY <1>3, BooksType DEF books, BooksOK
<1>6. MayGoTo(c, label)
  BY <1>1, <1>4 DEF MayGoTo, Stages, Removing
<1>7. label \in Labels \ (Unfinished \cup {"idle", "appendLeaf"})
  BY DEF Labels, Unfinished
<1> QED
  BY <1>1, <1>3, <1>4, <1>5, <1>6, <1>7, GotoKeeps DEF Unfinished

LEMMA ScanSiblingsKeeps ==
  ASSUME IInv, NEW c \in Callers, ScanSiblings(c)
  PROVE  IInv'
<1> DEFINE v == loc[c].list[loc[c].i]
           alone == /\ K(c).server \in vcServers[v]
                    /\ (IdsOf(nodes[K(c).leaf]) \ {K(c).server}) \cap vcServers[v] = {}
<1>1. pc[c] = "scan" /\ K(c).op = "FailServer" /\ CallerOK(c)
  BY OpAt, InCall DEF ScanSiblings, At
<1>2. loc \in [Callers -> Local] /\ loc[c] \in Local
  BY DEF IInv, TypeOK
<1>3. v \in VCIds /\ loc[c].i > 0
  <2>1. loc[c].i > 0 /\ loc[c].i <= Len(loc[c].list)
    BY <1>1 DEF CallerOK, ScanSiblings, MoreVCs
  <2>2. loc[c].list \in Seq(VCIds) /\ loc[c].i \in Nat
    BY <1>2 DEF Local
  <2> QED
    BY <2>1, <2>2
<1>4. /\ loc' = [loc EXCEPT ![c] = [loc[c] EXCEPT !.vc = v, !.alone = alone]]
      /\ UNCHANGED <<tree, locks, books>> /\ Goto(c, "drop")
  BY <1>2 DEF ScanSiblings
<1>5. alone \in BOOLEAN
  OBVIOUS
<1> HIDE DEF v, alone
<1>6. loc' \in [Callers -> Local] /\ OthersLocal(c) /\ loc'[c].vc \in VCIds /\ loc'[c].i > 0
  BY <1>2, <1>3, <1>4, <1>5 DEF Local, OthersLocal
<1>7. BooksOK'
  BY <1>4, BooksType DEF books, BooksOK
<1>8. MayGoTo(c, "drop")
  BY <1>1, <1>6 DEF MayGoTo, Stages, Removing
<1>9. "drop" \in Labels \ (Unfinished \cup {"idle", "appendLeaf"})
  BY DEF Labels, Unfinished
<1> QED
  BY <1>1, <1>4, <1>6, <1>7, <1>8, <1>9, GotoKeeps DEF Unfinished

LEMMA DropServerKeeps ==
  ASSUME IInv, NEW c \in Callers, DropServer(c)
  PROVE  IInv'
<1>1. pc[c] = "drop" /\ K(c).op = "FailServer" /\ CallerOK(c)
  BY OpAt, InCall DEF DropServer, At
<1>2. loc \in [Callers -> Local] /\ BooksOK
  BY BooksType DEF IInv, TypeOK
<1>3. /\ vcServers' = [vcServers EXCEPT ![loc[c].vc] = @ \ {K(c).server}]
      /\ UNCHANGED <<tree, locks, vcs, vcLeaves, serverVCs, leafVCs, loc>> /\ Goto(c, "shed")
  BY DEF DropServer
<1>4. BooksOK'
  BY <1>2, <1>3 DEF BooksOK
<1>5. loc' \in [Callers -> Local] /\ OthersLocal(c)
  BY <1>2, <1>3 DEF OthersLocal
<1>6. MayGoTo(c, "shed")
  BY <1>1, <1>3 DEF MayGoTo, Stages, Removing, CallerOK
<1>7. "shed" \in Labels \ (Unfinished \cup {"idle", "appendLeaf"})
  BY DEF Labels, Unfinished
<1> QED
  BY <1>1, <1>3, <1>4, <1>5, <1>6, <1>7, GotoKeeps DEF Unfinished

\* the server fails but once, and has its leaf until it is removed
LEMMA ShedKeeps ==
  ASSUME IInv, NEW c \in Callers, Shed(c)
  PROVE  IInv'
<1> DEFINE v == loc[c].vc
           gone == IF loc[c].alone THEN {K(c).leaf} ELSE {}
           from == gone \cup (IF vcServers[v] = {} THEN LeavesOfEmpty(v) ELSE {})
           After == LocalsAfter(v, {}, from)
<1>1. /\ pc[c] = "shed" /\ K(c).op = "FailServer" /\ CallerOK(c)
      /\ parent[K(c).server] = K(c).leaf /\ K(c).leaf \in Leaves /\ v \in VCIds /\ loc[c].i > 0
  <2>1. /\ pc[c] = "shed" /\ K(c).op = "FailServer" /\ CallerOK(c) /\ TreeCallOK(c) /\ K(c) \in Call
    BY OpAt, InCall DEF Shed, At
  <2> QED
    BY <2>1, CallFields DEF TreeCallOK, CallerOK, TreeOps
<1>2. loc \in [Callers -> Local] /\ BooksOK
  BY BooksType DEF IInv, TypeOK
<1>3. /\ vcLeaves' = [vcLeaves EXCEPT ![v] = @ \ gone]
      /\ vcs' = IF vcServers[v] = {} THEN vcs \ {v} ELSE vcs
      /\ RemoveFromVCLists(v, {}, from)
      /\ loc' = [After EXCEPT ![c].i = @ + 1]
      /\ Goto(c, "scan")
      /\ UNCHANGED <<tree, locks, vcServers>>
  BY <1>1, NoneIsNobody DEF Shed
<1>4. /\ After \in [Callers -> Local]
      /\ \A d \in Callers :
           /\ After[d].i = loc[d].i /\ After[d].vc = loc[d].vc /\ After[d].victim = loc[d].victim
           /\ After[d].at = loc[d].at /\ After[d].total = loc[d].total
  BY LocalsAfterValue
<1>5. serverVCs' \in [Servers -> Seq(VCIds)] /\ leafVCs' \in [Leaves -> Seq(VCIds)]
  BY <1>3, RemoveFromVCListsType
<1> HIDE DEF gone, from, After
<1>6. BooksOK'
  BY <1>2, <1>3, <1>5 DEF BooksOK
<1>7. loc' = [After EXCEPT ![c] = [After[c] EXCEPT !.i = @ + 1]]
  BY <1>3, <1>4
<1>8. loc' \in [Callers -> Local] /\ OthersLocal(c) /\ loc'[c].i > 0
  <2>1. After[c] \in Local /\ After[c].i \in Nat
    BY <1>4 DEF Local
  <2>2. /\ [After[c] EXCEPT !.i = @ + 1] \in Local
        /\ [After[c] EXCEPT !.i = @ + 1].i = After[c].i + 1
    BY <2>1 DEF Local
  <2>3. loc' \in [Callers -> Local] /\ loc'[c].i > 0
    BY <1>4, <1>7, <2>1, <2>2
  <2>4. \A d \in Callers \ {c} : loc'[d] = After[d]
    BY <1>4, <1>7
  <2> QED
    BY <1>4, <2>3, <2>4 DEF OthersLocal
<1>9. MayGoTo(c, "scan")
  BY <1>1, <1>8 DEF MayGoTo, Stages, Removing
<1>10. "scan" \in Labels \ (Unfinished \cup {"idle", "appendLeaf"})
  BY DEF Labels, Unfinished
<1> QED
  BY <1>1, <1>3, <1>6, <1>8, <1>9, <1>10, GotoKeeps DEF Unfinished

LEMMA LocalsFor ==
  ASSUME NEW s \in Servers
  PROVE  [NoLocals EXCEPT !.victim = s] \in Local /\ [NoLocals EXCEPT !.victim = s].victim = s
<1>1. NoLocals \in Local
  BY NoLocalsType
<1> QED
  BY <1>1 DEF Local

LEMMA UnlistKeeps ==
  ASSUME IInv, NEW c \in Callers, Unlist(c)
  PROVE  IInv'
<1>1. /\ pc[c] = "scan" /\ K(c).op = "FailServer"
      /\ parent[K(c).server] = K(c).leaf /\ K(c).server \in Servers
  <2>1. /\ pc[c] = "scan" /\ K(c).op = "FailServer" /\ TreeCallOK(c) /\ K(c) \in Call
    BY OpAt, InCall DEF Unlist, At
  <2> QED
    BY <2>1, CallFields DEF TreeCallOK
<1>2. loc \in [Callers -> Local] /\ BooksOK
  BY BooksType DEF IInv, TypeOK
<1>3. /\ serverVCs' = [serverVCs EXCEPT ![K(c).server] = <<>>]
      /\ loc' = [loc EXCEPT ![c] = [NoLocals EXCEPT !.victim = K(c).server]]
      /\ UNCHANGED <<tree, locks, vcs, vcServers, vcLeaves, leafVCs>> /\ Goto(c, "lookUp")
  BY DEF Unlist
<1>4. BooksOK'
  <2>1. serverVCs' = [serverVCs EXCEPT ![K(c).server] = <<>>]
    BY <1>3
  <2>2. serverVCs \in [Servers -> Seq(VCIds)] /\ <<>> \in Seq(VCIds)
    BY <1>2 DEF BooksOK
  <2>3. serverVCs' \in [Servers -> Seq(VCIds)]
    BY <2>1, <2>2
  <2> QED
    BY <1>2, <1>3, <2>3 DEF BooksOK
<1>5. PICK new \in Local : new = [NoLocals EXCEPT !.victim = K(c).server] /\ new.victim = K(c).server
  BY <1>1, LocalsFor
<1>6. loc' \in [Callers -> Local] /\ OthersLocal(c) /\ loc'[c].victim = K(c).server
  BY <1>2, <1>3, <1>5 DEF OthersLocal
<1>7. MayGoTo(c, "lookUp")
  BY <1>1, <1>6 DEF MayGoTo, Stages
<1>8. "lookUp" \in Labels \ (Unfinished \cup {"idle", "appendLeaf"})
  BY DEF Labels, Unfinished
<1> QED
  BY <1>1, <1>3, <1>4, <1>6, <1>7, <1>8, GotoKeeps DEF Unfinished

LEMMA DetachLeafKeeps ==
  ASSUME IInv, NEW c \in Callers, DetachLeaf(c)
  PROVE  IInv'
<1> DEFINE v == loc[c].list[loc[c].i]
           lost == IF K(c).leaf \in vcLeaves[v] THEN vcServers[v] \cap IdsOf(nodes[K(c).leaf]) ELSE {}
<1>1. pc[c] = "detachLeaf" /\ K(c).op = "FailLeaf" /\ CallerOK(c)
  BY OpAt, InCall DEF DetachLeaf, At
<1>2. loc \in [Callers -> Local] /\ loc[c] \in Local /\ BooksOK
  BY BooksType DEF IInv, TypeOK
<1>3. v \in VCIds /\ loc[c].i > 0
  <2>1. loc[c].i > 0 /\ loc[c].i <= Len(loc[c].list)
    BY <1>1 DEF CallerOK, DetachLeaf, MoreVCs
  <2>2. loc[c].list \in Seq(VCIds) /\ loc[c].i \in Nat
    BY <1>2 DEF Local
  <2> QED
    BY <2>1, <2>2
<1>4. /\ vcServers' = [vcServers EXCEPT ![v] = @ \ lost]
      /\ loc' = [loc EXCEPT ![c] = [loc[c] EXCEPT !.vc = v, !.lost = lost]]
      /\ UNCHANGED <<tree, locks, vcs, vcLeaves, serverVCs, leafVCs>> /\ Goto(c, "dropLeaf")
  BY <1>2 DEF DetachLeaf
<1>5. lost \subseteq Servers
  BY <1>2, <1>3 DEF BooksOK
<1> HIDE DEF v, lost
<1>6. BooksOK'
  BY <1>2, <1>4 DEF BooksOK
<1>7. loc' \in [Callers -> Local] /\ OthersLocal(c) /\ loc'[c].vc \in VCIds /\ loc'[c].i > 0
  BY <1>2, <1>3, <1>4, <1>5 DEF Local, OthersLocal
<1>8. MayGoTo(c, "dropLeaf")
  BY <1>1, <1>7 DEF MayGoTo, Stages, Removing
<1>9. "dropLeaf" \in Labels \ (Unfinished \cup {"idle", "appendLeaf"})
  BY DEF Labels, Unfinished
<1> QED
  BY <1>1, <1>4, <1>6, <1>7, <1>8, <1>9, GotoKeeps DEF Unfinished

LEMMA DropLeafKeeps ==
  ASSUME IInv, NEW c \in Callers, DropLeaf(c)
  PROVE  IInv'
<1> DEFINE v == loc[c].vc
           from == IF vcServers[v] = {} THEN LeavesOfEmpty(v) \ {K(c).leaf} ELSE {}
           After == LocalsAfter(v, loc[c].lost, from)
<1>1. pc[c] = "dropLeaf" /\ K(c).op = "FailLeaf" /\ v \in VCIds /\ loc[c].i > 0
  BY OpAt, InCall DEF DropLeaf, At, CallerOK
<1>2. loc \in [Callers -> Local] /\ BooksOK
  BY BooksType DEF IInv, TypeOK
<1>3. /\ vcLeaves' = [vcLeaves EXCEPT ![v] = @ \ {K(c).leaf}]
      /\ vcs' = IF vcServers[v] = {} THEN vcs \ {v} ELSE vcs
      /\ RemoveFromVCLists(v, loc[c].lost, from)
      /\ loc' = [After EXCEPT ![c].i = @ + 1]
      /\ Goto(c, "detachLeaf")
      /\ UNCHANGED <<tree, locks, vcServers>>
  BY DEF DropLeaf
<1>4. /\ After \in [Callers -> Local]
      /\ \A d \in Callers :
           /\ After[d].i = loc[d].i /\ After[d].vc = loc[d].vc /\ After[d].victim = loc[d].victim
           /\ After[d].at = loc[d].at /\ After[d].total = loc[d].total
  BY LocalsAfterValue
<1>5. serverVCs' \in [Servers -> Seq(VCIds)] /\ leafVCs' \in [Leaves -> Seq(VCIds)]
  BY <1>3, RemoveFromVCListsType
<1> HIDE DEF from, After
<1>6. BooksOK'
  BY <1>2, <1>3, <1>5 DEF BooksOK
<1>7. loc' = [After EXCEPT ![c] = [After[c] EXCEPT !.i = @ + 1]]
  BY <1>3, <1>4
<1>8. loc' \in [Callers -> Local] /\ OthersLocal(c) /\ loc'[c].i > 0
  <2>1. After[c] \in Local /\ After[c].i \in Nat
    BY <1>4 DEF Local
  <2>2. /\ [After[c] EXCEPT !.i = @ + 1] \in Local
        /\ [After[c] EXCEPT !.i = @ + 1].i = After[c].i + 1
    BY <2>1 DEF Local
  <2>3. loc' \in [Callers -> Local] /\ loc'[c].i > 0
    BY <1>4, <1>7, <2>1, <2>2
  <2>4. \A d \in Callers \ {c} : loc'[d] = After[d]
    BY <1>4, <1>7
  <2> QED
    BY <1>4, <2>3, <2>4 DEF OthersLocal
<1>9. MayGoTo(c, "detachLeaf")
  BY <1>1, <1>8 DEF MayGoTo, Stages, Removing
<1>10. "detachLeaf" \in Labels \ (Unfinished \cup {"idle", "appendLeaf"})
  BY DEF Labels, Unfinished
<1> QED
  BY <1>1, <1>3, <1>6, <1>8, <1>9, <1>10, GotoKeeps DEF Unfinished

\* RemoveLeaf finds the leaf: it fails but once
LEMMA LookUpLeafKeeps ==
  ASSUME IInv, NEW c \in Callers, LookUpLeaf(c)
  PROVE  IInv'
<1>1. pc[c] = "detachLeaf" /\ K(c).op = "FailLeaf" /\ K(c).leaf \in leaves
  <2>1. pc[c] = "detachLeaf" /\ K(c).op = "FailLeaf" /\ TreeCallOK(c)
    BY OpAt, InCall DEF LookUpLeaf, At
  <2> QED
    BY <2>1 DEF TreeCallOK
<1>2. loc \in [Callers -> Local] /\ BooksOK
  BY BooksType DEF IInv, TypeOK
<1>3. /\ leafVCs' = [leafVCs EXCEPT ![K(c).leaf] = <<>>]
      /\ loc' = [loc EXCEPT ![c] = NoLocals]
      /\ UNCHANGED <<tree, locks, vcs, vcServers, vcLeaves, serverVCs>> /\ Goto(c, "drain")
  BY <1>1 DEF LookUpLeaf
<1>4. BooksOK'
  <2>1. leafVCs' = [leafVCs EXCEPT ![K(c).leaf] = <<>>]
    BY <1>3
  <2>2. leafVCs \in [Leaves -> Seq(VCIds)] /\ <<>> \in Seq(VCIds)
    BY <1>2 DEF BooksOK
  <2>3. leafVCs' \in [Leaves -> Seq(VCIds)]
    BY <2>1, <2>2
  <2> QED
    BY <1>2, <1>3, <2>3 DEF BooksOK
<1>5. loc' \in [Callers -> Local] /\ OthersLocal(c)
  BY <1>2, <1>3, NoLocalsType DEF OthersLocal
<1>6. MayGoTo(c, "drain")
  BY <1>1 DEF MayGoTo, Stages, Removing
<1>7. "drain" \in Labels \ (Unfinished \cup {"idle", "appendLeaf"})
  BY DEF Labels, Unfinished
<1> QED
  BY <1>1, <1>3, <1>4, <1>5, <1>6, <1>7, GotoKeeps DEF Unfinished

LEMMA DrainKeeps ==
  ASSUME IInv, NEW c \in Callers, Drain(c)
  PROVE  IInv'
<1> DEFINE label == IF nodes[K(c).leaf] = <<>> THEN "lockLeaf" ELSE "first"
<1>1. pc[c] = "drain" /\ K(c).op = "FailLeaf"
  BY OpAt DEF Drain, At
<1>2. loc \in [Callers -> Local] /\ BooksOK
  BY BooksType DEF IInv, TypeOK
<1>3. UNCHANGED <<tree, locks, books, loc>> /\ Goto(c, label)
  BY DEF Drain, HasChildren
<1>4. BooksOK' /\ loc' \in [Callers -> Local] /\ OthersLocal(c)
  BY <1>2, <1>3 DEF books, BooksOK, OthersLocal
<1>5. MayGoTo(c, label)
  BY <1>1 DEF MayGoTo, Stages, Removing
<1>6. label \in Labels \ (Unfinished \cup {"idle", "appendLeaf"})
  BY DEF Labels, Unfinished
<1> QED
  BY <1>1, <1>3, <1>4, <1>5, <1>6, GotoKeeps DEF Unfinished

\* nobody else takes servers from the leaf, or adds one to it
LEMMA FirstKeeps ==
  ASSUME IInv, NEW c \in Callers, First(c)
  PROVE  IInv'
<1>1. PICK l \in Leaves :
        pc[c] = "first" /\ K(c).op = "FailLeaf" /\ l = K(c).leaf /\ nodes[l] # <<>> /\ call[c] # None
  <2>1. pc[c] = "first" /\ K(c).op = "FailLeaf" /\ TreeCallOK(c) /\ K(c) \in Call /\ call[c] # None
    BY OpAt, InCall DEF First, At
  <2> QED
    BY <2>1, CallFields DEF TreeCallOK, TreeOps
<1>2. loc \in [Callers -> Local] /\ BooksOK /\ nodes[l] \in Seq(ServerNode)
  BY BooksType DEF IInv, TypeOK
<1>3. PICK s \in Servers : s = nodes[l][1].id /\ s \in IdsOf(nodes[l])
  <2>1. 1 \in 1 .. Len(nodes[l])
    BY <1>1, <1>2
  <2>2. nodes[l][1] \in ServerNode
    BY <1>2, <2>1
  <2>3. nodes[l][1].id \in Servers
    BY <2>2 DEF ServerNode
  <2>4. nodes[l][1].id \in IdsOf(nodes[l])
    BY <2>1 DEF IdsOf
  <2> QED
    BY <2>3, <2>4
<1>4. parent[s] = l
  <2>1. leafLock[l] = None
    <3>1. ASSUME leafLock[l] # None PROVE FALSE
      <4>1. PICK d \in Callers : d = leafLock[l] /\ pc[d] = "numberServer" /\ K(d).op = "AddServer" /\ K(d).leaf = l
        BY <3>1, HoldersOfLocks
      <4>2. d # c /\ call[d] # None
        BY <1>1, <4>1, InCall
      <4> QED
        BY <1>1, <4>1, <4>2, Conflicts DEF TreeOps
    <3> QED
      BY <3>1
  <2> QED
    BY <1>3, <2>1 DEF IInv, ServersOK
<1>5. /\ loc' = [loc EXCEPT ![c] = [loc[c] EXCEPT !.victim = s]]
      /\ UNCHANGED <<tree, locks, books>> /\ Goto(c, "lookUp")
  BY <1>1, <1>2, <1>3 DEF First
<1>6. loc' \in [Callers -> Local] /\ OthersLocal(c) /\ loc'[c].victim = s
  BY <1>2, <1>5 DEF Local, OthersLocal
<1>7. BooksOK'
  BY <1>2, <1>5 DEF books, BooksOK
<1>8. MayGoTo(c, "lookUp")
  BY <1>1, <1>4, <1>6 DEF MayGoTo, Stages
<1>9. "lookUp" \in Labels \ (Unfinished \cup {"idle", "appendLeaf"})
  BY DEF Labels, Unfinished
<1> QED
  BY <1>1, <1>5, <1>6, <1>7, <1>8, <1>9, GotoKeeps DEF Unfinished

LEMMA LookUpKeeps ==
  ASSUME IInv, NEW c \in Callers, LookUp(c)
  PROVE  IInv'
<1>1. PICK l \in Leaves, s \in Servers :
        /\ pc[c] = "lookUp" /\ l = K(c).leaf /\ s = loc[c].victim /\ parent[s] = l
        /\ K(c).op \in {"FailServer", "FailLeaf"} /\ TreeCallOK(c)
  BY Remover DEF LookUp, At, Removing
<1>2. loc \in [Callers -> Local] /\ BooksOK
  BY BooksType DEF IInv, TypeOK
<1>3. UNCHANGED <<tree, locks, books, loc>> /\ Goto(c, "lock")
  BY <1>1, NoneIsNobody DEF LookUp
<1>4. BooksOK' /\ loc' \in [Callers -> Local] /\ OthersLocal(c)
  BY <1>2, <1>3 DEF books, BooksOK, OthersLocal
<1>5. MayGoTo(c, "lock")
  BY <1>1, <1>3 DEF MayGoTo, Stages, TreeCallOK, Removing
<1>6. "lock" \in Labels \ (Unfinished \cup {"idle", "appendLeaf"})
  BY DEF Labels, Unfinished
<1> QED
  BY <1>1, <1>3, <1>4, <1>5, <1>6, GotoKeeps DEF Unfinished

\* the calls that make and remove VCs
LEMMA StoreVCKeeps ==
  ASSUME IInv, NEW c \in Callers, StoreVC(c)
  PROVE  IInv'
<1> DEFINE v == K(c).vc
           servers == K(c).servers
           leavesOf == K(c).leaves
<1>1. /\ pc[c] = "storeVC" /\ K(c).op = "AddVC"
      /\ v \in VCIds /\ servers \subseteq Servers /\ leavesOf \subseteq Leaves
  <2>1. pc[c] = "storeVC" /\ K(c).op = "AddVC" /\ K(c) \in Call
    BY OpAt, InCall DEF StoreVC, At
  <2> QED
    BY <2>1, CallFields
<1>2. loc \in [Callers -> Local] /\ BooksOK
  BY BooksType DEF IInv, TypeOK
<1>3. /\ vcs' = vcs \cup {v} /\ Goto(c, "listVC")
      /\ vcServers' = [vcServers EXCEPT ![v] = servers]
      /\ vcLeaves' = [vcLeaves EXCEPT ![v] = leavesOf]
      /\ UNCHANGED <<tree, locks, serverVCs, leafVCs, loc>>
  BY DEF StoreVC
<1> HIDE DEF v, servers, leavesOf
<1>4. BooksOK' /\ loc' \in [Callers -> Local] /\ OthersLocal(c)
  BY <1>1, <1>2, <1>3 DEF BooksOK, OthersLocal
<1>5. MayGoTo(c, "listVC")
  BY <1>1 DEF MayGoTo, Stages, Removing
<1>6. "listVC" \in Labels \ (Unfinished \cup {"idle", "appendLeaf"})
  BY DEF Labels, Unfinished
<1> QED
  BY <1>1, <1>3, <1>4, <1>5, <1>6, GotoKeeps DEF Unfinished

LEMMA ListVCKeeps ==
  ASSUME IInv, NEW c \in Callers, ListVC(c)
  PROVE  IInv'
<1>1. pc[c] = "listVC" /\ K(c).vc \in VCIds
  <2>1. pc[c] = "listVC" /\ K(c).op = "AddVC" /\ K(c) \in Call
    BY OpAt, InCall DEF ListVC, At
  <2> QED
    BY <2>1, CallFields
<1> DEFINE v == K(c).vc
<1>2. loc \in [Callers -> Local] /\ BooksOK
  BY BooksType DEF IInv, TypeOK
<1>3. /\ serverVCs' = [s \in Servers |->
                        IF s \in vcServers[v] THEN Append(serverVCs[s], v) ELSE serverVCs[s]]
      /\ leafVCs' = [l \in Leaves |->
                      IF l \in vcLeaves[v] THEN Append(leafVCs[l], v) ELSE leafVCs[l]]
      /\ UNCHANGED <<tree, locks, vcs, vcServers, vcLeaves, loc>> /\ Return(c)
  BY DEF ListVC
<1>4. /\ \A s \in Servers : serverVCs[s] \in Seq(VCIds) /\ Append(serverVCs[s], v) \in Seq(VCIds)
      /\ \A l \in Leaves : leafVCs[l] \in Seq(VCIds) /\ Append(leafVCs[l], v) \in Seq(VCIds)
  BY <1>1, <1>2, AppendValue DEF BooksOK
<1> HIDE DEF v
<1>5. serverVCs' \in [Servers -> Seq(VCIds)] /\ leafVCs' \in [Leaves -> Seq(VCIds)]
  BY <1>3, <1>4
<1>6. BooksOK' /\ loc' \in [Callers -> Local] /\ OthersLocal(c)
  BY <1>2, <1>3, <1>5 DEF BooksOK, OthersLocal
<1> QED
  BY <1>1, <1>3, <1>6, ReturnKeeps DEF Unfinished

LEMMA DeleteVCKeeps ==
  ASSUME IInv, NEW c \in Callers, DeleteVC(c)
  PROVE  IInv'
<1>1. pc[c] = "deleteVC" /\ K(c).op = "RemoveVC"
  BY OpAt DEF DeleteVC, At
<1>2. loc \in [Callers -> Local] /\ BooksOK
  BY BooksType DEF IInv, TypeOK
<1>3. /\ vcs' = vcs \ {K(c).vc}
      /\ UNCHANGED <<tree, locks, vcServers, vcLeaves, serverVCs, leafVCs, loc>>
      /\ Goto(c, "unlistVC") \/ Return(c)
  BY DEF DeleteVC
<1>4. BooksOK' /\ loc' \in [Callers -> Local] /\ OthersLocal(c)
  BY <1>2, <1>3 DEF BooksOK, OthersLocal
<1>5. MayGoTo(c, "unlistVC")
  BY <1>1 DEF MayGoTo, Stages, Removing
<1>6. "unlistVC" \in Labels \ (Unfinished \cup {"idle", "appendLeaf"})
  BY DEF Labels, Unfinished
<1>7. CASE Goto(c, "unlistVC")
  BY <1>1, <1>3, <1>4, <1>5, <1>6, <1>7, GotoKeeps DEF Unfinished
<1>8. CASE Return(c)
  BY <1>1, <1>3, <1>4, <1>8, ReturnKeeps DEF Unfinished
<1> QED
  BY <1>3, <1>7, <1>8

LEMMA UnlistVCKeeps ==
  ASSUME IInv, NEW c \in Callers, UnlistVC(c)
  PROVE  IInv'
<1> DEFINE v == K(c).vc
           After == LocalsAfter(v, vcServers[v], vcLeaves[v])
<1>1. /\ pc[c] = "unlistVC" /\ BooksOK
      /\ RemoveFromVCLists(v, vcServers[v], vcLeaves[v])
      /\ loc' = After
      /\ UNCHANGED <<tree, locks, vcs, vcServers, vcLeaves>> /\ Return(c)
  BY BooksType DEF UnlistVC, At
<1>2. /\ After \in [Callers -> Local]
      /\ \A d \in Callers :
           /\ After[d].i = loc[d].i /\ After[d].vc = loc[d].vc /\ After[d].victim = loc[d].victim
           /\ After[d].at = loc[d].at /\ After[d].total = loc[d].total
  BY LocalsAfterValue
<1>3. serverVCs' \in [Servers -> Seq(VCIds)] /\ leafVCs' \in [Leaves -> Seq(VCIds)]
  BY <1>1, RemoveFromVCListsType
<1> HIDE DEF After
<1>4. BooksOK' /\ loc' \in [Callers -> Local] /\ OthersLocal(c)
  BY <1>1, <1>2, <1>3 DEF BooksOK, OthersLocal
<1> QED
  BY <1>1, <1>4, ReturnKeeps DEF Unfinished

-----------------------------------------------------------------------------
(* A new call, where there are no races about the tree; there may be some  *)
(* about the VCs.                                                          *)

TreeRaces ==
  {"addTwice", "failTwice", "failLeafAndServer", "addAndFailServer", "addServerFailLeaf", "addAndFailLeaf"}

NoTreeRaces == Overlaps \cap TreeRaces = {}

LEMMA ClustersType ==
  ASSUME IInv, NEW k \in Call
  PROVE  Clusters(k) \in SUBSET VCIds
<1>1. /\ k.op \in TreeOps \cup {"AddVC", "RemoveVC"}
      /\ k.op \in TreeOps => k.leaf \in Leaves
      /\ k.op \in {"AddServer", "FailServer"} => k.server \in Servers
      /\ k.op \in {"AddVC", "RemoveVC"} => k.vc \in VCIds
  BY CallFields DEF Call
<1>2. ASSUME NEW l \in Leaves
      PROVE  Range(leafVCs[l]) \subseteq VCIds
  <2>1. leafVCs[l] \in Seq(VCIds)
    BY DEF IInv, TypeOK
  <2>2. \A i \in 1 .. Len(leafVCs[l]) : leafVCs[l][i] \in VCIds
    BY <2>1
  <2> QED
    BY <2>1, <2>2, RangeValue
<1>3. ASSUME NEW s \in Servers
      PROVE  Range(serverVCs[s]) \subseteq VCIds
  <2>1. serverVCs[s] \in Seq(VCIds)
    BY DEF IInv, TypeOK
  <2>2. \A i \in 1 .. Len(serverVCs[s]) : serverVCs[s][i] \in VCIds
    BY <2>1
  <2> QED
    BY <2>1, <2>2, RangeValue
<1>4. CASE k.op \in {"AddLeaf", "AddServer"}
  BY <1>4 DEF Clusters
<1>5. CASE k.op = "FailLeaf"
  <2>1. Clusters(k) = Range(leafVCs[k.leaf])
    BY <1>5 DEF Clusters
  <2> QED
    BY <1>1, <1>2, <1>5, <2>1 DEF TreeOps
<1>6. CASE k.op = "FailServer"
  <2>1. Clusters(k) = Range(serverVCs[k.server])
    BY <1>6 DEF Clusters
  <2> QED
    BY <1>1, <1>3, <1>6, <2>1
<1>7. CASE k.op \in {"AddVC", "RemoveVC"}
  BY <1>1, <1>7 DEF Clusters
<1> QED
  BY <1>1, <1>4, <1>5, <1>6, <1>7 DEF TreeOps

LEMMA BeginKeeps ==
  ASSUME NoTreeRaces, IInv, NEW c \in Callers, NEW k \in Call,
         NEW label \in {"appendLeaf", "appendServer", "listVCs", "storeVC", "deleteVC"},
         Begin(c, k, label), <<k.op, label>> \in Stages, BooksOK',
         k.op = "AddLeaf" => k.leaf \notin leaves,
         k.op = "AddServer" => k.leaf \in leaves /\ parent[k.server] = None,
         k.op = "FailServer" => parent[k.server] = k.leaf,
         k.op = "FailLeaf" => k.leaf \in leaves
  PROVE  IInv'
<1> DEFINE new == [of |-> k, clusters |-> Clusters(k)]
<1>1. /\ call[c] = None
      /\ \A d \in Callers : call[d] # None => MayOverlap(k, call[d])
      /\ call' = [call EXCEPT ![c] = new]
      /\ pc' = [pc EXCEPT ![c] = label]
      /\ calls < MaxCalls /\ calls' = calls + 1
      /\ UNCHANGED <<up, tree, locks, loc>>
  BY DEF Begin
<1>2. new \in Served /\ new.of = k
  BY ClustersType DEF Served
<1>3. /\ pc \in [Callers -> Labels] /\ call \in [Callers -> Served \cup {None}]
      /\ calls \in 0 .. MaxCalls /\ MaxCalls \in Nat
  BY MaxCallsAssumption DEF IInv, TypeOK
<1> HIDE DEF new
<1>4. /\ pc[c] = "idle" /\ pc'[c] = label /\ call'[c] = new /\ new # None /\ K(c)' = k
      /\ \A d \in Callers \ {c} : Rests(d)
  <2>1. pc[c] = "idle"
    BY <1>1 DEF IInv, CallerOK
  <2>2. pc'[c] = label /\ call'[c] = new /\ new # None
    BY <1>1, <1>2, <1>3, NoneIsNoCall
  <2>3. \A d \in Callers \ {c} : Rests(d)
    BY <1>1, <1>3 DEF Rests
  <2> QED
    BY <1>2, <2>1, <2>2, <2>3 DEF K
<1>5. TypeOK'
  <2>1. UNCHANGED <<spineLeaves, index, leaves, nodes, leafLast, parent, topoLock, leafLock>>
    BY <1>1 DEF tree, locks
  <2>2. pc' \in [Callers -> Labels] /\ call' \in [Callers -> Served \cup {None}]
    BY <1>1, <1>2, <1>3 DEF Labels
  <2>3. calls' \in 0 .. MaxCalls
    BY <1>1, <1>3
  <2> QED
    BY <1>1, <2>1, <2>2, <2>3 DEF IInv, TypeOK, BooksOK
<1>6. ASSUME NEW d \in Callers \ {c}, call[d] # None
      PROVE  /\ ~AddTwice(k, K(d)) /\ ~FailTwice(k, K(d))
             /\ ~OneLeaf(k, K(d), {"FailLeaf", "FailServer"})
             /\ ~OneLeaf(k, K(d), {"AddServer", "FailServer"})
             /\ ~OneLeaf(k, K(d), {"AddServer", "FailLeaf"})
             /\ Ops(k, K(d)) # {"AddLeaf", "FailLeaf"}
  <2>1. MayOverlap(k, call[d])
    BY <1>1, <1>6
  <2>2. \A race \in TreeRaces : ~Happens(race)
    BY DEF NoTreeRaces, Happens
  <2> QED
    BY <2>1, <2>2 DEF MayOverlap, TreeRaces, K
<1>7. \A d, e \in Callers : d # e => Apart(d, e)'
  <2>1. ASSUME NEW d \in Callers \ {c}
        PROVE  Apart(c, d)' /\ Apart(d, c)'
    <3>1. call'[d] = call[d] /\ K(d)' = K(d)
      BY <1>4 DEF Rests, K
    <3>2. /\ Ops(K(d), k) = Ops(k, K(d))
          /\ \A kinds : OneLeaf(K(d), k, kinds) <=> OneLeaf(k, K(d), kinds)
          /\ \A kinds : OneServer(K(d), k, kinds) <=> OneServer(k, K(d), kinds)
      BY DEF Ops, OneLeaf, OneServer
    <3> QED
      BY <1>4, <1>6, <3>1, <3>2 DEF Apart, AddTwice, FailTwice
  <2>2. ASSUME NEW d \in Callers \ {c}, NEW e \in Callers \ {c}, d # e
        PROVE  Apart(d, e)'
    <3>1. call'[d] = call[d] /\ K(d)' = K(d) /\ call'[e] = call[e] /\ K(e)' = K(e)
      BY <1>4 DEF Rests, K
    <3>2. Apart(d, e)
      BY <2>2 DEF IInv
    <3> QED
      BY <3>1, <3>2 DEF Apart
  <2> QED
    BY <2>1, <2>2
<1>8. CallerOK(c)'
  BY <1>4 DEF CallerOK, Removing
<1>9. TreeCallOK(c)'
  <2>1. leaves' = leaves /\ parent' = parent /\ nodes' = nodes /\ spineLeaves' = spineLeaves
    BY <1>1 DEF tree
  <2>2. label \notin Removing \cup {"first", "lockLeaf", "cutLeaf"}
    BY DEF Removing
  <2>3. k.op \in TreeOps => k.leaf \in Leaves
    BY CallFields
  <2>4. ASSUME k.op = "AddLeaf"
        PROVE  k.leaf \notin Range(spineLeaves)
    <3>1. ASSUME NEW d \in Callers, pc[d] = "storeLeaf", K(d).leaf = k.leaf
          PROVE  FALSE
      <4>1. d # c /\ call[d] # None /\ K(d).op = "AddLeaf"
        BY <1>4, <3>1, OpAt, InCall
      <4> QED
        BY <1>6, <2>4, <3>1, <4>1 DEF AddTwice, OneLeaf, Ops
    <3> QED
      BY <2>3, <2>4, <3>1 DEF IInv, SpineOK, TreeOps
  <2> QED
    BY <1>4, <2>1, <2>2, <2>3, <2>4 DEF TreeCallOK
<1> QED
  BY <1>1, <1>4, <1>5, <1>7, <1>8, <1>9, NeutralKeeps DEF Unfinished

LEMMA CallsKeep ==
  ASSUME NoTreeRaces, IInv, NEW c \in Callers, Calls(c)
  PROVE  IInv'
<1>1. ASSUME NEW l \in Leaves, CallAddLeaf(c, l)
      PROVE  IInv'
  <2> DEFINE k == [op |-> "AddLeaf", leaf |-> l]
  <2>1. k \in Call /\ k.op = "AddLeaf" /\ k.leaf = l /\ l \notin leaves /\ <<k.op, "appendLeaf">> \in Stages
    BY <1>1 DEF Call, CallAddLeaf, Stages
  <2>2. Begin(c, k, "appendLeaf") /\ BooksOK'
    BY <1>1, BooksType DEF CallAddLeaf, BooksOK, books
  <2> HIDE DEF k
  <2> QED
    BY <2>1, <2>2, BeginKeeps
<1>2. ASSUME NEW l \in Leaves, CallFailLeaf(c, l)
      PROVE  IInv'
  <2> DEFINE k == [op |-> "FailLeaf", leaf |-> l]
  <2>1. k \in Call /\ k.op = "FailLeaf" /\ k.leaf = l /\ l \in leaves /\ <<k.op, "listVCs">> \in Stages
    BY <1>2 DEF Call, CallFailLeaf, Stages
  <2>2. Begin(c, k, "listVCs") /\ BooksOK'
    BY <1>2, BooksType DEF CallFailLeaf, BooksOK, books
  <2> HIDE DEF k
  <2> QED
    BY <2>1, <2>2, BeginKeeps
<1>3. ASSUME NEW s \in Servers, CallFailServer(c, s)
      PROVE  IInv'
  <2> DEFINE k == [op |-> "FailServer", server |-> s, leaf |-> parent[s]]
  <2>1. parent[s] \in Leaves
    BY <1>3 DEF CallFailServer, IInv, TypeOK
  <2>2. k \in Call /\ k.op = "FailServer" /\ k.server = s /\ k.leaf = parent[s] /\ <<k.op, "listVCs">> \in Stages
    BY <2>1 DEF Call, Stages
  <2>3. Begin(c, k, "listVCs") /\ BooksOK'
    BY <1>3, BooksType DEF CallFailServer, BooksOK, books
  <2> HIDE DEF k
  <2> QED
    BY <2>2, <2>3, BeginKeeps
<1>4. ASSUME NEW s \in Servers, NEW l \in Leaves, CallAddServer(c, s, l)
      PROVE  IInv'
  <2> DEFINE k == [op |-> "AddServer", server |-> s, leaf |-> l]
  <2>1. /\ k \in Call /\ k.op = "AddServer" /\ k.server = s /\ k.leaf = l /\ <<k.op, "appendServer">> \in Stages
        /\ l \in leaves /\ parent[s] = None
    BY <1>4 DEF Call, CallAddServer, Stages
  <2>2. Begin(c, k, "appendServer") /\ BooksOK'
    BY <1>4, BooksType DEF CallAddServer, BooksOK, books
  <2> HIDE DEF k
  <2> QED
    BY <2>1, <2>2, BeginKeeps
<1>5. ASSUME NEW v \in VCIds, CallRemoveVC(c, v)
      PROVE  IInv'
  <2> DEFINE k == [op |-> "RemoveVC", vc |-> v]
  <2>1. k \in Call /\ k.op = "RemoveVC" /\ <<k.op, "deleteVC">> \in Stages
    BY DEF Call, Stages
  <2>2. Begin(c, k, "deleteVC") /\ BooksOK'
    BY <1>5, BooksType DEF CallRemoveVC, BooksOK, books
  <2> HIDE DEF k
  <2> QED
    BY <2>1, <2>2, BeginKeeps
<1>6. ASSUME NEW v \in VCIds, NEW servers \in SUBSET Servers, CallAddVC(c, v, servers)
      PROVE  IInv'
  <2> DEFINE below == {parent[s] : s \in servers}
             k == [op |-> "AddVC", vc |-> v, servers |-> servers, leaves |-> below]
  <2>1. below \subseteq Leaves
    BY <1>6 DEF CallAddVC, IInv, TypeOK
  <2>2. Begin(c, k, "storeVC") /\ BooksOK'
    BY <1>6, BooksType DEF CallAddVC, BooksOK, books
  <2> HIDE DEF below
  <2>3. k \in Call /\ k.op = "AddVC" /\ <<k.op, "storeVC">> \in Stages
    BY <2>1 DEF Call, Stages
  <2> HIDE DEF k
  <2> QED
    BY <2>2, <2>3, BeginKeeps
<1> QED
  BY <1>1, <1>2, <1>3, <1>4, <1>5, <1>6 DEF Calls

LEMMA ServeKeeps ==
  ASSUME IInv, NEW c \in Callers, Serve(c)
  PROVE  IInv'
<1>1. CASE AppendLeaf(c) \/ StoreLeaf(c) \/ AppendServer(c) \/ NumberServer(c)
  BY <1>1, AppendLeafKeeps, StoreLeafKeeps, AppendServerKeeps, NumberServerKeeps
<1>2. CASE LookUp(c) \/ LockTopology(c) \/ SetLeafLast(c) \/ SliceServer(c)
  BY <1>2, LookUpKeeps, LockTopologyKeeps, SetLeafLastKeeps, SliceServerKeeps
<1>3. CASE ListVCs(c) \/ ScanSiblings(c) \/ DropServer(c) \/ Shed(c) \/ Unlist(c)
  BY <1>3, ListVCsKeeps, ScanSiblingsKeeps, DropServerKeeps, ShedKeeps, UnlistKeeps
<1>4. CASE DetachLeaf(c) \/ DropLeaf(c) \/ LookUpLeaf(c) \/ Drain(c) \/ First(c)
  BY <1>4, DetachLeafKeeps, DropLeafKeeps, LookUpLeafKeeps, DrainKeeps, FirstKeeps
<1>5. CASE LockForLeaf(c) \/ CutLeaf(c)
  BY <1>5, LockForLeafKeeps, CutLeafKeeps
<1>6. CASE StoreVC(c) \/ ListVC(c) \/ DeleteVC(c) \/ UnlistVC(c)
  BY <1>6, StoreVCKeeps, ListVCKeeps, DeleteVCKeeps, UnlistVCKeeps
<1> QED
  BY <1>1, <1>2, <1>3, <1>4, <1>5, <1>6 DEF Serve

LEMMA StutteringKeeps ==
  ASSUME IInv, UNCHANGED vars
  PROVE  IInv'
<1>1. UNCHANGED <<up, spineLeaves, index, leaves, nodes, leafLast, parent, topoLock, leafLock,
                  vcs, vcServers, vcLeaves, serverVCs, leafVCs, call, pc, loc, calls>>
  BY DEF vars, tree, locks, books
<1>2. TypeOK'
  BY <1>1 DEF IInv, TypeOK
<1>3. LocksOK'
  BY <1>1 DEF IInv, LocksOK, K
<1>4. SpineOK'
  BY <1>1 DEF IInv, SpineOK, Cut, K
<1>5. ASSUME NEW l \in Leaves PROVE ServersOK(l)' /\ NumbersOK(l)'
  BY <1>1 DEF IInv, ServersOK, NumbersOK, IsRenumbered, Gap, Count, K
<1>6. ASSUME NEW c \in Callers PROVE CallerOK(c)' /\ (call'[c] # None => TreeCallOK(c)')
  BY <1>1 DEF IInv, CallerOK, TreeCallOK, K
<1>7. ASSUME NEW c \in Callers, NEW d \in Callers, c # d PROVE Apart(c, d)'
  BY <1>1, <1>7 DEF IInv, Apart, K
<1> QED
  BY <1>1, <1>2, <1>3, <1>4, <1>5, <1>6, <1>7 DEF IInv

LEMMA NextKeeps ==
  ASSUME NoTreeRaces, IInv, [Next]_vars
  PROVE  IInv'
<1>1. CASE Next
  BY <1>1, CallsKeep, ServeKeeps DEF Next
<1>2. CASE UNCHANGED vars
  BY <1>2, StutteringKeeps
<1> QED
  BY <1>1, <1>2

-----------------------------------------------------------------------------
(* The start.                                                              *)

LEMMA ListedSteps ==
  ASSUME NEW order \in Seq(VCIds), NEW some
  PROVE  \E list :
           /\ list[0] = <<>>
           /\ \A i \in 1 .. Len(order) :
                list[i] = IF order[i] \in some THEN Append(list[i - 1], order[i]) ELSE list[i - 1]
           /\ Listed(order, some) = list[Len(order)]
<1> DEFINE n == Len(order)
           Longer(list, i) == IF order[i] \in some THEN Append(list, order[i]) ELSE list
           Lists(f, m) == f = [i \in 0 .. m |-> IF i = 0 THEN <<>> ELSE Longer(f[i - 1], i)]
           list == CHOOSE f : Lists(f, n)
           S == {m \in Nat : m <= n => \E f : Lists(f, m)}
<1>1. Listed(order, some) = list[n]
  BY DEF Listed
<1>2. n \in Nat
  OBVIOUS
<1> HIDE DEF n, Longer
<1>4. 0 \in S
  <2> DEFINE f == [i \in 0 .. 0 |-> <<>>]
  <2>1. Lists(f, 0)
    OBVIOUS
  <2> QED
    BY <2>1
<1>5. ASSUME NEW m \in Nat, m \in S
      PROVE  m + 1 \in S
  <2> SUFFICES ASSUME m + 1 <= n
               PROVE  \E g : Lists(g, m + 1)
    OBVIOUS
  <2>1. m <= n
    BY <1>2
  <2>2. PICK f : Lists(f, m)
    BY <1>5, <2>1
  <2> DEFINE g == [i \in 0 .. m + 1 |-> IF i = 0 THEN <<>> ELSE Longer(f[i - 1], i)]
  <2>3. ASSUME NEW i \in 0 .. m
        PROVE  g[i] = f[i]
    <3>1. i \in 0 .. m + 1
      OBVIOUS
    <3>2. f[i] = IF i = 0 THEN <<>> ELSE Longer(f[i - 1], i)
      BY <2>2
    <3> QED
      BY <3>1, <3>2
  <2>4. \A i \in 0 .. m + 1 : i # 0 => i - 1 \in 0 .. m
    OBVIOUS
  <2>5. \A i \in 0 .. m + 1 : g[i] = IF i = 0 THEN <<>> ELSE Longer(g[i - 1], i)
    BY <2>3, <2>4
  <2>6. Lists(g, m + 1)
    BY <2>5
  <2> QED
    BY <2>6
<1>6. \E f : Lists(f, n)
  <2>1. Nat \subseteq S
    <3> HIDE DEF S
    <3> QED
      BY <1>4, <1>5, NatSetInduction
  <2> QED
    BY <1>2, <2>1
<1>7. Lists(list, n)
  <2> HIDE DEF Lists
  <2> QED
    BY <1>6
<1> HIDE DEF list
<1>8. list[0] = <<>>
  BY <1>2, <1>7
<1>9. ASSUME NEW i \in 1 .. n
      PROVE  list[i] = Longer(list[i - 1], i)
  <2>1. i \in 0 .. n /\ i # 0
    BY <1>2
  <2> QED
    BY <1>7, <2>1
<1> QED
  BY <1>1, <1>8, <1>9 DEF n, Longer

LEMMA ListedValue ==
  ASSUME NEW order \in Seq(VCIds), IsInjective(order), NEW some
  PROVE  /\ Listed(order, some) \in Seq(VCIds) /\ IsInjective(Listed(order, some))
         /\ \A v : v \in Range(Listed(order, some)) <=> v \in Range(order) /\ v \in some
<1>1. PICK list :
        /\ list[0] = <<>>
        /\ \A i \in 1 .. Len(order) :
             list[i] = IF order[i] \in some THEN Append(list[i - 1], order[i]) ELSE list[i - 1]
        /\ Listed(order, some) = list[Len(order)]
  BY ListedSteps
<1> DEFINE n == Len(order)
           OK(m) == /\ list[m] \in Seq(VCIds) /\ IsInjective(list[m])
                    /\ \A v : v \in Range(list[m]) <=> \E i \in 1 .. m : order[i] = v /\ v \in some
           T == {m \in Nat : m <= n => OK(m)}
<1>2. n \in Nat
  OBVIOUS
<1>3. \A i, j \in 1 .. n : order[i] = order[j] => i = j
  BY InjectiveValue
<1> HIDE DEF n
<1>4. 0 \in T
  <2>1. /\ <<>> \in Seq(VCIds) /\ Range(<<>>) = {} /\ IsInjective(<<>>)
    BY EmptyValue
  <2>2. 1 .. 0 = {}
    OBVIOUS
  <2> QED
    BY <1>1, <2>1, <2>2
<1>5. ASSUME NEW m \in Nat, m \in T
      PROVE  m + 1 \in T
  <2> SUFFICES ASSUME m + 1 <= n
               PROVE  OK(m + 1)
    OBVIOUS
  <2>1. OK(m) /\ m + 1 \in 1 .. n /\ (m + 1) - 1 = m
    BY <1>2, <1>5
  <2>2. \A i : i \in 1 .. m + 1 <=> i \in 1 .. m \/ i = m + 1
    OBVIOUS
  <2>3. list[m + 1] = IF order[m + 1] \in some THEN Append(list[m], order[m + 1]) ELSE list[m]
    BY <1>1, <2>1 DEF n
  <2>4. order[m + 1] \in VCIds
    BY <2>1 DEF n
  <2>5. CASE order[m + 1] \in some
    <3>1. \A i \in 1 .. m : order[i] # order[m + 1]
      BY <1>2, <1>3, <2>1
    <3>2. order[m + 1] \notin Range(list[m])
      BY <2>1, <3>1
    <3>3. /\ list[m + 1] \in Seq(VCIds) /\ IsInjective(list[m + 1])
          /\ \A v : v \in Range(list[m + 1]) <=> v \in Range(list[m]) \/ v = order[m + 1]
      BY <2>1, <2>3, <2>4, <2>5, <3>2, AppendValue, AppendToInjective
    <3> QED
      BY <2>1, <2>2, <2>5, <3>3
  <2>6. CASE order[m + 1] \notin some
    BY <2>1, <2>2, <2>3, <2>6
  <2> QED
    BY <2>5, <2>6
<1>6. Nat \subseteq T
  <2> HIDE DEF T
  <2> QED
    BY <1>4, <1>5, NatSetInduction
<1>7. OK(n)
  <2>1. n \in T
    <3> HIDE DEF T
    <3> QED
      BY <1>2, <1>6
  <2>2. n <= n
    BY <1>2
  <2> HIDE DEF OK
  <2> QED
    BY <2>1, <2>2
<1>8. \A v : v \in Range(order) <=> \E i \in 1 .. n : order[i] = v
  BY RangeValue DEF n
<1> QED
  BY <1>1, <1>7, <1>8 DEF n

\* an order of VCs has each of them once
LEMMA OrderValue ==
  ASSUME NEW some \in SUBSET VCIds, IsFiniteSet(some), NEW order \in SetToSeqs(some)
  PROVE  order \in Seq(VCIds) /\ IsInjective(order) /\ Range(order) = some
<1> DEFINE n == Cardinality(some)
<1>1. n \in Nat
  BY FS_CardinalityType
<1>2. /\ order \in [1 .. n -> some]
      /\ \A i, j \in 1 .. n : i # j => order[i] # order[j]
  BY DEF SetToSeqs
<1>3. Cardinality(1 .. n) = n
  BY <1>1, FS_Interval
<1> HIDE DEF n
<1>4. IsInjective(order)
  BY <1>2 DEF IsInjective
<1>5. order \in Injection(1 .. n, some)
  BY <1>2, <1>4 DEF Injection
<1>6. order \in Surjection(1 .. n, some)
  BY <1>3, <1>5, FS_Injection DEF n
<1>7. \A v \in some : \E i \in 1 .. n : order[i] = v
  BY <1>6 DEF Surjection
<1>8. Range(order) = some
  BY <1>2, <1>7 DEF Range
<1> QED
  BY <1>1, <1>2, <1>4, <1>8

\* the servers of a leaf at the start
LEMMA StartNodesValue ==
  ASSUME NEW servers \in Seq(Servers)
  PROVE  /\ StartNodes(servers) \in Seq(ServerNode) /\ Len(StartNodes(servers)) = Len(servers)
         /\ \A i \in 1 .. Len(servers) : StartNodes(servers)[i].id = servers[i]
         /\ Canonical(StartNodes(servers), Len(servers), 0)
         /\ \A s : s \in IdsOf(StartNodes(servers)) <=> \E i \in 1 .. Len(servers) : servers[i] = s
<1>1. Len(servers) \in Nat /\ Workers \in Nat /\ Workers > 1
  BY WorkersAssumption
<1>2. ASSUME NEW i \in 1 .. Len(servers)
      PROVE  /\ (i - 1) * Workers = FirstID(i) /\ i * Workers - 1 = FirstID(i + 1) - 1
             /\ FirstID(i) \in Nat /\ FirstID(i + 1) - 1 \in Nat /\ servers[i] \in Servers
  <2>1. i \in Nat \ {0} /\ (i + 1) - 1 = i /\ servers[i] \in Servers
    BY <1>1
  <2>2. FirstID(i) \in Nat /\ FirstID(i + 1) = FirstID(i) + Workers
    BY <2>1, FirstIDValue
  <2>3. FirstID(i) = (i - 1) * Workers /\ FirstID(i + 1) = i * Workers
    BY <2>1 DEF FirstID
  <2> QED
    BY <1>1, <2>1, <2>2, <2>3
<1> DEFINE Node(i) == [id |-> servers[i], first |-> (i - 1) * Workers, last |-> i * Workers - 1]
<1>3. \A i \in 1 .. Len(servers) : /\ Node(i) \in ServerNode /\ Node(i).id = servers[i]
                                   /\ HasWorkers(Node(i), i)
  BY <1>2 DEF ServerNode, HasWorkers
<1>4. StartNodes(servers) = [i \in 1 .. Len(servers) |-> Node(i)]
  BY DEF StartNodes
<1> HIDE DEF Node
<1>5. /\ StartNodes(servers) \in Seq(ServerNode) /\ Len(StartNodes(servers)) = Len(servers)
      /\ \A i \in 1 .. Len(servers) : StartNodes(servers)[i] = Node(i)
  BY <1>1, <1>3, <1>4
<1>6. Canonical(StartNodes(servers), Len(servers), 0)
  BY <1>3, <1>5 DEF Canonical
<1>7. ASSUME NEW s
      PROVE  s \in IdsOf(StartNodes(servers)) <=> \E i \in 1 .. Len(servers) : servers[i] = s
  <2>1. s \in IdsOf(StartNodes(servers)) <=> \E i \in 1 .. Len(servers) : StartNodes(servers)[i].id = s
    BY <1>5, IdsValue
  <2> QED
    BY <1>3, <1>5, <2>1
<1> QED
  BY <1>3, <1>5, <1>6, <1>7

\* what a start says of leaf l
PlaceAtStart(start, l) == SelectInSeq(start.leaves, LAMBDA e : e.leaf = l)
ServersAtStart(start, l) ==
  IF PlaceAtStart(start, l) = 0 THEN <<>> ELSE start.leaves[PlaceAtStart(start, l)].servers
LeavesAtStart(start) == [i \in 1 .. Len(start.leaves) |-> start.leaves[i].leaf]

LEMMA StartValue ==
  ASSUME NEW start, StartOK(start)
  PROVE  /\ LeavesAtStart(start) \in Seq(Leaves)
         /\ \A i, j \in 1 .. Len(LeavesAtStart(start)) :
              LeavesAtStart(start)[i] = LeavesAtStart(start)[j] => i = j
         /\ \A i \in 1 .. Len(LeavesAtStart(start)) : PlaceAtStart(start, LeavesAtStart(start)[i]) = i
         /\ \A l : PlaceAtStart(start, l) \in Nat
         /\ \A l : PlaceAtStart(start, l) # 0 <=> l \in Range(LeavesAtStart(start))
         /\ \A l : ServersAtStart(start, l) \in Seq(Servers)
         /\ \A l : l \notin Range(LeavesAtStart(start)) => ServersAtStart(start, l) = <<>>
         /\ \A l : \A i, j \in 1 .. Len(ServersAtStart(start, l)) :
              ServersAtStart(start, l)[i] = ServersAtStart(start, l)[j] => i = j
         /\ \A l, m : \A s \in Range(ServersAtStart(start, l)) \cap Range(ServersAtStart(start, m)) : l = m
<1> DEFINE all == start.leaves
           n == Len(all)
           Place(l) == PlaceAtStart(start, l)
           Below(l) == ServersAtStart(start, l)
           order == LeavesAtStart(start)
<1>1. /\ n \in Nat
      /\ \A i, j \in 1 .. n :
           /\ all[i].leaf = all[j].leaf => i = j
           /\ \A x \in 1 .. Len(all[i].servers), y \in 1 .. Len(all[j].servers) :
                all[i].servers[x] = all[j].servers[y] => i = j /\ x = y
  <2>1. all \in Seq([leaf : Leaves, servers : Seq(Servers)])
    BY DEF StartOK
  <2>2. n \in Nat
    BY <2>1
  <2> QED
    BY <2>2, Zenon DEF StartOK
<1>2. \A i \in 1 .. n : all[i].leaf \in Leaves /\ all[i].servers \in Seq(Servers)
  <2>1. all \in Seq([leaf : Leaves, servers : Seq(Servers)])
    BY DEF StartOK
  <2>2. ASSUME NEW i \in 1 .. n
        PROVE  all[i].leaf \in Leaves /\ all[i].servers \in Seq(Servers)
    <3> DEFINE Entry == [leaf : Leaves, servers : Seq(Servers)]
    <3>1. all \in Seq(Entry)
      BY <2>1
    <3> HIDE DEF Entry
    <3>2. all[i] \in Entry
      BY <3>1, ElementOfSeq
    <3> QED
      BY <3>2 DEF Entry
  <2> QED
    BY <2>2
<1>3. order = [i \in 1 .. n |-> all[i].leaf]
  BY DEF LeavesAtStart
<1>4. \A l : Place(l) = LET I == {i \in 1 .. n : all[i].leaf = l} IN IF I # {} THEN Min(I) ELSE 0
  BY DEF PlaceAtStart, SelectInSeq
<1>5. \A l : Below(l) = IF Place(l) = 0 THEN <<>> ELSE all[Place(l)].servers
  BY DEF ServersAtStart
<1> HIDE DEF all, n, Place, Below, order
<1>6. /\ order \in Seq(Leaves) /\ Len(order) = n /\ \A i \in 1 .. n : order[i] = all[i].leaf
  BY <1>1, <1>2, <1>3
<1>7. ASSUME NEW l
      PROVE  /\ Place(l) \in 0 .. n
             /\ Place(l) = 0 <=> ~ \E i \in 1 .. n : all[i].leaf = l
             /\ Place(l) # 0 => all[Place(l)].leaf = l
  <2> DEFINE I == {i \in 1 .. n : all[i].leaf = l}
  <2>1. I \subseteq Nat /\ Place(l) = IF I # {} THEN Min(I) ELSE 0
    BY <1>1, <1>4
  <2>2. I # {} => Min(I) \in I
    <3> HIDE DEF I
    <3> QED
      BY <2>1, MinValue
  <2>3. CASE I = {}
    BY <1>1, <2>1, <2>3
  <2>4. CASE I # {}
    BY <1>1, <2>1, <2>2, <2>4
  <2> QED
    BY <2>3, <2>4
<1>8. ASSUME NEW l
      PROVE  l \in Range(order) <=> \E i \in 1 .. n : all[i].leaf = l
  <2>1. l \in Range(order) <=> \E i \in 1 .. Len(order) : order[i] = l
    BY <1>6, RangeValue
  <2> QED
    BY <1>6, <2>1
<1>9. ASSUME NEW i \in 1 .. n
      PROVE  Place(order[i]) = i
  <2>1. order[i] = all[i].leaf
    BY <1>6
  <2>2. Place(order[i]) \in 1 .. n /\ all[Place(order[i])].leaf = order[i]
    BY <1>1, <1>7, <2>1
  <2> QED
    BY <1>1, <2>1, <2>2
<1>10. \A i, j \in 1 .. n : order[i] = order[j] => i = j
  BY <1>1, <1>6
<1>11. ASSUME NEW l
       PROVE  /\ Below(l) \in Seq(Servers) /\ Place(l) \in Nat
              /\ Place(l) # 0 => Place(l) \in 1 .. n /\ Below(l) = all[Place(l)].servers
              /\ Place(l) = 0 => Below(l) = <<>>
  <2>1. <<>> \in Seq(Servers)
    OBVIOUS
  <2>2. Place(l) \in 0 .. n /\ Place(l) \in Nat
    BY <1>1, <1>7
  <2>3. Place(l) # 0 => Place(l) \in 1 .. n
    BY <1>1, <2>2
  <2> QED
    BY <1>2, <1>5, <2>1, <2>2, <2>3
<1>12. ASSUME NEW l, NEW i \in 1 .. Len(Below(l)), NEW j \in 1 .. Len(Below(l)), Below(l)[i] = Below(l)[j]
       PROVE  i = j
  <2>1. Place(l) # 0
    <3>1. Len(<<>>) = 0
      OBVIOUS
    <3> QED
      BY <1>11, <3>1
  <2> QED
    BY <1>1, <1>11, <1>12, <2>1
<1>13. ASSUME NEW l, NEW m, NEW s \in Range(Below(l)) \cap Range(Below(m))
       PROVE  l = m
  <2>1. PICK x \in 1 .. Len(Below(l)), y \in 1 .. Len(Below(m)) : Below(l)[x] = s /\ Below(m)[y] = s
    <3>1. s \in Range(Below(l)) /\ Below(l) \in Seq(Servers) /\ s \in Range(Below(m)) /\ Below(m) \in Seq(Servers)
      BY <1>11
    <3>2. \E x \in 1 .. Len(Below(l)) : Below(l)[x] = s
      BY <3>1, RangeValue
    <3>3. \E y \in 1 .. Len(Below(m)) : Below(m)[y] = s
      BY <3>1, RangeValue
    <3> QED
      BY <3>2, <3>3
  <2>2. Place(l) # 0 /\ Place(m) # 0
    <3>1. Len(<<>>) = 0
      OBVIOUS
    <3> QED
      BY <1>11, <2>1, <3>1
  <2>3. PICK i \in 1 .. n, j \in 1 .. n :
          i = Place(l) /\ j = Place(m) /\ Below(l) = all[i].servers /\ Below(m) = all[j].servers
    BY <1>11, <2>2
  <2>4. i = j
    BY SMTT(30), <1>1, <2>1, <2>3
  <2> QED
    BY <1>7, <2>2, <2>3, <2>4
<1>14. /\ \A i \in 1 .. Len(order) : Place(order[i]) = i
       /\ \A i, j \in 1 .. Len(order) : order[i] = order[j] => i = j
  BY <1>6, <1>9, <1>10
<1>15. \A l : Place(l) # 0 <=> l \in Range(order)
  BY <1>7, <1>8
<1> QED
  BY <1>6, <1>11, <1>12, <1>13, <1>14, <1>15 DEF Place, Below, order

LEMMA InitEstablishes ==
  ASSUME Init
  PROVE  IInv
<1>1. PICK start \in Starts :
        /\ spineLeaves = LeavesAtStart(start)
        /\ leaves = Range(spineLeaves)
        /\ index = [l \in Leaves |-> IF l \in leaves THEN PlaceAtStart(start, l) - 1 ELSE 0]
        /\ nodes = [l \in Leaves |-> StartNodes(ServersAtStart(start, l))]
        /\ leafLast = [l \in Leaves |-> IF ServersAtStart(start, l) = <<>> THEN 0
                                         ELSE Len(ServersAtStart(start, l)) * Workers - 1]
        /\ parent = [s \in Servers |->
                       IF \E l \in leaves : s \in Range(ServersAtStart(start, l))
                       THEN CHOOSE l \in leaves : s \in Range(ServersAtStart(start, l)) ELSE None]
        /\ vcs = DOMAIN start.vcs
        /\ vcServers = [v \in VCIds |-> IF v \in vcs THEN start.vcs[v] ELSE {}]
  BY DEF Init, LeavesAtStart, PlaceAtStart, ServersAtStart
<1>2. /\ up = TRUE
      /\ vcLeaves = [v \in VCIds |-> {parent[s] : s \in vcServers[v]}]
      /\ \E order \in SetToSeqs(vcs) :
           /\ serverVCs = [s \in Servers |-> Listed(order, {v \in vcs : s \in vcServers[v]})]
           /\ leafVCs = [l \in Leaves |-> Listed(order, {v \in vcs : l \in vcLeaves[v]})]
      /\ topoLock = None /\ leafLock = [l \in Leaves |-> None]
      /\ call = [c \in Callers |-> None] /\ pc = [c \in Callers |-> "idle"]
      /\ loc = [c \in Callers |-> NoLocals] /\ calls = 0
  BY DEF Init
<1>3. StartOK(start)
  BY StartsAssumption
<1> DEFINE Below(l) == ServersAtStart(start, l)
<1>4. /\ spineLeaves \in Seq(Leaves)
      /\ \A i, j \in 1 .. Len(spineLeaves) : spineLeaves[i] = spineLeaves[j] => i = j
      /\ \A i \in 1 .. Len(spineLeaves) : PlaceAtStart(start, spineLeaves[i]) = i
      /\ \A l : PlaceAtStart(start, l) \in Nat
      /\ \A l : PlaceAtStart(start, l) # 0 <=> l \in leaves
  BY <1>1, <1>3, StartValue
<1>5. /\ \A l : Below(l) \in Seq(Servers)
      /\ \A l : l \notin leaves => Below(l) = <<>>
      /\ \A l : \A i, j \in 1 .. Len(Below(l)) : Below(l)[i] = Below(l)[j] => i = j
      /\ \A l, m : \A s \in Range(Below(l)) \cap Range(Below(m)) : l = m
  BY <1>1, <1>3, StartValue
<1>6. /\ index = [l \in Leaves |-> IF l \in leaves THEN PlaceAtStart(start, l) - 1 ELSE 0]
      /\ nodes = [l \in Leaves |-> StartNodes(Below(l))]
      /\ leafLast = [l \in Leaves |-> IF Below(l) = <<>> THEN 0 ELSE Len(Below(l)) * Workers - 1]
      /\ parent = [s \in Servers |-> IF \E l \in leaves : s \in Range(Below(l))
                                     THEN CHOOSE l \in leaves : s \in Range(Below(l)) ELSE None]
  BY <1>1
<1> HIDE DEF Below
<1>7. leaves \subseteq Leaves
  <2>1. ASSUME NEW l \in leaves
        PROVE  l \in Leaves
    <3>1. PICK i \in 1 .. Len(spineLeaves) : spineLeaves[i] = l
      BY <1>1, <1>4, RangeValue
    <3> QED
      BY <1>4, <3>1
  <2> QED
    BY <2>1
<1>8. ASSUME NEW s \in Servers
      PROVE  /\ parent[s] \in Leaves \cup {None}
             /\ \A l \in Leaves : parent[s] = l <=> s \in Range(Below(l))
  <2>1. ASSUME NEW l, s \in Range(Below(l))
        PROVE  l \in leaves
    <3>1. PICK i \in 1 .. Len(Below(l)) : Below(l)[i] = s
      BY <1>5, <2>1, RangeValue
    <3>2. Len(<<>>) = 0
      OBVIOUS
    <3> QED
      BY <1>5, <3>1, <3>2
  <2>2. CASE \E l \in leaves : s \in Range(Below(l))
    <3>1. parent[s] = CHOOSE l \in leaves : s \in Range(Below(l))
      BY <1>6, <2>2
    <3>2. parent[s] \in leaves /\ s \in Range(Below(parent[s]))
      BY <2>2, <3>1
    <3> QED
      BY <1>5, <1>7, <3>2
  <2>3. CASE ~ \E l \in leaves : s \in Range(Below(l))
    <3>1. parent[s] = None
      BY <1>6, <2>3
    <3> QED
      BY <2>1, <2>3, <3>1, NoneIsNobody
  <2> QED
    BY <2>2, <2>3
<1>9. ASSUME NEW l \in Leaves
      PROVE  /\ nodes[l] \in Seq(ServerNode) /\ Len(nodes[l]) = Len(Below(l)) /\ Len(nodes[l]) \in Nat
             /\ Canonical(nodes[l], Len(nodes[l]), 0)
             /\ \A i \in 1 .. Len(nodes[l]) : nodes[l][i].id = Below(l)[i]
             /\ \A s : s \in IdsOf(nodes[l]) <=> s \in Range(Below(l))
             /\ leafLast[l] = EndOf(Len(nodes[l])) /\ leafLast[l] \in Nat
             /\ Below(l) = <<>> => nodes[l] = <<>>
  <2>1. nodes[l] = StartNodes(Below(l)) /\ Below(l) \in Seq(Servers)
    BY <1>5, <1>6
  <2>2. /\ nodes[l] \in Seq(ServerNode) /\ Len(nodes[l]) = Len(Below(l))
        /\ Canonical(nodes[l], Len(nodes[l]), 0)
        /\ \A i \in 1 .. Len(nodes[l]) : nodes[l][i].id = Below(l)[i]
        /\ \A s : s \in IdsOf(nodes[l]) <=> \E i \in 1 .. Len(Below(l)) : Below(l)[i] = s
    BY <2>1, StartNodesValue
  <2>3. \A s : s \in Range(Below(l)) <=> \E i \in 1 .. Len(Below(l)) : Below(l)[i] = s
    BY <2>1, RangeValue
  <2>4. /\ Len(nodes[l]) \in Nat /\ (Below(l) = <<>> <=> Len(Below(l)) = 0)
        /\ (nodes[l] = <<>> <=> Len(nodes[l]) = 0)
    BY <2>1, <2>2
  <2>5. leafLast[l] = EndOf(Len(nodes[l]))
    <3>1. (Len(nodes[l]) + 1) - 1 = Len(nodes[l])
      BY <2>4
    <3>2. leafLast[l] = IF Below(l) = <<>> THEN 0 ELSE Len(Below(l)) * Workers - 1
      BY <1>6
    <3> QED
      BY <2>2, <2>4, <3>1, <3>2 DEF EndOf, FirstID
  <2>6. leafLast[l] \in Nat
    BY <2>4, <2>5, EndOfValue
  <2> QED
    BY <2>2, <2>3, <2>4, <2>5, <2>6
<1>10. TypeOK
  <2>1. /\ index \in [Leaves -> Nat]
    <3>1. \A l \in Leaves : l \in leaves => PlaceAtStart(start, l) - 1 \in Nat
      BY <1>4
    <3> QED
      BY <1>6, <3>1
  <2>2. nodes \in [Leaves -> Seq(ServerNode)] /\ leafLast \in [Leaves -> Nat]
    BY <1>6, <1>9
  <2>3. parent \in [Servers -> Leaves \cup {None}]
    BY <1>6, <1>8
  <2>4. /\ vcs \subseteq VCIds /\ IsFiniteSet(vcs)
        /\ \A v \in vcs : start.vcs[v] \subseteq UNION {Range(start.leaves[i].servers) : i \in 1 .. Len(start.leaves)}
    BY <1>1, <1>3 DEF StartOK
  <2>5. ASSUME NEW v \in VCIds, NEW s \in vcServers[v]
        PROVE  s \in Servers /\ parent[s] \in Leaves
    <3>1. v \in vcs /\ s \in start.vcs[v]
      BY <1>1, <2>5
    <3>2. PICK i \in 1 .. Len(start.leaves) : s \in Range(start.leaves[i].servers)
      BY <2>4, <3>1
    <3> DEFINE l == spineLeaves[i]
    <3>3. /\ Len(spineLeaves) = Len(start.leaves) /\ i \in 1 .. Len(spineLeaves) /\ l = start.leaves[i].leaf
      <4>1. start.leaves \in Seq([leaf : Leaves, servers : Seq(Servers)])
        BY <1>3 DEF StartOK
      <4>2. Len(start.leaves) \in Nat
        BY <4>1
      <4> QED
        BY <1>1, <4>2 DEF LeavesAtStart
    <3>4. i # 0 /\ PlaceAtStart(start, l) = i
      BY <1>4, <3>3
    <3>5. l \in leaves /\ l \in Leaves
      BY <1>4, <1>7, <3>4
    <3>6. Below(l) = start.leaves[i].servers
      BY <3>4 DEF Below, ServersAtStart
    <3>7. s \in Range(Below(l))
      BY <3>2, <3>6
    <3>8. s \in Servers
      <4>1. Below(l) \in Seq(Servers)
        BY <1>5
      <4>2. PICK x \in 1 .. Len(Below(l)) : Below(l)[x] = s
        BY <3>7, <4>1, RangeValue
      <4> QED
        BY <4>1, <4>2
    <3> QED
      BY <1>8, <3>5, <3>7, <3>8
  <2>6. vcServers \in [VCIds -> SUBSET Servers] /\ vcLeaves \in [VCIds -> SUBSET Leaves]
    <3>1. vcServers = [v \in VCIds |-> vcServers[v]]
      BY <1>1
    <3>2. \A v \in VCIds : vcServers[v] \subseteq Servers /\ {parent[s] : s \in vcServers[v]} \subseteq Leaves
      BY <2>5
    <3>3. vcServers \in [VCIds -> SUBSET Servers]
      BY <3>1, <3>2
    <3>4. vcLeaves \in [VCIds -> SUBSET Leaves]
      BY <1>2, <3>2
    <3> QED
      BY <3>3, <3>4
  <2>7. serverVCs \in [Servers -> Seq(VCIds)] /\ leafVCs \in [Leaves -> Seq(VCIds)]
    <3>1. PICK order \in SetToSeqs(vcs) :
            /\ serverVCs = [s \in Servers |-> Listed(order, {v \in vcs : s \in vcServers[v]})]
            /\ leafVCs = [l \in Leaves |-> Listed(order, {v \in vcs : l \in vcLeaves[v]})]
      BY <1>2
    <3>2. order \in Seq(VCIds) /\ IsInjective(order)
      BY <2>4, OrderValue
    <3> QED
      BY <3>1, <3>2, ListedValue
  <2>8. /\ call \in [Callers -> Served \cup {None}] /\ pc \in [Callers -> Labels]
        /\ loc \in [Callers -> Local] /\ calls \in 0 .. MaxCalls
        /\ topoLock \in Callers \cup {None} /\ leafLock \in [Leaves -> Callers \cup {None}]
    BY <1>2, NoLocalsType, MaxCallsAssumption DEF Labels
  <2> QED
    BY <1>2, <1>4, <1>7, <2>1, <2>2, <2>3, <2>4, <2>6, <2>7, <2>8 DEF TypeOK
<1>11. LocksOK
  BY <1>2, NoneIsNobody DEF LocksOK
<1>12. SpineOK
  <2>1. Cut = 0 /\ topoLock = None
    BY <1>2 DEF Cut
  <2>2. \A i \in 1 .. Len(spineLeaves) : index[spineLeaves[i]] = i - 1
    <3>1. ASSUME NEW i \in 1 .. Len(spineLeaves)
          PROVE  index[spineLeaves[i]] = i - 1
      <4>1. spineLeaves[i] \in Leaves /\ PlaceAtStart(start, spineLeaves[i]) = i /\ i # 0
        BY <1>4
      <4>2. spineLeaves[i] \in leaves
        BY <1>4, <4>1
      <4> QED
        BY <1>6, <4>1, <4>2
    <3> QED
      BY <3>1
  <2>3. \A c \in Callers : pc[c] # "storeLeaf"
    BY <1>2
  <2> QED
    BY <1>1, <1>4, <2>1, <2>2, <2>3 DEF SpineOK
<1>13. ASSUME NEW l \in Leaves
       PROVE  ServersOK(l) /\ NumbersOK(l)
  <2>1. leafLock[l] = None /\ ~IsRenumbered(l)
    BY <1>2 DEF IsRenumbered
  <2>2. ServersOK(l)
    <3>1. \A i, j \in 1 .. Len(nodes[l]) : nodes[l][i].id = nodes[l][j].id => i = j
      BY <1>5, <1>9
    <3>2. \A s \in Servers : s \in IdsOf(nodes[l]) <=> parent[s] = l
      BY <1>8, <1>9
    <3>3. l \notin leaves => nodes[l] = <<>>
      BY <1>5, <1>9
    <3> QED
      BY <2>1, <3>1, <3>2, <3>3 DEF ServersOK
  <2>3. Gap(l) = 0 /\ Count(l) = Len(nodes[l])
    BY <2>1 DEF Gap, Count
  <2> QED
    BY <1>9, <2>1, <2>2, <2>3 DEF NumbersOK
<1>14. ASSUME NEW c \in Callers
       PROVE  CallerOK(c) /\ call[c] = None
  BY <1>2 DEF CallerOK, Removing
<1> QED
  BY <1>2, <1>10, <1>11, <1>12, <1>13, <1>14 DEF IInv, Apart

-----------------------------------------------------------------------------
(* The theorems.                                                           *)

(* However its calls overlap, the controller keeps the inductive           *)
(* invariant, but for the races about the tree: one node is not added, nor *)
(* removed, twice at once; a leaf does not fail while a server is added    *)
(* below it or one of its servers fails; no server of a leaf fails while   *)
(* one is added to it; and no leaf fails while one is added.               *)
THEOREM InductiveInvariant ==
  ASSUME NoTreeRaces
  PROVE  Spec => []IInv
<1>1. Init => IInv
  BY InitEstablishes
<1>2. IInv /\ [Next]_vars => IInv'
  BY NextKeeps
<1> QED
  BY <1>1, <1>2, PTL DEF Spec

(* Every variable keeps its type under overlapping calls; the slice places *)
(* and worker IDs that calls carry from one step to another stay numbers   *)
(* the lists have.                                                         *)
THEOREM TypeCorrect ==
  ASSUME NoTreeRaces
  PROVE  Spec => []TypeOK
<1>1. IInv => TypeOK
  BY DEF IInv
<1> QED
  BY <1>1, InductiveInvariant, PTL

(* No handler panics: the parent that FailServer reads is there, the first *)
(* child that RemoveLeaf reads exists, and the places that RemoveServer    *)
(* and RemoveLeaf cut out are in the lists.  The races about the tree are  *)
(* left out: when FailLeaf overlaps FailServer of a server below, or two   *)
(* calls fail one server, a handler does panic.                            *)
THEOREM NoHandlerPanics ==
  ASSUME NoTreeRaces
  PROVE  Spec => []HandlersDoNotPanic
<1>1. IInv => HandlersDoNotPanic
  BY DEF IInv, HandlersDoNotPanic
<1> QED
  BY <1>1, InductiveInvariant, PTL

(* When no call is in progress, lists, maps, indexes and worker IDs fit    *)
(* together, whatever overlapped before but for the races about the tree.  *)
THEOREM TreeIsAlwaysWhole ==
  ASSUME NoTreeRaces
  PROVE  Spec => []TreeIsWhole
<1>1. ASSUME IInv, Quiet
      PROVE  TreeIsWhole
  <2>1. /\ \A c \in Callers : pc[c] = "idle"
        /\ topoLock = None /\ \A l \in Leaves : leafLock[l] = None
    <3>1. \A c \in Callers : pc[c] = "idle"
      BY <1>1 DEF Quiet, IInv, CallerOK
    <3> QED
      BY <1>1, <3>1, HoldersOfLocks
  <2>2. Range(spineLeaves) = leaves
    <3>1. spineLeaves \in Seq(Leaves) /\ leaves \subseteq Leaves
      BY <1>1 DEF IInv, TypeOK
    <3>2. \A l : l \in Range(spineLeaves) => l \in Leaves
      BY <3>1, RangeValue
    <3>3. \A l \in Leaves : l \in Range(spineLeaves) <=> l \in leaves
      BY <1>1, <2>1 DEF IInv, SpineOK
    <3> QED
      BY <3>1, <3>2, <3>3
  <2>3. \A i \in 1 .. Len(spineLeaves) : index[spineLeaves[i]] = i - 1
    <3>1. Cut = 0
      BY <2>1 DEF Cut
    <3> QED
      BY <1>1, <3>1 DEF IInv, SpineOK
  <2>4. ASSUME NEW l \in Leaves, NEW s \in Servers
        PROVE  parent[s] = l <=> l \in leaves /\ s \in IdsOf(nodes[l])
    <3>1. ServersOK(l)
      BY <1>1 DEF IInv
    <3>2. s \in IdsOf(nodes[l]) <=> parent[s] = l
      BY <2>1, <3>1 DEF ServersOK
    <3>3. IdsOf(<<>>) = {}
      BY DEF IdsOf
    <3> QED
      BY <3>1, <3>2, <3>3 DEF ServersOK
  <2>5. ASSUME NEW l \in leaves
        PROVE  /\ \A i \in 1 .. Len(nodes[l]) :
                    /\ nodes[l][i].first = (i - 1) * Workers
                    /\ nodes[l][i].last = i * Workers - 1
               /\ leafLast[l] = IF nodes[l] = <<>> THEN 0 ELSE Len(nodes[l]) * Workers - 1
    <3>1. l \in Leaves /\ nodes[l] \in Seq(ServerNode)
      BY <1>1 DEF IInv, TypeOK
    <3>2. Len(nodes[l]) \in Nat /\ (nodes[l] = <<>> <=> Len(nodes[l]) = 0)
      BY <3>1
    <3>3. ~IsRenumbered(l) /\ Gap(l) = 0 /\ Count(l) = Len(nodes[l])
      BY <2>1, <3>1 DEF IsRenumbered, Gap, Count
    <3>4. Canonical(nodes[l], Len(nodes[l]), 0) /\ leafLast[l] = EndOf(Len(nodes[l]))
      BY <1>1, <3>1, <3>3 DEF IInv, NumbersOK
    <3>5. ASSUME NEW i \in 1 .. Len(nodes[l])
          PROVE  nodes[l][i].first = (i - 1) * Workers /\ nodes[l][i].last = i * Workers - 1
      <4>1. i # 0 /\ (i + 1) - 1 = i
        BY <3>2
      <4>2. HasWorkers(nodes[l][i], i)
        BY <3>4, <4>1 DEF Canonical
      <4> QED
        BY <4>1, <4>2 DEF HasWorkers, FirstID
    <3>6. leafLast[l] = IF nodes[l] = <<>> THEN 0 ELSE Len(nodes[l]) * Workers - 1
      <4>1. (Len(nodes[l]) + 1) - 1 = Len(nodes[l])
        BY <3>2
      <4> QED
        BY <3>2, <3>4, <4>1 DEF EndOf, FirstID
    <3> QED
      BY <3>5, <3>6
  <2> QED
    BY <2>2, <2>3, <2>4, <2>5 DEF TreeIsWhole
<1>2. IInv => TreeIsWhole
  BY <1>1 DEF TreeIsWhole
<1> QED
  BY <1>2, InductiveInvariant, PTL

\* what the maps of leaves and servers change by
LEMMA MapSteps ==
  ASSUME NEW c \in Callers, Calls(c) \/ Serve(c)
  PROVE  \/ UNCHANGED <<leaves, parent>>
         \/ StoreLeaf(c) \/ NumberServer(c) \/ SliceServer(c) \/ CutLeaf(c)
<1>1. CASE Calls(c)
  BY <1>1 DEF Calls, CallAddLeaf, CallFailLeaf, CallFailServer, CallAddServer, CallRemoveVC, CallAddVC,
              Begin, tree
<1>2. CASE LookUp(c) \/ ListVCs(c) \/ ScanSiblings(c) \/ DropServer(c) \/ Shed(c) \/ Unlist(c)
  BY <1>2 DEF LookUp, ListVCs, ScanSiblings, DropServer, Shed, Unlist, Panic, tree
<1>3. CASE DetachLeaf(c) \/ DropLeaf(c) \/ LookUpLeaf(c) \/ Drain(c) \/ First(c)
  BY <1>3 DEF DetachLeaf, DropLeaf, LookUpLeaf, Drain, First, Panic, tree
<1>4. CASE StoreVC(c) \/ ListVC(c) \/ DeleteVC(c) \/ UnlistVC(c)
  BY <1>4 DEF StoreVC, ListVC, DeleteVC, UnlistVC, tree
<1>5. CASE AppendLeaf(c) \/ AppendServer(c) \/ LockTopology(c) \/ SetLeafLast(c) \/ LockForLeaf(c)
  BY <1>5 DEF AppendLeaf, AppendServer, LockTopology, SetLeafLast, LockForLeaf
<1> QED
  BY <1>1, <1>2, <1>3, <1>4, <1>5 DEF Serve

\* the four steps that change them
LEMMA StoreLeafStep ==
  ASSUME IInv, NEW c \in Callers, StoreLeaf(c)
  PROVE  /\ K(c).leaf \in Leaves \ leaves
         /\ leaves' = leaves \cup {K(c).leaf} /\ parent' = parent
<1>1. pc[c] = "storeLeaf" /\ K(c).op = "AddLeaf" /\ K(c) \in Call /\ TreeCallOK(c)
  BY InCall, OpAt DEF StoreLeaf, At
<1> QED
  BY <1>1, CallFields DEF StoreLeaf, TreeCallOK, TreeOps

LEMMA NumberServerStep ==
  ASSUME IInv, NEW c \in Callers, NumberServer(c)
  PROVE  /\ K(c).leaf \in leaves /\ K(c).server \in Servers /\ parent[K(c).server] = None
         /\ parent' = [parent EXCEPT ![K(c).server] = K(c).leaf] /\ leaves' = leaves
<1>1. pc[c] = "numberServer" /\ K(c).op = "AddServer" /\ K(c) \in Call /\ TreeCallOK(c)
  BY InCall, OpAt DEF NumberServer, At
<1> QED
  BY <1>1, CallFields DEF NumberServer, TreeCallOK

LEMMA SliceServerStep ==
  ASSUME IInv, NEW c \in Callers, SliceServer(c)
  PROVE  /\ pc[c] = "slice" /\ loc[c].victim \in Servers /\ parent[loc[c].victim] # None
         /\ parent' = [parent EXCEPT ![loc[c].victim] = None] /\ leaves' = leaves
<1>1. pc[c] = "slice"
  BY DEF SliceServer, At
<1>2. loc[c].victim \in Servers /\ parent[loc[c].victim] \in Leaves
  BY <1>1, Remover DEF Removing
<1>3. loc[c].at # 0
  <2>1. PICK l \in Leaves : l = K(c).leaf /\ nodes[l] \in Seq(ServerNode) /\ loc[c].at \in 1 .. Len(nodes[l])
    BY <1>1, Remover, BeingRenumbered DEF Removing
  <2> QED
    BY <2>1
<1> QED
  BY <1>1, <1>2, <1>3, NoneIsNobody DEF SliceServer

LEMMA CutLeafStep ==
  ASSUME IInv, NEW c \in Callers, CutLeaf(c)
  PROVE  /\ pc[c] = "cutLeaf" /\ K(c).leaf \in Leaves /\ K(c).leaf \in leaves
         /\ \A s \in Servers : parent[s] # K(c).leaf
         /\ leaves' = leaves \ {K(c).leaf} /\ parent' = parent
<1>1. pc[c] = "cutLeaf"
  BY DEF CutLeaf, At
<1>2. PICK l \in Leaves :
        /\ l = K(c).leaf /\ l \in leaves /\ nodes[l] = <<>>
        /\ spineLeaves \in Seq(Leaves) /\ loc[c].at \in 1 .. Len(spineLeaves)
  BY <1>1, BeingCut
<1>3. spineLeaves # <<>>
  BY <1>2
<1>4. \A s \in Servers : parent[s] # l
  <2>1. IdsOf(<<>>) = {}
    BY DEF IdsOf
  <2> QED
    BY <1>2, <2>1 DEF IInv, ServersOK
<1> QED
  BY <1>1, <1>2, <1>3, <1>4 DEF CutLeaf

\* a step of c leaves the other callers where they are
LEMMA OthersStay ==
  ASSUME IInv, NEW c \in Callers, Calls(c) \/ Serve(c), NEW d \in Callers, d # c
  PROVE  pc'[d] = pc[d] /\ call'[d] = call[d] /\ K(d)' = K(d)
<1>1. pc \in [Callers -> Labels] /\ call \in [Callers -> Served \cup {None}]
  BY DEF IInv, TypeOK
<1>2. \/ pc' = pc
      \/ \E label : pc' = [pc EXCEPT ![c] = label]
  <2>1. CASE Calls(c)
    BY <2>1 DEF Calls, CallAddLeaf, CallFailLeaf, CallFailServer, CallAddServer, CallRemoveVC, CallAddVC, Begin
  <2>2. CASE LookUp(c) \/ ListVCs(c) \/ ScanSiblings(c) \/ DropServer(c) \/ Shed(c) \/ Unlist(c)
    BY <2>2 DEF LookUp, ListVCs, ScanSiblings, DropServer, Shed, Unlist, Panic, AfterRemoveServer, Goto, Return
  <2>3. CASE DetachLeaf(c) \/ DropLeaf(c) \/ LookUpLeaf(c) \/ Drain(c) \/ First(c)
    BY <2>3 DEF DetachLeaf, DropLeaf, LookUpLeaf, Drain, First, Panic, Goto, Return
  <2>4. CASE StoreVC(c) \/ ListVC(c) \/ DeleteVC(c) \/ UnlistVC(c)
    BY <2>4 DEF StoreVC, ListVC, DeleteVC, UnlistVC, Goto, Return
  <2>5. CASE AppendLeaf(c) \/ AppendServer(c) \/ LockTopology(c) \/ SetLeafLast(c) \/ LockForLeaf(c)
    BY <2>5 DEF AppendLeaf, AppendServer, LockTopology, SetLeafLast, LockForLeaf, Goto
  <2>6. CASE StoreLeaf(c) \/ NumberServer(c) \/ SliceServer(c) \/ CutLeaf(c)
    BY <2>6 DEF StoreLeaf, NumberServer, SliceServer, CutLeaf, Panic, AfterRemoveServer, Goto, Return
  <2> QED
    BY <2>1, <2>2, <2>3, <2>4, <2>5, <2>6 DEF Serve
<1>3. \/ call' = call
      \/ \E new : call' = [call EXCEPT ![c] = new]
  <2>1. CASE Calls(c)
    BY <2>1 DEF Calls, CallAddLeaf, CallFailLeaf, CallFailServer, CallAddServer, CallRemoveVC, CallAddVC, Begin
  <2>2. CASE LookUp(c) \/ ListVCs(c) \/ ScanSiblings(c) \/ DropServer(c) \/ Shed(c) \/ Unlist(c)
    BY <2>2 DEF LookUp, ListVCs, ScanSiblings, DropServer, Shed, Unlist, Panic, AfterRemoveServer, Goto, Return
  <2>3. CASE DetachLeaf(c) \/ DropLeaf(c) \/ LookUpLeaf(c) \/ Drain(c) \/ First(c)
    BY <2>3 DEF DetachLeaf, DropLeaf, LookUpLeaf, Drain, First, Panic, Goto, Return
  <2>4. CASE StoreVC(c) \/ ListVC(c) \/ DeleteVC(c) \/ UnlistVC(c)
    BY <2>4 DEF StoreVC, ListVC, DeleteVC, UnlistVC, Goto, Return
  <2>5. CASE AppendLeaf(c) \/ AppendServer(c) \/ LockTopology(c) \/ SetLeafLast(c) \/ LockForLeaf(c)
    BY <2>5 DEF AppendLeaf, AppendServer, LockTopology, SetLeafLast, LockForLeaf, Goto
  <2>6. CASE StoreLeaf(c) \/ NumberServer(c) \/ SliceServer(c) \/ CutLeaf(c)
    BY <2>6 DEF StoreLeaf, NumberServer, SliceServer, CutLeaf, Panic, AfterRemoveServer, Goto, Return
  <2> QED
    BY <2>1, <2>2, <2>3, <2>4, <2>5, <2>6 DEF Serve
<1>4. pc'[d] = pc[d]
  BY <1>1, <1>2
<1>5. call'[d] = call[d]
  BY <1>1, <1>3
<1> QED
  BY <1>4, <1>5 DEF K

\* what c does next when it is about to put a node into a map
LEMMA StoresNext ==
  ASSUME IInv, NEW c \in Callers, Calls(c) \/ Serve(c)
  PROVE  /\ pc[c] = "storeLeaf" => StoreLeaf(c)
         /\ pc[c] = "numberServer" => NumberServer(c)
<1>1. CASE Calls(c)
  <2>1. call[c] = None
    BY <1>1 DEF Calls, CallAddLeaf, CallFailLeaf, CallFailServer, CallAddServer, CallRemoveVC, CallAddVC, Begin
  <2>2. pc[c] = "idle"
    BY <2>1 DEF IInv, CallerOK
  <2> QED
    BY <2>2
<1>2. CASE LookUp(c) \/ ListVCs(c) \/ ScanSiblings(c) \/ DropServer(c) \/ Shed(c) \/ Unlist(c)
  BY <1>2 DEF LookUp, ListVCs, ScanSiblings, DropServer, Shed, Unlist, At
<1>3. CASE DetachLeaf(c) \/ DropLeaf(c) \/ LookUpLeaf(c) \/ Drain(c) \/ First(c)
  BY <1>3 DEF DetachLeaf, DropLeaf, LookUpLeaf, Drain, First, At
<1>4. CASE StoreVC(c) \/ ListVC(c) \/ DeleteVC(c) \/ UnlistVC(c)
  BY <1>4 DEF StoreVC, ListVC, DeleteVC, UnlistVC, At
<1>5. CASE AppendLeaf(c) \/ AppendServer(c) \/ LockTopology(c) \/ SetLeafLast(c) \/ LockForLeaf(c)
  BY <1>5 DEF AppendLeaf, AppendServer, LockTopology, SetLeafLast, LockForLeaf, At
<1>6. CASE StoreLeaf(c) \/ NumberServer(c) \/ SliceServer(c) \/ CutLeaf(c)
  BY <1>6 DEF StoreLeaf, NumberServer, SliceServer, CutLeaf, At
<1> QED
  BY <1>1, <1>2, <1>3, <1>4, <1>5, <1>6 DEF Serve

LEMMA LeavesOnlyCut ==
  ASSUME IInv, IInv', NEW c \in Callers, Calls(c) \/ Serve(c),
         NEW l \in Leaves, l \in Range(spineLeaves), l \notin Range(spineLeaves')
  PROVE  pc[c] = "cutLeaf" /\ K(c).leaf = l
<1>1. l \notin leaves' /\ \A d \in Callers : ~ (pc'[d] = "storeLeaf" /\ K(d)'.leaf = l)
  BY DEF IInv, SpineOK
<1>2. CASE l \in leaves
  <2>1. CutLeaf(c)
    BY <1>1, <1>2, MapSteps, StoreLeafStep, NumberServerStep, SliceServerStep
  <2> QED
    BY <1>1, <1>2, <2>1, CutLeafStep
<1>3. ASSUME NEW d \in Callers, pc[d] = "storeLeaf", K(d).leaf = l
      PROVE  FALSE
  <2>1. CASE d = c
    <3>1. StoreLeaf(c)
      BY <1>3, <2>1, StoresNext
    <3> QED
      BY <1>1, <1>3, <2>1, <3>1, StoreLeafStep
  <2>2. CASE d # c
    BY <1>1, <1>3, <2>2, OthersStay
  <2> QED
    BY <2>1, <2>2
<1> QED
  BY <1>2, <1>3 DEF IInv, SpineOK

LEMMA ServersOnlySliced ==
  ASSUME IInv, IInv', NEW c \in Callers, Calls(c) \/ Serve(c),
         NEW l \in Leaves, NEW s \in Servers, s \in IdsOf(nodes[l]), s \notin IdsOf(nodes'[l])
  PROVE  pc[c] = "slice" /\ loc[c].victim = s
<1>1. /\ s \in IdsOf(nodes[l]) <=> parent[s] = l \/ (leafLock[l] # None /\ K(leafLock[l]).server = s)
      /\ parent \in [Servers -> Leaves \cup {None}]
  BY DEF IInv, TypeOK, ServersOK
<1>2. parent'[s] # l /\ ~ (leafLock'[l] # None /\ K(leafLock[l])'.server = s)
  <2>1. ServersOK(l)'
    BY DEF IInv
  <2> QED
    BY <2>1 DEF ServersOK
<1>3. CASE parent[s] = l
  <2>1. ~ UNCHANGED <<leaves, parent>>
    BY <1>2, <1>3
  <2>2. ~ StoreLeaf(c) /\ ~ CutLeaf(c)
    BY <1>2, <1>3, StoreLeafStep, CutLeafStep
  <2>3. ~ NumberServer(c)
    BY <1>1, <1>2, <1>3, NumberServerStep, NoneIsNobody
  <2>4. SliceServer(c)
    BY <2>1, <2>2, <2>3, MapSteps
  <2> QED
    BY <1>1, <1>2, <1>3, <2>4, SliceServerStep
<1>4. CASE leafLock[l] # None /\ K(leafLock[l]).server = s
  <2>1. PICK d \in Callers :
          d = leafLock[l] /\ pc[d] = "numberServer" /\ K(d).leaf = l /\ K(d).server = s
    BY <1>4, HoldersOfLocks
  <2>2. CASE d = c
    <3>1. NumberServer(c)
      BY <2>1, <2>2, StoresNext
    <3> QED
      BY <1>1, <1>2, <2>1, <2>2, <3>1, NumberServerStep
  <2>3. CASE d # c
    <3>1. pc'[d] = "numberServer" /\ K(d)' = K(d)
      BY <2>1, <2>3, OthersStay
    <3>2. leafLock'[l] = d /\ d # None
      BY <2>1, <3>1, NoneIsNobody DEF IInv, LocksOK
    <3>3. K(leafLock[l])' = K(d)'
      BY <3>2 DEF K
    <3> QED
      BY <1>2, <2>1, <3>1, <3>2, <3>3
  <2> QED
    BY <2>2, <2>3
<1> QED
  BY <1>1, <1>3, <1>4

(* A leaf or a server leaves its parent's list only in the call that       *)
(* removes it: the place RemoveServer or RemoveLeaf looked up is still the *)
(* victim's when it is cut out, if no two calls are in a race about the    *)
(* tree.                                                                   *)
THEOREM OnlyVictimsEverGo ==
  ASSUME NoTreeRaces
  PROVE  Spec => OnlyVictimsGo
<1> DEFINE Step ==
      /\ \A l \in Leaves : l \in Range(spineLeaves) /\ l \notin Range(spineLeaves') =>
           \E c \in Callers : pc[c] = "cutLeaf" /\ K(c).leaf = l
      /\ \A l \in Leaves : \A s \in IdsOf(nodes[l]) \ IdsOf(nodes'[l]) :
           \E c \in Callers : pc[c] = "slice" /\ loc[c].victim = s
<1>1. IInv /\ IInv' /\ [Next]_vars => [Step]_vars
  <2> SUFFICES ASSUME IInv, IInv', Next
               PROVE  Step
    OBVIOUS
  <2>1. PICK c \in Callers : Calls(c) \/ Serve(c)
    BY DEF Next
  <2>2. ASSUME NEW l \in Leaves, l \in Range(spineLeaves), l \notin Range(spineLeaves')
        PROVE  pc[c] = "cutLeaf" /\ K(c).leaf = l
    BY <2>1, <2>2, LeavesOnlyCut
  <2>3. ASSUME NEW l \in Leaves, NEW s \in IdsOf(nodes[l]) \ IdsOf(nodes'[l])
        PROVE  pc[c] = "slice" /\ loc[c].victim = s
    <3>1. s \in Servers
      <4>1. nodes[l] \in Seq(ServerNode)
        BY DEF IInv, TypeOK
      <4>2. PICK i \in 1 .. Len(nodes[l]) : nodes[l][i].id = s
        BY <4>1, IdsValue
      <4>3. nodes[l][i] \in ServerNode
        BY <4>1
      <4> QED
        BY <4>2, <4>3 DEF ServerNode
    <3> QED
      BY <2>1, <3>1, ServersOnlySliced
  <2> QED
    BY <2>2, <2>3
<1>2. Spec => []IInv
  BY InductiveInvariant
<1>3. Spec => [][Next]_vars
  BY PTL DEF Spec
<1> QED
  BY <1>1, <1>2, <1>3, PTL DEF OnlyVictimsGo

(* However calls overlap, the controller implements the membership tree:   *)
(* each call takes effect at the step that changes a map, and a leaf is    *)
(* gone only after its last server.  No two calls are in a race about the  *)
(* tree; in particular, a leaf does not fail while a server below it is    *)
(* added or fails.                                                         *)
THEOREM CallsAlwaysImplementTree ==
  ASSUME NoTreeRaces
  PROVE  Spec => CallsImplementTree
<1> DEFINE spineOf == [l \in Leaves |-> IF l \in leaves THEN TheSpine ELSE None]
<1>1. IInv => AsTree!TreeInit
  <2> SUFFICES ASSUME IInv
               PROVE  AsTree!TreeTypeOK /\ AsTree!NoOrphans
    BY DEF AsTree!TreeInit
  <2>1. AsTree!TreeTypeOK
    BY DEF IInv, TypeOK, AsTree!TreeTypeOK
  <2>2. ASSUME NEW s \in Servers, parent[s] # None
        PROVE  spineOf[parent[s]] # None
    <3>1. parent[s] \in Leaves
      BY <2>2 DEF IInv, TypeOK
    <3>2. s \in IdsOf(nodes[parent[s]])
      BY <3>1 DEF IInv, ServersOK
    <3>3. IdsOf(<<>>) = {}
      BY DEF IdsOf
    <3>4. parent[s] \in leaves
      BY <3>1, <3>2, <3>3 DEF IInv, ServersOK
    <3> QED
      BY <3>1, <3>4, SpineIsSomebody
  <2> QED
    BY <2>1, <2>2 DEF AsTree!NoOrphans
<1>2. ASSUME IInv, Next
      PROVE  AsTree!TreeNext \/ UNCHANGED AsTree!treeVars
  <2>1. PICK c \in Callers : Calls(c) \/ Serve(c)
    BY <1>2 DEF Next
  <2>2. CASE UNCHANGED <<leaves, parent>>
    BY <2>2 DEF AsTree!treeVars
  <2>3. CASE StoreLeaf(c)
    <3>1. /\ K(c).leaf \in Leaves \ leaves
          /\ leaves' = leaves \cup {K(c).leaf} /\ parent' = parent
      BY <1>2, <2>3, StoreLeafStep
    <3>2. AsTree!InsertLeaf(K(c).leaf, TheSpine)
      BY <3>1 DEF AsTree!InsertLeaf
    <3> QED
      BY <3>1, <3>2 DEF AsTree!TreeNext
  <2>4. CASE NumberServer(c)
    <3>1. /\ K(c).leaf \in leaves /\ K(c).server \in Servers /\ parent[K(c).server] = None
          /\ parent' = [parent EXCEPT ![K(c).server] = K(c).leaf] /\ leaves' = leaves
          /\ leaves \subseteq Leaves
      BY <1>2, <2>4, NumberServerStep DEF IInv, TypeOK
    <3>2. AsTree!InsertServer(K(c).server, K(c).leaf)
      BY <3>1, SpineIsSomebody DEF AsTree!InsertServer
    <3> QED
      BY <3>1, <3>2 DEF AsTree!TreeNext
  <2>5. CASE SliceServer(c)
    <3>1. /\ loc[c].victim \in Servers /\ parent[loc[c].victim] # None
          /\ parent' = [parent EXCEPT ![loc[c].victim] = None] /\ leaves' = leaves
      BY <1>2, <2>5, SliceServerStep
    <3>2. AsTree!DeleteServer(loc[c].victim)
      BY <3>1 DEF AsTree!DeleteServer
    <3> QED
      BY <3>1, <3>2 DEF AsTree!TreeNext
  <2>6. CASE CutLeaf(c)
    <3>1. PICK l \in Leaves :
            /\ l \in leaves /\ \A s \in Servers : parent[s] # l
            /\ leaves' = leaves \ {l} /\ parent' = parent
            /\ parent \in [Servers -> Leaves \cup {None}]
      BY <1>2, <2>6, CutLeafStep DEF IInv, TypeOK
    <3>2. AsTree!DeleteLeaf(l)
      BY <3>1, SpineIsSomebody DEF AsTree!DeleteLeaf
    <3> QED
      BY <3>2 DEF AsTree!TreeNext
  <2> QED
    BY <2>1, <2>2, <2>3, <2>4, <2>5, <2>6, MapSteps
<1>3. IInv /\ [Next]_vars => [AsTree!TreeNext]_(AsTree!treeVars)
  <2>1. UNCHANGED vars => UNCHANGED AsTree!treeVars
    BY DEF vars, tree, AsTree!treeVars
  <2> QED
    BY <1>2, <2>1
<1>4. Init => AsTree!TreeInit
  BY <1>1, InitEstablishes
<1> QED
  BY <1>3, <1>4, InductiveInvariant, PTL DEF Spec, CallsImplementTree, AsTree!TreeSpec

-----------------------------------------------------------------------------
(* Virtual clusters.  A step changes one VC at a time; these are the calls *)
(* that are in the middle of changing v.                                   *)

\* the turns of its loop that c has done
Done(c, v) == \E i \in 1 .. loc[c].i - 1 : loc[c].list[i] = v

Adds(c, v) == pc[c] = "listVC" /\ K(c).vc = v
Unlists(c, v) == pc[c] = "unlistVC" /\ K(c).vc = v

\* c has taken the server, or the leaf, out of v, and not yet v out of its list
TookServer(c, s, v) ==
  \/ pc[c] \in {"scan", "drop", "shed"} /\ K(c).server = s /\ Done(c, v)
  \/ pc[c] = "shed" /\ K(c).server = s /\ loc[c].vc = v
  \/ pc[c] = "dropLeaf" /\ s \in loc[c].lost /\ loc[c].vc = v
TookLeaf(c, l, v) == pc[c] \in {"detachLeaf", "dropLeaf"} /\ K(c).leaf = l /\ Done(c, v)

\* c has taken the last server below leaf l out of v, and not yet l itself
Leaving(c, l, v) ==
  /\ K(c).leaf = l /\ loc[c].vc = v
  /\ (pc[c] = "shed" /\ loc[c].alone) \/ pc[c] = "dropLeaf"

\* c has taken servers out, and next drops v if that were the last
Empties(c, v) == pc[c] \in {"shed", "dropLeaf"} /\ loc[c].vc = v

Present(v) == v \in vcs \/ \E c \in Callers : Unlists(c, v)
Added(v) == \A c \in Callers : ~Adds(c, v)

HasServer(v, s) == v \in Range(serverVCs[s])
HasLeaf(v, l) == v \in Range(leafVCs[l])

VCOK(v) ==
  /\ v \in vcs => vcServers[v] # {} \/ \E c \in Callers : Empties(c, v)
  /\ Present(v) => \A s \in vcServers[v] : parent[s] \in vcLeaves[v]
  /\ Present(v) => \A l \in vcLeaves[v] :
       (\E s \in vcServers[v] : parent[s] = l) \/ \E c \in Callers : Leaving(c, l, v)
  /\ Present(v) /\ Added(v) => \A s \in vcServers[v] : HasServer(v, s)
  /\ Present(v) /\ Added(v) => \A l \in vcLeaves[v] : HasLeaf(v, l)
  /\ \A s \in Servers : HasServer(v, s) =>
       (Present(v) /\ s \in vcServers[v]) \/ \E c \in Callers : TookServer(c, s, v)
  /\ \A l \in Leaves : HasLeaf(v, l) =>
       (Present(v) /\ l \in vcLeaves[v]) \/ \E c \in Callers : TookLeaf(c, l, v)
  /\ \A c \in Callers, s \in Servers : TookServer(c, s, v) => s \notin vcServers[v]
  /\ \A c \in Callers, l \in Leaves : TookLeaf(c, l, v) => l \notin vcLeaves[v]

\* the VC of the turn has another server of the leaf
HasSibling(c) ==
  /\ loc[c].vc \in vcs
  /\ \E s \in vcServers[loc[c].vc] : s # K(c).server /\ parent[s] = K(c).leaf

\* how far a call is, and what it relies on
LoopOK(c) ==
  /\ pc[c] \in {"scan", "drop", "shed", "detachLeaf", "dropLeaf"} =>
       loc[c].list = ListOf(K(c)) /\ loc[c].i \in 1 .. Len(loc[c].list) + 1
  /\ pc[c] \in {"drop", "shed", "dropLeaf"} =>
       loc[c].i \in 1 .. Len(loc[c].list) /\ loc[c].vc = loc[c].list[loc[c].i]
  /\ pc[c] \in {"drop", "shed"} /\ loc[c].alone =>
       \A s \in vcServers[loc[c].vc] : s # K(c).server => parent[s] # K(c).leaf
  /\ pc[c] = "drop" /\ ~loc[c].alone => HasSibling(c)
  /\ pc[c] = "dropLeaf" => \A s \in vcServers[loc[c].vc] : parent[s] # K(c).leaf

VCCallOK(c) ==
  /\ K(c).op = "FailServer" =>
       /\ Range(serverVCs[K(c).server]) \subseteq call[c].clusters
       /\ pc[c] \in Removing => serverVCs[K(c).server] = <<>>
  /\ K(c).op = "FailLeaf" =>
       /\ Range(leafVCs[K(c).leaf]) \subseteq call[c].clusters
       /\ pc[c] \notin {"listVCs", "detachLeaf", "dropLeaf"} => leafVCs[K(c).leaf] = <<>>
  /\ K(c).op = "AddVC" =>
       /\ K(c).vc \in call[c].clusters
       /\ K(c).servers # {}
       /\ K(c).leaves = {parent[s] : s \in K(c).servers}
       /\ \A s \in Servers : ~HasServer(K(c).vc, s)
       /\ \A l \in Leaves : ~HasLeaf(K(c).vc, l)
       /\ pc[c] = "storeVC" => K(c).vc \notin vcs
       /\ pc[c] = "listVC" => /\ K(c).vc \in vcs
                              /\ vcServers[K(c).vc] = K(c).servers
                              /\ vcLeaves[K(c).vc] = K(c).leaves
  /\ K(c).op = "RemoveVC" =>
       /\ K(c).vc \in call[c].clusters
       /\ pc[c] = "deleteVC" => K(c).vc \in vcs
       /\ pc[c] = "unlistVC" => K(c).vc \notin vcs

VCsApart(c, d) ==
  call[c] # None /\ call[d] # None =>
    /\ ~NewVCAndFail(K(c), K(d)) /\ ~NewVCAndFail(K(d), K(c))
    /\ \/ call[c].clusters \cap call[d].clusters = {}
       \/ Ops(K(c), K(d)) = {"FailServer"} /\ K(c).leaf # K(d).leaf

ListsOK ==
  /\ \A s \in Servers : IsInjective(serverVCs[s])
  /\ \A l \in Leaves : IsInjective(leafVCs[l])

VCInv ==
  /\ IInv
  /\ ListsOK
  /\ \A c \in Callers : LoopOK(c) /\ (call[c] # None => VCCallOK(c))
  /\ \A c, d \in Callers : c # d => VCsApart(c, d)
  /\ \A v \in VCIds : VCOK(v)

-----------------------------------------------------------------------------
(* What a list is after a VC was removed from it, and the slices.          *)

LEMMA UnlistedValue ==
  ASSUME NEW list \in Seq(VCIds), IsInjective(list), NEW v
  PROVE  /\ IsInjective(Unlisted(list, v))
         /\ \A w : w \in Range(Unlisted(list, v)) <=> w \in Range(list) /\ w # v
         /\ v \notin Range(list) => Unlisted(list, v) = list
<1>1. /\ PlaceOf(list, v) \in 0 .. Len(list)
      /\ PlaceOf(list, v) = 0 <=> \A i \in 1 .. Len(list) : list[i] # v
      /\ PlaceOf(list, v) # 0 => list[PlaceOf(list, v)] = v
      /\ Len(list) \in Nat
  BY PlaceOfValue
<1>2. v \in Range(list) <=> PlaceOf(list, v) # 0
  BY <1>1, RangeValue
<1>3. CASE PlaceOf(list, v) = 0
  BY <1>2, <1>3 DEF Unlisted
<1>4. CASE PlaceOf(list, v) # 0
  <2>1. PICK k \in 1 .. Len(list) : k = PlaceOf(list, v) /\ list[k] = v
    BY <1>1, <1>4
  <2>2. Unlisted(list, v) = RemoveAt(list, k)
    BY <1>4, <2>1 DEF Unlisted
  <2>3. /\ IsInjective(RemoveAt(list, k))
        /\ \A w : w \in Range(RemoveAt(list, k)) <=> w \in Range(list) /\ w # list[k]
    BY <2>1, RemoveFromInjective
  <2> QED
    BY <1>2, <1>4, <2>1, <2>2, <2>3
<1> QED
  BY <1>3, <1>4

\* removing what is not in the list moves nothing in a slice of it
LEMMA MovedDownValue ==
  ASSUME NEW slice \in Seq(VCIds), NEW list \in Seq(VCIds), NEW v, v \notin Range(list)
  PROVE  MovedDown(slice, list, v) = slice
<1>1. PlaceOf(list, v) = 0
  BY PlaceOfValue, RangeValue
<1>2. \A i \in 1 .. Len(slice) : ~ (PlaceOf(list, v) \in 1 .. i)
  BY <1>1
<1>3. MovedDown(slice, list, v) = [i \in 1 .. Len(slice) |-> slice[i]]
  BY <1>2 DEF MovedDown
<1> QED
  BY <1>3

LEMMA ListsType ==
  ASSUME VCInv
  PROVE  /\ \A s \in Servers : /\ serverVCs[s] \in Seq(VCIds) /\ IsInjective(serverVCs[s])
                               /\ Range(serverVCs[s]) \subseteq VCIds
         /\ \A l \in Leaves : /\ leafVCs[l] \in Seq(VCIds) /\ IsInjective(leafVCs[l])
                              /\ Range(leafVCs[l]) \subseteq VCIds
<1>1. /\ \A s \in Servers : serverVCs[s] \in Seq(VCIds) /\ IsInjective(serverVCs[s])
      /\ \A l \in Leaves : leafVCs[l] \in Seq(VCIds) /\ IsInjective(leafVCs[l])
  BY DEF VCInv, ListsOK, IInv, TypeOK
<1>2. ASSUME NEW list \in Seq(VCIds)
      PROVE  Range(list) \subseteq VCIds
  BY RangeValue
<1> QED
  BY <1>1, <1>2

\* the lists of the servers and leaves after RemoveFromVCLists
LEMMA RemovedFromLists ==
  ASSUME VCInv, NEW v, NEW servers, NEW inLeaves, RemoveFromVCLists(v, servers, inLeaves)
  PROVE  /\ ListsOK'
         /\ \A s \in Servers, w \in VCIds : HasServer(w, s)' <=> HasServer(w, s) /\ ~ (w = v /\ s \in servers)
         /\ \A l \in Leaves, w \in VCIds : HasLeaf(w, l)' <=> HasLeaf(w, l) /\ ~ (w = v /\ l \in inLeaves)
         /\ \A s \in Servers : ~HasServer(v, s) \/ s \notin servers => serverVCs'[s] = serverVCs[s]
         /\ \A l \in Leaves : ~HasLeaf(v, l) \/ l \notin inLeaves => leafVCs'[l] = leafVCs[l]
<1>1. /\ \A s \in Servers : serverVCs'[s] = IF s \in servers THEN Unlisted(serverVCs[s], v) ELSE serverVCs[s]
      /\ \A l \in Leaves : leafVCs'[l] = IF l \in inLeaves THEN Unlisted(leafVCs[l], v) ELSE leafVCs[l]
  BY DEF RemoveFromVCLists
<1>2. /\ \A s \in Servers : serverVCs[s] \in Seq(VCIds) /\ IsInjective(serverVCs[s])
      /\ \A l \in Leaves : leafVCs[l] \in Seq(VCIds) /\ IsInjective(leafVCs[l])
  BY ListsType
<1>3. ASSUME NEW s \in Servers
      PROVE  /\ IsInjective(serverVCs'[s])
             /\ \A w \in VCIds : HasServer(w, s)' <=> HasServer(w, s) /\ ~ (w = v /\ s \in servers)
             /\ ~HasServer(v, s) \/ s \notin servers => serverVCs'[s] = serverVCs[s]
  BY <1>1, <1>2, UnlistedValue DEF HasServer
<1>4. ASSUME NEW l \in Leaves
      PROVE  /\ IsInjective(leafVCs'[l])
             /\ \A w \in VCIds : HasLeaf(w, l)' <=> HasLeaf(w, l) /\ ~ (w = v /\ l \in inLeaves)
             /\ ~HasLeaf(v, l) \/ l \notin inLeaves => leafVCs'[l] = leafVCs[l]
  BY <1>1, <1>2, UnlistedValue DEF HasLeaf
<1> QED
  BY <1>3, <1>4 DEF ListsOK

-----------------------------------------------------------------------------
(* Whose VCs a call changes.                                               *)

LoopPlaces == {"scan", "drop", "shed", "detachLeaf", "dropLeaf"}

\* a call in a loop, and the VCs of its list
LEMMA LoopValue ==
  ASSUME VCInv, NEW c \in Callers, pc[c] \in LoopPlaces
  PROVE  /\ call[c] # None /\ LoopOK(c) /\ VCCallOK(c) /\ TreeCallOK(c) /\ loc[c] \in Local
         /\ K(c).leaf \in Leaves
         /\ pc[c] \in {"scan", "drop", "shed"} =>
              /\ K(c).op = "FailServer" /\ K(c).server \in Servers
              /\ ListOf(K(c)) = serverVCs[K(c).server]
              /\ Range(serverVCs[K(c).server]) \subseteq call[c].clusters
         /\ pc[c] \in {"detachLeaf", "dropLeaf"} =>
              /\ K(c).op = "FailLeaf" /\ ListOf(K(c)) = leafVCs[K(c).leaf]
              /\ Range(leafVCs[K(c).leaf]) \subseteq call[c].clusters
         /\ loc[c].list = ListOf(K(c)) /\ loc[c].list \in Seq(VCIds) /\ IsInjective(loc[c].list)
         /\ loc[c].i \in 1 .. Len(loc[c].list) + 1
         /\ Range(loc[c].list) \subseteq VCIds
         /\ Range(loc[c].list) \subseteq call[c].clusters
<1>1. /\ call[c] # None /\ TreeCallOK(c) /\ K(c) \in Call
      /\ pc[c] \in {"scan", "drop", "shed"} => K(c).op = "FailServer"
      /\ pc[c] \in {"detachLeaf", "dropLeaf"} => K(c).op = "FailLeaf"
  BY InCall, OpAt DEF VCInv, LoopPlaces
<1>2. /\ K(c).leaf \in Leaves
      /\ pc[c] \in {"scan", "drop", "shed"} => K(c).server \in Servers
  BY <1>1, CallFields DEF TreeOps, LoopPlaces
<1>3. LoopOK(c) /\ VCCallOK(c) /\ loc[c] \in Local
  BY <1>1 DEF VCInv, IInv, TypeOK
<1>4. loc[c].list = ListOf(K(c)) /\ loc[c].i \in 1 .. Len(loc[c].list) + 1
  BY <1>3 DEF LoopOK, LoopPlaces
<1>5. CASE pc[c] \in {"scan", "drop", "shed"}
  <2>1. ListOf(K(c)) = serverVCs[K(c).server]
    BY <1>1, <1>5 DEF ListOf
  <2>2. Range(serverVCs[K(c).server]) \subseteq call[c].clusters
    BY <1>1, <1>3, <1>5 DEF VCCallOK
  <2> QED
    BY <1>1, <1>2, <1>3, <1>4, <1>5, <2>1, <2>2, ListsType
<1>6. CASE pc[c] \in {"detachLeaf", "dropLeaf"}
  <2>1. ListOf(K(c)) = leafVCs[K(c).leaf]
    BY <1>1, <1>6 DEF ListOf
  <2>2. Range(leafVCs[K(c).leaf]) \subseteq call[c].clusters
    BY <1>1, <1>3, <1>6 DEF VCCallOK
  <2> QED
    BY <1>1, <1>2, <1>3, <1>4, <1>6, <2>1, <2>2, ListsType
<1> QED
  BY <1>5, <1>6 DEF LoopPlaces

\* the VC of a turn of the loop
LEMMA TurnValue ==
  ASSUME VCInv, NEW c \in Callers, pc[c] \in LoopPlaces, loc[c].i <= Len(loc[c].list)
  PROVE  LET v == loc[c].list[loc[c].i] IN
         /\ v \in VCIds /\ v \in call[c].clusters /\ v \in Range(loc[c].list)
         /\ loc[c].i \in 1 .. Len(loc[c].list)
         /\ ~Done(c, v)
         /\ pc[c] \in {"scan", "drop", "shed"} => HasServer(v, K(c).server)
         /\ pc[c] \in {"detachLeaf", "dropLeaf"} => HasLeaf(v, K(c).leaf)
<1> DEFINE list == loc[c].list
           i == loc[c].i
<1>1. /\ pc[c] \in {"scan", "drop", "shed"} => list = serverVCs[K(c).server]
      /\ pc[c] \in {"detachLeaf", "dropLeaf"} => list = leafVCs[K(c).leaf]
      /\ list \in Seq(VCIds) /\ IsInjective(list)
      /\ i \in 1 .. Len(list) + 1
      /\ Range(list) \subseteq VCIds
      /\ Range(list) \subseteq call[c].clusters
  BY LoopValue
<1> HIDE DEF list, i
<1>2. Len(list) \in Nat /\ i <= Len(list)
  BY <1>1 DEF list, i
<1>3. i \in 1 .. Len(list)
  BY <1>1, <1>2
<1>4. list[i] \in Range(list)
  BY <1>1, <1>3, RangeValue
<1>5. ~Done(c, list[i])
  <2>1. \A x, y \in 1 .. Len(list) : list[x] = list[y] => x = y
    BY <1>1, InjectiveValue
  <2>2. \A x \in 1 .. i - 1 : x \in 1 .. Len(list) /\ x # i
    BY <1>2, <1>3
  <2> QED
    BY <1>3, <2>1, <2>2 DEF Done, list, i
<1>6. /\ pc[c] \in {"scan", "drop", "shed"} => HasServer(list[i], K(c).server)
      /\ pc[c] \in {"detachLeaf", "dropLeaf"} => HasLeaf(list[i], K(c).leaf)
  BY <1>1, <1>4 DEF HasServer, HasLeaf
<1> QED
  BY <1>1, <1>3, <1>4, <1>5, <1>6 DEF list, i

LEMMA LoopVC ==
  ASSUME VCInv, NEW c \in Callers, pc[c] \in {"drop", "shed", "dropLeaf"}
  PROVE  /\ loc[c].vc \in VCIds /\ loc[c].vc \in call[c].clusters
         /\ loc[c].vc = loc[c].list[loc[c].i] /\ loc[c].i \in 1 .. Len(loc[c].list)
         /\ ~Done(c, loc[c].vc)
         /\ pc[c] \in {"drop", "shed"} => HasServer(loc[c].vc, K(c).server)
         /\ pc[c] = "dropLeaf" => HasLeaf(loc[c].vc, K(c).leaf)
<1>1. pc[c] \in LoopPlaces /\ LoopOK(c) /\ loc[c].list \in Seq(VCIds)
  BY LoopValue DEF LoopPlaces
<1>2. loc[c].vc = loc[c].list[loc[c].i] /\ loc[c].i \in 1 .. Len(loc[c].list)
  BY <1>1 DEF LoopOK
<1>3. loc[c].i <= Len(loc[c].list)
  BY <1>1, <1>2
<1> QED
  BY <1>1, <1>2, <1>3, TurnValue

\* a call that is changing a VC is about it
LEMMA ChangesItsClusters ==
  ASSUME VCInv, NEW c \in Callers, NEW v
  PROVE  /\ Adds(c, v) \/ Unlists(c, v) => call[c] # None /\ v \in call[c].clusters
         /\ Empties(c, v) => call[c] # None /\ v \in call[c].clusters
         /\ \A s : TookServer(c, s, v) => call[c] # None /\ v \in call[c].clusters
         /\ \A l : TookLeaf(c, l, v) => call[c] # None /\ v \in call[c].clusters
<1>1. ASSUME Adds(c, v) \/ Unlists(c, v)
      PROVE  call[c] # None /\ v \in call[c].clusters
  <2>1. pc[c] \in {"listVC", "unlistVC"} /\ K(c).vc = v
    BY <1>1 DEF Adds, Unlists
  <2>2. call[c] # None /\ K(c).op \in {"AddVC", "RemoveVC"}
    BY <2>1, InCall, OpAt DEF VCInv
  <2>3. VCCallOK(c)
    BY <2>2 DEF VCInv
  <2> QED
    BY <2>1, <2>2, <2>3 DEF VCCallOK
<1>2. ASSUME pc[c] \in {"drop", "shed", "dropLeaf"}, loc[c].vc = v
      PROVE  call[c] # None /\ v \in call[c].clusters
  BY <1>2, LoopVC, LoopValue DEF LoopPlaces
<1>3. ASSUME pc[c] \in LoopPlaces, Done(c, v)
      PROVE  call[c] # None /\ v \in call[c].clusters
  <2>1. /\ call[c] # None /\ loc[c].list \in Seq(VCIds)
        /\ loc[c].i \in 1 .. Len(loc[c].list) + 1
        /\ Range(loc[c].list) \subseteq call[c].clusters
    BY <1>3, LoopValue
  <2>2. PICK x \in 1 .. loc[c].i - 1 : loc[c].list[x] = v
    BY <1>3 DEF Done
  <2>3. x \in 1 .. Len(loc[c].list)
    BY <2>1, <2>2
  <2>4. v \in Range(loc[c].list)
    BY <2>1, <2>2, <2>3, RangeValue
  <2> QED
    BY <2>1, <2>4
<1> QED
  BY <1>1, <1>2, <1>3 DEF Empties, TookServer, TookLeaf, LoopPlaces

\* calls in progress together are about different VCs, but for servers that
\* fail below different leaves
LEMMA OtherClusters ==
  ASSUME VCInv, NEW c \in Callers, NEW d \in Callers, c # d, call[c] # None, call[d] # None,
         NEW v \in call[c].clusters, v \in call[d].clusters
  PROVE  K(c).op = "FailServer" /\ K(d).op = "FailServer" /\ K(c).leaf # K(d).leaf
<1>1. VCsApart(c, d)
  BY DEF VCInv
<1> QED
  BY <1>1 DEF VCsApart, Ops

-----------------------------------------------------------------------------
(* What a step leaves alone.                                               *)

\* nothing happens to caller d
Still(d) == call'[d] = call[d] /\ pc'[d] = pc[d] /\ loc'[d] = loc[d]

\* d does to v what it did before the step
SameStages(d, v) ==
  /\ Adds(d, v)' <=> Adds(d, v)
  /\ Unlists(d, v)' <=> Unlists(d, v)
  /\ Empties(d, v)' <=> Empties(d, v)
  /\ \A s \in Servers : TookServer(d, s, v)' <=> TookServer(d, s, v)
  /\ \A l \in Leaves : TookLeaf(d, l, v)' <=> TookLeaf(d, l, v)
  /\ \A l \in Leaves : Leaving(d, l, v)' <=> Leaving(d, l, v)

\* nothing happens to v
SameVC(v) ==
  /\ v \in vcs' <=> v \in vcs
  /\ vcServers'[v] = vcServers[v] /\ vcLeaves'[v] = vcLeaves[v]
  /\ \A s \in Servers : HasServer(v, s)' <=> HasServer(v, s)
  /\ \A l \in Leaves : HasLeaf(v, l)' <=> HasLeaf(v, l)

LEMMA StillStages ==
  ASSUME NEW d, Still(d), NEW v
  PROVE  SameStages(d, v)
<1>1. /\ call'[d] = call[d] /\ pc'[d] = pc[d] /\ loc'[d] = loc[d] /\ call'[d].of = call[d].of
  BY DEF Still
<1>2. (Adds(d, v)' <=> Adds(d, v)) /\ (Unlists(d, v)' <=> Unlists(d, v)) /\ (Empties(d, v)' <=> Empties(d, v))
  BY <1>1 DEF Adds, Unlists, Empties, K
<1>3. Done(d, v)' <=> Done(d, v)
  BY <1>1 DEF Done
<1>4. \A s \in Servers : TookServer(d, s, v)' <=> TookServer(d, s, v)
  BY <1>1, <1>3 DEF TookServer, K
<1>5. \A l \in Leaves : TookLeaf(d, l, v)' <=> TookLeaf(d, l, v)
  BY <1>1, <1>3 DEF TookLeaf, K
<1>6. \A l \in Leaves : Leaving(d, l, v)' <=> Leaving(d, l, v)
  BY <1>1 DEF Leaving, K
<1> QED
  BY <1>2, <1>4, <1>5, <1>6 DEF SameStages

\* a caller that is not at these places is not changing a VC
VCPlaces == LoopPlaces \cup {"listVC", "unlistVC"}

LEMMA NoStages ==
  ASSUME NEW d, NEW v, pc[d] \notin VCPlaces, pc'[d] \notin VCPlaces
  PROVE  SameStages(d, v)
<1>1. ~Adds(d, v) /\ ~Unlists(d, v) /\ ~Empties(d, v) /\ ~Adds(d, v)' /\ ~Unlists(d, v)' /\ ~Empties(d, v)'
  BY DEF VCPlaces, LoopPlaces, Adds, Unlists, Empties
<1>2. ASSUME NEW s \in Servers
      PROVE  ~TookServer(d, s, v) /\ ~TookServer(d, s, v)'
  BY DEF VCPlaces, LoopPlaces, TookServer
<1>3. ASSUME NEW l \in Leaves
      PROVE  ~TookLeaf(d, l, v) /\ ~TookLeaf(d, l, v)' /\ ~Leaving(d, l, v) /\ ~Leaving(d, l, v)'
  BY DEF VCPlaces, LoopPlaces, TookLeaf, Leaving
<1> QED
  BY <1>1, <1>2, <1>3 DEF SameStages

\* a VC, and those that change it, stay as they are
LEMMA VCKeeps ==
  ASSUME NEW v \in VCIds, VCOK(v), SameVC(v), \A d \in Callers : SameStages(d, v),
         vcServers[v] \subseteq Servers, vcLeaves[v] \subseteq Leaves,
         Present(v) => \A s \in vcServers[v] : parent'[s] = parent[s]
  PROVE  VCOK(v)'
<1>1. /\ \A d \in Callers : Adds(d, v)' <=> Adds(d, v)
      /\ \A d \in Callers : Unlists(d, v)' <=> Unlists(d, v)
      /\ \A d \in Callers : Empties(d, v)' <=> Empties(d, v)
      /\ \A d \in Callers, s \in Servers : TookServer(d, s, v)' <=> TookServer(d, s, v)
      /\ \A d \in Callers, l \in Leaves : TookLeaf(d, l, v)' <=> TookLeaf(d, l, v)
      /\ \A d \in Callers, l \in Leaves : Leaving(d, l, v)' <=> Leaving(d, l, v)
  BY DEF SameStages
<1>2. /\ v \in vcs' <=> v \in vcs
      /\ vcServers'[v] = vcServers[v] /\ vcLeaves'[v] = vcLeaves[v]
      /\ \A s \in Servers : HasServer(v, s)' <=> HasServer(v, s)
      /\ \A l \in Leaves : HasLeaf(v, l)' <=> HasLeaf(v, l)
  BY DEF SameVC
<1>3. (Present(v)' <=> Present(v)) /\ (Added(v)' <=> Added(v))
  BY <1>1, <1>2 DEF Present, Added
<1>4. v \in vcs' => vcServers'[v] # {} \/ \E d \in Callers : Empties(d, v)'
  BY <1>1, <1>2 DEF VCOK
<1>5. Present(v)' => \A s \in vcServers'[v] : parent'[s] \in vcLeaves'[v]
  BY <1>2, <1>3 DEF VCOK
<1>6. /\ Present(v)' /\ Added(v)' => \A s \in vcServers'[v] : HasServer(v, s)'
      /\ Present(v)' /\ Added(v)' => \A l \in vcLeaves'[v] : HasLeaf(v, l)'
  BY <1>2, <1>3 DEF VCOK
<1>7. \A s \in Servers : HasServer(v, s)' =>
         (Present(v)' /\ s \in vcServers'[v]) \/ \E d \in Callers : TookServer(d, s, v)'
  BY <1>1, <1>2, <1>3 DEF VCOK
<1>8. \A l \in Leaves : HasLeaf(v, l)' =>
         (Present(v)' /\ l \in vcLeaves'[v]) \/ \E d \in Callers : TookLeaf(d, l, v)'
  BY <1>1, <1>2, <1>3 DEF VCOK
<1>9. /\ \A d \in Callers, s \in Servers : TookServer(d, s, v)' => s \notin vcServers'[v]
      /\ \A d \in Callers, l \in Leaves : TookLeaf(d, l, v)' => l \notin vcLeaves'[v]
  BY <1>1, <1>2 DEF VCOK
<1>10. Present(v)' => \A l \in vcLeaves'[v] :
         (\E s \in vcServers'[v] : parent'[s] = l) \/ \E d \in Callers : Leaving(d, l, v)'
  BY <1>1, <1>2, <1>3 DEF VCOK
<1> QED
  BY <1>4, <1>5, <1>6, <1>7, <1>8, <1>9, <1>10 DEF VCOK

\* what caller d relies on stays
LEMMA CallerKeeps ==
  ASSUME VCInv, NEW d \in Callers, Still(d),
         call[d] # None /\ K(d).op = "FailServer" => serverVCs'[K(d).server] = serverVCs[K(d).server],
         call[d] # None /\ K(d).op = "FailLeaf" => leafVCs'[K(d).leaf] = leafVCs[K(d).leaf],
         call[d] # None /\ K(d).op \in {"FailServer", "FailLeaf"} =>
           /\ \A v \in call[d].clusters : vcServers'[v] \subseteq vcServers[v]
           /\ \A s \in Servers : parent'[s] = K(d).leaf => parent[s] = K(d).leaf,
         pc[d] \in {"drop", "shed"} /\ HasSibling(d) => HasSibling(d)',
         call[d] # None /\ K(d).op \in {"AddVC", "RemoveVC"} =>
           /\ K(d).vc \in vcs' <=> K(d).vc \in vcs
           /\ vcServers'[K(d).vc] = vcServers[K(d).vc] /\ vcLeaves'[K(d).vc] = vcLeaves[K(d).vc]
           /\ \A s \in Servers : HasServer(K(d).vc, s)' => HasServer(K(d).vc, s)
           /\ \A l \in Leaves : HasLeaf(K(d).vc, l)' => HasLeaf(K(d).vc, l),
         call[d] # None /\ K(d).op = "AddVC" => \A s \in K(d).servers : parent'[s] = parent[s]
  PROVE  LoopOK(d)' /\ (call'[d] # None => VCCallOK(d)')
<1>1. /\ call'[d] = call[d] /\ pc'[d] = pc[d] /\ loc'[d] = loc[d] /\ call'[d].of = call[d].of
      /\ K(d)' = K(d) /\ K(d) = call[d].of
  BY DEF Still, K
<1>2. LoopOK(d) /\ (call[d] # None => VCCallOK(d))
  BY DEF VCInv
<1>3. LoopOK(d)'
  <2>1. CASE pc[d] \notin LoopPlaces
    BY <1>1, <2>1 DEF LoopOK, LoopPlaces
  <2>2. CASE pc[d] \in LoopPlaces
    <3>1. call[d] # None /\ K(d).op \in {"FailServer", "FailLeaf"}
      BY <2>2, LoopValue DEF LoopPlaces
    <3>2. ListOf(K(d))' = ListOf(K(d))
      BY <1>1, <3>1 DEF ListOf
    <3>3. pc[d] \in {"drop", "shed", "dropLeaf"} =>
            /\ vcServers'[loc[d].vc] \subseteq vcServers[loc[d].vc]
            /\ vcServers[loc[d].vc] \subseteq Servers
      <4>1. ASSUME pc[d] \in {"drop", "shed", "dropLeaf"}
            PROVE  loc[d].vc \in call[d].clusters /\ loc[d].vc \in VCIds
        BY <4>1, LoopVC
      <4>2. vcServers \in [VCIds -> SUBSET Servers]
        BY DEF VCInv, IInv, TypeOK
      <4> QED
        BY <3>1, <4>1, <4>2
    <3>4. \A s \in Servers : parent'[s] = K(d).leaf => parent[s] = K(d).leaf
      BY <3>1
    <3> QED
      BY <1>1, <1>2, <3>2, <3>3, <3>4 DEF LoopOK
  <2> QED
    BY <2>1, <2>2
<1>4. ASSUME call[d] # None
      PROVE  VCCallOK(d)'
  <2>1. VCCallOK(d)
    BY <1>2, <1>4
  <2>2. K(d).op = "FailServer" =>
          /\ Range(serverVCs'[K(d).server]) \subseteq call[d].clusters
          /\ pc[d] \in Removing => serverVCs'[K(d).server] = <<>>
    BY <1>4, <2>1 DEF VCCallOK
  <2>3. K(d).op = "FailLeaf" =>
          /\ Range(leafVCs'[K(d).leaf]) \subseteq call[d].clusters
          /\ pc[d] \notin {"listVCs", "detachLeaf", "dropLeaf"} => leafVCs'[K(d).leaf] = <<>>
    BY <1>4, <2>1 DEF VCCallOK
  <2>4. K(d).op = "AddVC" =>
          /\ \A s \in Servers : ~HasServer(K(d).vc, s)'
          /\ \A l \in Leaves : ~HasLeaf(K(d).vc, l)'
          /\ K(d).leaves = {parent'[s] : s \in K(d).servers}
          /\ pc[d] = "storeVC" => K(d).vc \notin vcs'
          /\ pc[d] = "listVC" => /\ K(d).vc \in vcs'
                                 /\ vcServers'[K(d).vc] = K(d).servers
                                 /\ vcLeaves'[K(d).vc] = K(d).leaves
    BY <1>4, <2>1 DEF VCCallOK
  <2>5. K(d).op = "RemoveVC" =>
          /\ pc[d] = "deleteVC" => K(d).vc \in vcs'
          /\ pc[d] = "unlistVC" => K(d).vc \notin vcs'
    BY <1>4, <2>1 DEF VCCallOK
  <2> QED
    BY <1>1, <2>1, <2>2, <2>3, <2>4, <2>5 DEF VCCallOK
<1> QED
  BY <1>1, <1>3, <1>4

LEMMA StayApart ==
  ASSUME VCInv, NEW c \in Callers, call'[c] = call[c] \/ call'[c] = None,
         \A d \in Callers \ {c} : Still(d)
  PROVE  \A d, e \in Callers : d # e => VCsApart(d, e)'
<1>1. ASSUME NEW d \in Callers
      PROVE  call'[d] = call[d] \/ call'[d] = None
  BY DEF Still
<1>2. ASSUME NEW d \in Callers, NEW e \in Callers, d # e
      PROVE  VCsApart(d, e)'
  <2>1. VCsApart(d, e)
    BY <1>2 DEF VCInv
  <2>2. CASE call'[d] = None \/ call'[e] = None
    BY <2>2 DEF VCsApart
  <2>3. CASE call'[d] = call[d] /\ call'[e] = call[e]
    <3>1. K(d)' = K(d) /\ K(e)' = K(e)
      BY <2>3 DEF K
    <3> QED
      BY <2>1, <2>3, <3>1 DEF VCsApart, NewVCAndFail, Ops
  <2> QED
    BY <1>1, <2>2, <2>3
<1> QED
  BY <1>2

(* A step of c that changes no VC and no list.                             *)
LEMMA BooksStay ==
  ASSUME VCInv, IInv', NEW c \in Callers, UNCHANGED books,
         \A d \in Callers \ {c} : Still(d),
         \A v \in VCIds : SameStages(c, v),
         LoopOK(c)', call'[c] # None => VCCallOK(c)',
         \A d, e \in Callers : d # e => VCsApart(d, e)',
         \A s \in Servers : \/ parent'[s] = parent[s]
                            \/ /\ \A d \in Callers \ {c} :
                                    call[d] # None /\ K(d).op = "AddVC" => s \notin K(d).servers
                               /\ \A v \in VCIds : Present(v) => s \notin vcServers[v],
         \A d \in Callers \ {c} : call[d] # None /\ K(d).op \in {"FailServer", "FailLeaf"} =>
           \A s \in Servers : parent'[s] = K(d).leaf => parent[s] = K(d).leaf
  PROVE  VCInv'
<1>1. /\ vcs' = vcs /\ vcServers' = vcServers /\ vcLeaves' = vcLeaves
      /\ serverVCs' = serverVCs /\ leafVCs' = leafVCs
  BY DEF books
<1>2. /\ vcServers \in [VCIds -> SUBSET Servers] /\ vcLeaves \in [VCIds -> SUBSET Leaves]
      /\ call \in [Callers -> Served \cup {None}]
  BY DEF VCInv, IInv, TypeOK
<1>3. ListsOK'
  BY <1>1 DEF VCInv, ListsOK
<1>4. ASSUME NEW d \in Callers
      PROVE  LoopOK(d)' /\ (call'[d] # None => VCCallOK(d)')
  <2>1. CASE d = c
    BY <2>1
  <2>2. CASE d # c
    <3>1. Still(d)
      BY <2>2
    <3>2. \A s \in Servers : HasServer(K(d).vc, s)' => HasServer(K(d).vc, s)
      BY <1>1, <3>1 DEF HasServer, Still, K
    <3>3. \A l \in Leaves : HasLeaf(K(d).vc, l)' => HasLeaf(K(d).vc, l)
      BY <1>1, <3>1 DEF HasLeaf, Still, K
    <3>4. ASSUME call[d] # None, K(d).op = "AddVC"
          PROVE  \A s \in K(d).servers : parent'[s] = parent[s]
      <4>1. K(d) \in Call
        BY <1>2, <3>4 DEF Served, K
      <4>2. K(d).servers \subseteq Servers
        BY <3>4, <4>1, CallFields
      <4> QED
        BY <2>2, <3>4, <4>2
    <3>5. call[d] # None /\ K(d).op \in {"FailServer", "FailLeaf"} =>
            \A s \in Servers : parent'[s] = K(d).leaf => parent[s] = K(d).leaf
      BY <2>2
    <3>6. pc[d] \in {"drop", "shed"} /\ HasSibling(d) => HasSibling(d)'
      <4> SUFFICES ASSUME pc[d] \in {"drop", "shed"}, HasSibling(d)
                   PROVE  HasSibling(d)'
        OBVIOUS
      <4>1. PICK v \in VCIds : v = loc[d].vc
        BY LoopVC
      <4>2. v \in vcs /\ vcServers[v] \subseteq Servers
        BY <1>2, <4>1 DEF HasSibling
      <4>3. PICK s \in vcServers[v] : s # K(d).server /\ parent[s] = K(d).leaf
        BY <4>1 DEF HasSibling
      <4>4. parent'[s] = parent[s]
        BY <4>2, <4>3 DEF Present
      <4>5. K(d)' = K(d) /\ loc'[d] = loc[d]
        BY <3>1 DEF Still, K
      <4> QED
        BY <1>1, <4>1, <4>2, <4>3, <4>4, <4>5 DEF HasSibling
    <3> QED
      BY <1>1, <3>1, <3>2, <3>3, <3>4, <3>5, <3>6, CallerKeeps
  <2> QED
    BY <2>1, <2>2
<1>5. ASSUME NEW v \in VCIds
      PROVE  VCOK(v)'
  <2>1. SameVC(v)
    BY <1>1 DEF SameVC, HasServer, HasLeaf
  <2>2. \A d \in Callers : SameStages(d, v)
    BY StillStages
  <2>3. VCOK(v) /\ vcServers[v] \subseteq Servers /\ vcLeaves[v] \subseteq Leaves
    BY <1>2 DEF VCInv
  <2>4. Present(v) => \A s \in vcServers[v] : parent'[s] = parent[s]
    BY <2>3
  <2> QED
    BY <2>1, <2>2, <2>3, <2>4, VCKeeps
<1> QED
  BY <1>3, <1>4, <1>5 DEF VCInv

(* A step of c that changes one VC, that its call is about.                *)
LEMMA OneVCChanges ==
  ASSUME VCInv, IInv', NEW c \in Callers, call[c] # None, NEW w \in call[c].clusters,
         parent' = parent, call'[c] = call[c] \/ call'[c] = None,
         \A d \in Callers \ {c} : Still(d),
         \A v \in VCIds \ {w} : SameVC(v) /\ SameStages(c, v),
         K(c).op = "FailServer" =>
           /\ vcServers'[w] \subseteq vcServers[w]
           /\ \A s \in vcServers[w] \ vcServers'[w] : parent[s] = K(c).leaf
           /\ w \in vcs /\ vcServers'[w] # {} => w \in vcs',
         \A d \in Callers \ {c} : call[d] # None =>
           /\ K(d).op = "FailServer" => serverVCs'[K(d).server] = serverVCs[K(d).server]
           /\ K(d).op = "FailLeaf" => leafVCs'[K(d).leaf] = leafVCs[K(d).leaf],
         ListsOK', LoopOK(c)', call'[c] # None => VCCallOK(c)',
         VCOK(w)'
  PROVE  VCInv'
<1>1. /\ vcServers \in [VCIds -> SUBSET Servers] /\ vcLeaves \in [VCIds -> SUBSET Leaves]
      /\ call \in [Callers -> Served \cup {None}]
  BY DEF VCInv, IInv, TypeOK
<1>2. ASSUME NEW d \in Callers
      PROVE  LoopOK(d)' /\ (call'[d] # None => VCCallOK(d)')
  <2>1. CASE d = c
    BY <2>1
  <2>2. CASE d # c
    <3>1. Still(d)
      BY <2>2
    <3>2. ASSUME call[d] # None, K(d).op \in {"FailServer", "FailLeaf"}
          PROVE  \A v \in call[d].clusters : vcServers'[v] \subseteq vcServers[v]
      <4>1. ASSUME NEW v \in call[d].clusters
            PROVE  vcServers'[v] \subseteq vcServers[v]
        <5>1. CASE v = w
          <6>1. K(c).op = "FailServer"
            BY <2>2, <3>2, <4>1, <5>1, OtherClusters
          <6> QED
            BY <5>1, <6>1
        <5>2. CASE v # w
          <6>1. call[d] \in Served
            BY <1>1, <3>2
          <6>2. v \in VCIds
            BY <6>1 DEF Served
          <6> QED
            BY <5>2, <6>2 DEF SameVC
        <5> QED
          BY <5>1, <5>2
      <4> QED
        BY <4>1
    <3>3. ASSUME call[d] # None, K(d).op \in {"AddVC", "RemoveVC"}
          PROVE  SameVC(K(d).vc) /\ K(d).vc \in VCIds
      <4>1. VCCallOK(d) /\ call[d] \in Served
        BY <1>1, <3>3 DEF VCInv
      <4>2. K(d).vc \in call[d].clusters /\ K(d) \in Call
        BY <3>3, <4>1 DEF VCCallOK, Served, K
      <4>3. K(d).vc # w
        BY <2>2, <3>3, <4>2, OtherClusters
      <4> QED
        BY <3>3, <4>2, <4>3, CallFields
    <3>4. call[d] # None /\ K(d).op \in {"AddVC", "RemoveVC"} =>
            /\ K(d).vc \in vcs' <=> K(d).vc \in vcs
            /\ vcServers'[K(d).vc] = vcServers[K(d).vc] /\ vcLeaves'[K(d).vc] = vcLeaves[K(d).vc]
            /\ \A s \in Servers : HasServer(K(d).vc, s)' => HasServer(K(d).vc, s)
            /\ \A l \in Leaves : HasLeaf(K(d).vc, l)' => HasLeaf(K(d).vc, l)
      <4> SUFFICES ASSUME call[d] # None, K(d).op \in {"AddVC", "RemoveVC"}
                   PROVE  /\ K(d).vc \in vcs' <=> K(d).vc \in vcs
                          /\ vcServers'[K(d).vc] = vcServers[K(d).vc] /\ vcLeaves'[K(d).vc] = vcLeaves[K(d).vc]
                          /\ \A s \in Servers : HasServer(K(d).vc, s)' => HasServer(K(d).vc, s)
                          /\ \A l \in Leaves : HasLeaf(K(d).vc, l)' => HasLeaf(K(d).vc, l)
        OBVIOUS
      <4>1. PICK v \in VCIds : v = K(d).vc /\ SameVC(v)
        BY <3>3
      <4>2. K(d)' = K(d)
        BY <3>1 DEF Still, K
      <4> QED
        BY <4>1, <4>2 DEF SameVC, HasServer, HasLeaf
    <3>5. call[d] # None =>
            /\ K(d).op = "FailServer" => serverVCs'[K(d).server] = serverVCs[K(d).server]
            /\ K(d).op = "FailLeaf" => leafVCs'[K(d).leaf] = leafVCs[K(d).leaf]
      BY <2>2
    <3>6. pc[d] \in {"drop", "shed"} /\ HasSibling(d) => HasSibling(d)'
      <4> SUFFICES ASSUME pc[d] \in {"drop", "shed"}, HasSibling(d)
                   PROVE  HasSibling(d)'
        OBVIOUS
      <4>1. PICK v \in VCIds : v = loc[d].vc /\ v \in call[d].clusters
        BY LoopVC
      <4>2. PICK s \in vcServers[v] : s # K(d).server /\ parent[s] = K(d).leaf
        BY <4>1 DEF HasSibling
      <4>3. v \in vcs /\ call[d] # None
        BY <4>1, LoopValue DEF HasSibling, LoopPlaces
      <4>4. v \in vcs' /\ s \in vcServers'[v]
        <5>1. CASE v = w
          <6>1. K(c).op = "FailServer" /\ K(c).leaf # K(d).leaf
            BY <2>2, <4>1, <4>3, <5>1, OtherClusters
          <6> QED
            BY <4>2, <4>3, <5>1, <6>1
        <5>2. CASE v # w
          BY <4>2, <4>3, <5>2 DEF SameVC
        <5> QED
          BY <5>1, <5>2
      <4>5. K(d)' = K(d) /\ loc'[d] = loc[d]
        BY <3>1 DEF Still, K
      <4> QED
        BY <4>1, <4>2, <4>4, <4>5 DEF HasSibling
    <3> QED
      BY <3>1, <3>2, <3>4, <3>5, <3>6, CallerKeeps
  <2> QED
    BY <2>1, <2>2
<1>3. ASSUME NEW v \in VCIds
      PROVE  VCOK(v)'
  <2>1. CASE v = w
    BY <2>1
  <2>2. CASE v # w
    <3>1. SameVC(v) /\ \A d \in Callers : SameStages(d, v)
      BY <2>2, StillStages
    <3>2. VCOK(v) /\ vcServers[v] \subseteq Servers /\ vcLeaves[v] \subseteq Leaves
      BY <1>1 DEF VCInv
    <3> QED
      BY <3>1, <3>2, VCKeeps
  <2> QED
    BY <2>1, <2>2
<1>4. \A d, e \in Callers : d # e => VCsApart(d, e)'
  BY StayApart
<1> QED
  BY <1>2, <1>3, <1>4 DEF VCInv

\* removing a VC from lists changes no slice of another call
LEMMA SlicesStay ==
  ASSUME VCInv, NEW c \in Callers, call[c] # None, NEW v \in call[c].clusters,
         NEW servers, NEW inLeaves,
         K(c).op = "FailServer" => servers = {},
         pc[c] \in LoopPlaces => /\ K(c).op = "FailServer" => K(c).server \notin servers
                                 /\ K(c).op = "FailLeaf" => K(c).leaf \notin inLeaves
  PROVE  LocalsAfter(v, servers, inLeaves) = loc
<1>1. loc \in [Callers -> Local]
  BY DEF VCInv, IInv, TypeOK
<1> DEFINE Hit(d) == InLoop(d) /\ (IF K(d).op = "FailServer" THEN K(d).server \in servers ELSE K(d).leaf \in inLeaves)
           New(d) == [loc[d] EXCEPT !.list = MovedDown(@, ListOf(K(d)), v)]
<1>2. ASSUME NEW d \in Callers, Hit(d)
      PROVE  New(d) = loc[d]
  <2>1. /\ pc[d] \in LoopPlaces
        /\ IF K(d).op = "FailServer" THEN K(d).server \in servers ELSE K(d).leaf \in inLeaves
    BY <1>2 DEF InLoop, LoopPlaces
  <2>2. /\ call[d] # None /\ K(d).op \in {"FailServer", "FailLeaf"}
        /\ loc[d] \in Local /\ loc[d].list = ListOf(K(d)) /\ loc[d].list \in Seq(VCIds)
        /\ Range(loc[d].list) \subseteq call[d].clusters
    BY <2>1, LoopValue DEF LoopPlaces
  <2>3. d # c
    BY <2>1, <2>2
  <2>4. v \notin call[d].clusters
    BY <2>1, <2>2, <2>3, OtherClusters
  <2>5. MovedDown(loc[d].list, ListOf(K(d)), v) = loc[d].list
    BY <2>2, <2>4, MovedDownValue
  <2> QED
    BY <2>2, <2>5 DEF Local
<1>3. LocalsAfter(v, servers, inLeaves) = [d \in Callers |-> IF Hit(d) THEN New(d) ELSE loc[d]]
  BY DEF LocalsAfter
<1> HIDE DEF Hit, New
<1>4. LocalsAfter(v, servers, inLeaves) = [d \in Callers |-> loc[d]]
  BY <1>2, <1>3
<1> QED
  BY <1>1, <1>4

-----------------------------------------------------------------------------
(* The steps at the tree.                                                  *)

PlainPlaces == {"appendLeaf", "storeLeaf", "appendServer", "numberServer", "lookUp", "lock", "last",
                "slice", "drain", "first", "lockLeaf", "cutLeaf"}

LEMMA PlainStep ==
  ASSUME VCInv, IInv', NEW c \in Callers, UNCHANGED books,
         pc[c] \in PlainPlaces, pc'[c] \in PlainPlaces \cup {"idle"},
         call'[c] = call[c] \/ call'[c] = None,
         \A d \in Callers \ {c} : Still(d),
         \A s \in Servers : \/ parent'[s] = parent[s]
                            \/ /\ \A d \in Callers \ {c} :
                                    call[d] # None /\ K(d).op = "AddVC" => s \notin K(d).servers
                               /\ \A v \in VCIds : Present(v) => s \notin vcServers[v],
         \A d \in Callers \ {c} : call[d] # None /\ K(d).op \in {"FailServer", "FailLeaf"} =>
           \A s \in Servers : parent'[s] = K(d).leaf => parent[s] = K(d).leaf
  PROVE  VCInv'
<1>1. \A v \in VCIds : SameStages(c, v)
  BY NoStages DEF PlainPlaces, VCPlaces, LoopPlaces
<1>2. LoopOK(c)'
  BY DEF LoopOK, PlainPlaces
<1>3. /\ call[c] # None /\ <<K(c).op, pc[c]>> \in Stages /\ VCCallOK(c)
  BY InCall DEF VCInv, PlainPlaces
<1>4. ASSUME call'[c] # None
      PROVE  VCCallOK(c)'
  <2>1. call'[c] = call[c] /\ K(c)' = K(c)
    BY <1>4 DEF K
  <2>2. K(c).op \notin {"AddVC", "RemoveVC"} /\ (K(c).op = "FailServer" => pc[c] \in Removing)
    BY <1>3 DEF Stages, PlainPlaces, Removing
  <2>3. pc[c] \notin {"listVCs", "detachLeaf", "dropLeaf"}
    BY DEF PlainPlaces
  <2> QED
    BY <1>3, <2>1, <2>2, <2>3 DEF VCCallOK, books
<1>5. \A d, e \in Callers : d # e => VCsApart(d, e)'
  BY StayApart
<1> QED
  BY <1>1, <1>2, <1>4, <1>5, BooksStay

LEMMA TreeStepKeepsVCs ==
  ASSUME VCInv, IInv', NEW c \in Callers,
         \/ AppendLeaf(c) \/ StoreLeaf(c) \/ AppendServer(c)
         \/ LookUp(c) \/ LockTopology(c) \/ SetLeafLast(c)
         \/ Drain(c) \/ First(c) \/ LockForLeaf(c) \/ CutLeaf(c)
  PROVE  VCInv'
<1>1. /\ pc \in [Callers -> Labels] /\ call \in [Callers -> Served \cup {None}]
      /\ loc \in [Callers -> Local]
  BY DEF VCInv, IInv, TypeOK
<1>2. up'
  BY DEF IInv
<1>3. /\ pc[c] \in PlainPlaces /\ parent' = parent /\ UNCHANGED books
      /\ \E label \in PlainPlaces \cup {"idle"} : pc' = [pc EXCEPT ![c] = label]
      /\ \/ call' = call
         \/ call' = [call EXCEPT ![c] = None]
      /\ \/ loc' = loc
         \/ \E new : loc' = [loc EXCEPT ![c] = new]
  <2>1. CASE AppendLeaf(c) \/ StoreLeaf(c) \/ AppendServer(c) \/ SetLeafLast(c)
    BY <2>1 DEF AppendLeaf, StoreLeaf, AppendServer, SetLeafLast, At, Goto, Return, PlainPlaces
  <2>2. CASE LookUp(c) \/ Drain(c)
    BY <2>2 DEF LookUp, Drain, AfterRemoveServer, At, Goto, Return, PlainPlaces, tree
  <2>3. CASE LockTopology(c) \/ LockForLeaf(c)
    <3>1. /\ pc[c] \in {"lock", "lockLeaf"} /\ parent' = parent /\ UNCHANGED books /\ call' = call
          /\ pc' = [pc EXCEPT ![c] = "last"] \/ pc' = [pc EXCEPT ![c] = "cutLeaf"]
      BY <2>3 DEF LockTopology, LockForLeaf, At, Goto
    <3>2. \E new : loc' = [loc EXCEPT ![c] = new]
      <4>1. ASSUME NEW x, NEW y, loc' = [loc EXCEPT ![c].at = x, ![c].total = y]
            PROVE  loc' = [loc EXCEPT ![c] = [loc[c] EXCEPT !.at = x, !.total = y]]
        BY <1>1, <4>1
      <4>2. ASSUME NEW x, loc' = [loc EXCEPT ![c].at = x]
            PROVE  loc' = [loc EXCEPT ![c] = [loc[c] EXCEPT !.at = x]]
        BY <1>1, <4>2
      <4>3. CASE LockTopology(c)
        <5>1. \E x, y : loc' = [loc EXCEPT ![c].at = x, ![c].total = y]
          BY <4>3, Zenon DEF LockTopology
        <5> QED
          BY <4>1, <5>1
      <4>4. CASE LockForLeaf(c)
        <5>1. \E x : loc' = [loc EXCEPT ![c].at = x]
          BY <4>4, Zenon DEF LockForLeaf
        <5> QED
          BY <4>2, <5>1
      <4> QED
        BY <2>3, <4>3, <4>4
    <3> QED
      BY <3>1, <3>2 DEF PlainPlaces
  <2>4. CASE First(c)
    BY <1>1, <1>2, <2>4 DEF First, Panic, At, Goto, PlainPlaces, tree
  <2>5. CASE CutLeaf(c)
    BY <1>2, <2>5 DEF CutLeaf, Panic, At, Return, PlainPlaces
  <2> QED
    BY <2>1, <2>2, <2>3, <2>4, <2>5
<1>4. \A d \in Callers \ {c} : Still(d)
  BY <1>1, <1>3 DEF Still
<1>5. pc'[c] \in PlainPlaces \cup {"idle"} /\ (call'[c] = call[c] \/ call'[c] = None)
  BY <1>1, <1>3
<1> QED
  BY <1>3, <1>4, <1>5, PlainStep

\* a server that is added is in no VC
LEMMA NumberServerKeepsVCs ==
  ASSUME VCInv, IInv', NEW c \in Callers, NumberServer(c)
  PROVE  VCInv'
<1>1. PICK l \in Leaves, s \in Servers :
        /\ pc[c] = "numberServer" /\ K(c).op = "AddServer" /\ l = K(c).leaf /\ s = K(c).server
        /\ call[c] # None /\ TreeCallOK(c)
  BY InCall, OpAt, CallFields DEF NumberServer, At, TreeOps, VCInv
<1>2. /\ pc \in [Callers -> Labels] /\ call \in [Callers -> Served \cup {None}]
      /\ loc \in [Callers -> Local] /\ parent \in [Servers -> Leaves \cup {None}]
      /\ vcLeaves \in [VCIds -> SUBSET Leaves]
  BY DEF VCInv, IInv, TypeOK
<1>3. /\ parent' = [parent EXCEPT ![s] = l]
      /\ pc' = [pc EXCEPT ![c] = "idle"] /\ call' = [call EXCEPT ![c] = None] /\ loc' = loc
      /\ UNCHANGED books
  BY <1>1 DEF NumberServer, Return
<1>4. \A d \in Callers \ {c} : Still(d)
  BY <1>2, <1>3 DEF Still
<1>5. /\ parent[s] = None
      /\ \A t \in Servers : t # s => parent'[t] = parent[t]
      /\ parent'[s] = l
  BY <1>1, <1>2, <1>3 DEF TreeCallOK
<1>6. ASSUME NEW d \in Callers \ {c}, call[d] # None, K(d).op = "AddVC"
      PROVE  s \notin K(d).servers
  <2>1. VCCallOK(d) /\ K(d) \in Call
    BY <1>2, <1>6 DEF VCInv, Served, K
  <2>2. K(d).leaves \subseteq Leaves /\ K(d).leaves = {parent[x] : x \in K(d).servers}
    BY <1>6, <2>1, CallFields DEF VCCallOK
  <2> QED
    BY <1>5, <2>2, NoneIsNobody
<1>7. ASSUME NEW v \in VCIds, Present(v)
      PROVE  s \notin vcServers[v]
  BY <1>2, <1>5, <1>7, NoneIsNobody DEF VCInv, VCOK
<1>8. ASSUME NEW d \in Callers \ {c}, call[d] # None, K(d).op \in {"FailServer", "FailLeaf"}
      PROVE  \A t \in Servers : parent'[t] = K(d).leaf => parent[t] = K(d).leaf
  <2>1. K(d).leaf # l
    BY <1>1, <1>8, Conflicts DEF VCInv, TreeOps
  <2> QED
    BY <1>5, <2>1
<1>9. pc[c] \in PlainPlaces /\ pc'[c] \in PlainPlaces \cup {"idle"} /\ call'[c] = None
  BY <1>1, <1>2, <1>3 DEF PlainPlaces
<1> QED
  BY <1>3, <1>4, <1>5, <1>6, <1>7, <1>8, <1>9, PlainStep

\* a server is removed when it has been taken out of every VC
LEMMA SliceServerKeepsVCs ==
  ASSUME VCInv, IInv', NEW c \in Callers, SliceServer(c)
  PROVE  VCInv'
<1>1. PICK l \in Leaves, s \in Servers :
        /\ pc[c] = "slice" /\ l = K(c).leaf /\ s = loc[c].victim
        /\ call[c] # None /\ TreeCallOK(c) /\ K(c).op \in {"FailServer", "FailLeaf"}
        /\ parent[s] = l
  BY Remover DEF SliceServer, At, Removing, VCInv
<1>2. /\ pc \in [Callers -> Labels] /\ call \in [Callers -> Served \cup {None}]
      /\ loc \in [Callers -> Local] /\ parent \in [Servers -> Leaves \cup {None}]
      /\ vcLeaves \in [VCIds -> SUBSET Leaves]
      /\ serverVCs \in [Servers -> Seq(VCIds)] /\ leafVCs \in [Leaves -> Seq(VCIds)]
      /\ up'
  BY DEF VCInv, IInv, TypeOK
<1>3. /\ parent' = [parent EXCEPT ![s] = None]
      /\ \/ pc' = [pc EXCEPT ![c] = "idle"] /\ call' = [call EXCEPT ![c] = None]
         \/ pc' = [pc EXCEPT ![c] = "drain"] /\ call' = call
      /\ loc' = [loc EXCEPT ![c] = NoLocals]
      /\ UNCHANGED books
  BY <1>1, <1>2 DEF SliceServer, Panic, AfterRemoveServer, Return, Goto
<1>4. \A d \in Callers \ {c} : Still(d)
  BY <1>2, <1>3 DEF Still
<1>5. /\ \A t \in Servers : t # s => parent'[t] = parent[t]
      /\ parent'[s] = None
  BY <1>1, <1>2, <1>3 DEF TreeCallOK, Removing
<1>6. ASSUME NEW d \in Callers \ {c}, call[d] # None, K(d).op = "AddVC"
      PROVE  s \notin K(d).servers
  <2>1. VCCallOK(d) /\ ~NewVCAndFail(K(d), K(c))
    BY <1>1, <1>6 DEF VCInv, VCsApart
  <2>2. CASE K(c).op = "FailServer"
    <3>1. s = K(c).server
      BY <1>1, <2>2 DEF TreeCallOK, Removing
    <3> QED
      BY <1>6, <2>1, <2>2, <3>1 DEF NewVCAndFail
  <2>3. CASE K(c).op = "FailLeaf"
    <3>1. l \notin K(d).leaves
      BY <1>1, <1>6, <2>1, <2>3 DEF NewVCAndFail
    <3> QED
      BY <1>1, <1>6, <2>1, <3>1 DEF VCCallOK
  <2> QED
    BY <1>1, <2>2, <2>3
<1>7. ASSUME NEW v \in VCIds, Present(v), s \in vcServers[v]
      PROVE  FALSE
  <2>1. VCOK(v) /\ VCCallOK(c)
    BY <1>1 DEF VCInv
  <2>2. CASE Added(v)
    <3>1. HasServer(v, s) /\ HasLeaf(v, l)
      <4>1. HasServer(v, s) /\ parent[s] \in vcLeaves[v]
        BY <1>7, <2>1, <2>2 DEF VCOK
      <4>2. HasLeaf(v, l)
        BY <1>1, <1>7, <2>1, <2>2, <4>1 DEF VCOK
      <4> QED
        BY <4>1, <4>2
    <3>2. CASE K(c).op = "FailServer"
      <4>1. s = K(c).server /\ serverVCs[s] = <<>>
        BY <1>1, <2>1, <3>2 DEF TreeCallOK, VCCallOK, Removing
      <4>2. Range(<<>>) = {}
        BY EmptyValue
      <4> QED
        BY <3>1, <4>1, <4>2 DEF HasServer
    <3>3. CASE K(c).op = "FailLeaf"
      <4>1. leafVCs[l] = <<>>
        BY <1>1, <2>1, <3>3 DEF VCCallOK
      <4>2. Range(<<>>) = {}
        BY EmptyValue
      <4> QED
        BY <3>1, <4>1, <4>2 DEF HasLeaf
    <3> QED
      BY <1>1, <3>2, <3>3
  <2>3. CASE ~Added(v)
    <3>1. PICK d \in Callers : Adds(d, v)
      BY <2>3 DEF Added
    <3>2. call[d] # None /\ K(d).op = "AddVC" /\ K(d).vc = v
      BY <3>1, InCall, OpAt DEF VCInv, Adds
    <3>3. VCCallOK(d)
      BY <3>2 DEF VCInv
    <3>4. s \in K(d).servers
      BY <1>7, <3>1, <3>2, <3>3 DEF VCCallOK, Adds
    <3> QED
      BY <1>1, <1>6, <3>2, <3>4
  <2> QED
    BY <2>2, <2>3
<1>8. ASSUME NEW d \in Callers \ {c}, call[d] # None, K(d).op \in {"FailServer", "FailLeaf"}
      PROVE  \A t \in Servers : parent'[t] = K(d).leaf => parent[t] = K(d).leaf
  <2>1. K(d).leaf \in Leaves
    <3>1. K(d) \in Call
      BY <1>2, <1>8 DEF Served, K
    <3> QED
      BY <1>8, <3>1, CallFields DEF TreeOps
  <2> QED
    BY <1>5, <2>1, NoneIsNobody
<1>9. /\ pc[c] \in PlainPlaces /\ pc'[c] \in PlainPlaces \cup {"idle"}
      /\ call'[c] = call[c] \/ call'[c] = None
  BY <1>1, <1>2, <1>3 DEF PlainPlaces
<1> QED
  BY <1>3, <1>4, <1>5, <1>6, <1>7, <1>8, <1>9, PlainStep

-----------------------------------------------------------------------------
(* A new call, where there are no races.                                   *)

LEMMA BeginValue ==
  ASSUME Overlaps = {}, VCInv, NEW c \in Callers, NEW k \in Call, NEW label, Begin(c, k, label)
  PROVE  /\ call[c] = None /\ pc[c] = "idle" /\ pc'[c] = label
         /\ call'[c] # None /\ K(c)' = k
         /\ call'[c].clusters = Clusters(k)
         /\ parent' = parent /\ nodes' = nodes
         /\ \A d \in Callers \ {c} : Still(d)
         /\ \A d \in Callers \ {c} : call[d] # None /\ k.op \notin {"FailServer"} =>
              Clusters(k) \cap call[d].clusters = {}
         /\ \A d, e \in Callers : d # e => VCsApart(d, e)'
<1> DEFINE new == [of |-> k, clusters |-> Clusters(k)]
<1>1. /\ call[c] = None
      /\ \A d \in Callers : call[d] # None => MayOverlap(k, call[d])
      /\ call' = [call EXCEPT ![c] = new]
      /\ pc' = [pc EXCEPT ![c] = label]
      /\ UNCHANGED <<tree, loc>>
  BY DEF Begin
<1>2. /\ pc \in [Callers -> Labels] /\ call \in [Callers -> Served \cup {None}]
  BY DEF VCInv, IInv, TypeOK
<1>3. new \in Served /\ new.of = k /\ new.clusters = Clusters(k)
  BY ClustersType DEF Served, VCInv
<1> HIDE DEF new
<1>4. /\ pc[c] = "idle" /\ pc'[c] = label /\ call'[c] = new /\ new # None /\ K(c)' = k
      /\ \A d \in Callers \ {c} : Still(d)
  <2>1. pc[c] = "idle"
    BY <1>1 DEF VCInv, IInv, CallerOK
  <2>2. pc'[c] = label /\ call'[c] = new /\ new # None
    BY <1>1, <1>2, <1>3, NoneIsNoCall
  <2>3. \A d \in Callers \ {c} : Still(d)
    BY <1>1, <1>2 DEF Still
  <2> QED
    BY <1>3, <2>1, <2>2, <2>3 DEF K
<1>5. ASSUME NEW d \in Callers \ {c}, call[d] # None
      PROVE  /\ ~NewVCAndFail(k, K(d)) /\ ~NewVCAndFail(K(d), k)
             /\ \/ Clusters(k) \cap call[d].clusters = {}
                \/ Ops(k, K(d)) = {"FailServer"} /\ k.leaf # K(d).leaf
  <2>1. MayOverlap(k, call[d]) /\ \A race : ~Happens(race)
    BY <1>1, <1>5 DEF Happens
  <2>2. ~FailTwice(k, K(d)) /\ ~NewVCAndFail(k, K(d)) /\ ~NewVCAndFail(K(d), k)
    BY <2>1 DEF MayOverlap, K
  <2>3. ASSUME Clusters(k) \cap call[d].clusters # {}
        PROVE  Ops(k, K(d)) = {"FailServer"} /\ ~ (OneLeaf(k, K(d), {"FailServer"}) /\ k.server # K(d).server)
    BY <2>1, <2>3 DEF MayOverlap, K
  <2> QED
    BY <2>2, <2>3 DEF FailTwice, OneLeaf, OneServer
<1>6. \A d, e \in Callers : d # e => VCsApart(d, e)'
  <2>1. ASSUME NEW d \in Callers \ {c}
        PROVE  VCsApart(c, d)' /\ VCsApart(d, c)'
    <3>1. call'[d] = call[d] /\ K(d)' = K(d)
      BY <1>4 DEF Still, K
    <3>2. Ops(K(d), k) = Ops(k, K(d))
      BY DEF Ops
    <3>3. /\ Ops(K(c), K(d))' = Ops(k, K(d)) /\ Ops(K(d), K(c))' = Ops(K(d), k)
          /\ NewVCAndFail(K(c), K(d))' <=> NewVCAndFail(k, K(d))
          /\ NewVCAndFail(K(d), K(c))' <=> NewVCAndFail(K(d), k)
      BY <1>4, <3>1 DEF Ops, NewVCAndFail
    <3> QED
      BY <1>3, <1>4, <1>5, <3>1, <3>2, <3>3 DEF VCsApart
  <2>2. ASSUME NEW d \in Callers \ {c}, NEW e \in Callers \ {c}, d # e
        PROVE  VCsApart(d, e)'
    <3>1. call'[d] = call[d] /\ K(d)' = K(d) /\ call'[e] = call[e] /\ K(e)' = K(e)
      BY <1>4 DEF Still, K
    <3>2. VCsApart(d, e)
      BY <2>2 DEF VCInv
    <3> QED
      BY <3>1, <3>2 DEF VCsApart, NewVCAndFail, Ops
  <2> QED
    BY <2>1, <2>2
<1>7. ASSUME NEW d \in Callers \ {c}, call[d] # None, k.op # "FailServer"
      PROVE  Clusters(k) \cap call[d].clusters = {}
  BY <1>5, <1>7 DEF Ops
<1> QED
  BY <1>1, <1>3, <1>4, <1>6, <1>7 DEF tree

LEMMA BeginKeepsVCs ==
  ASSUME Overlaps = {}, VCInv, IInv', NEW c \in Callers, NEW k \in Call,
         NEW label \in {"appendLeaf", "appendServer", "listVCs", "storeVC", "deleteVC"},
         Begin(c, k, label), <<k.op, label>> \in Stages, UNCHANGED books,
         k.op = "RemoveVC" => k.vc \in vcs,
         k.op = "AddVC" => /\ k.vc \notin vcs /\ k.servers # {}
                           /\ k.leaves = {parent[s] : s \in k.servers}
  PROVE  VCInv'
<1>1. /\ call[c] = None /\ pc[c] = "idle" /\ pc'[c] = label
      /\ call'[c] # None /\ K(c)' = k
      /\ call'[c].clusters = Clusters(k)
      /\ parent' = parent
      /\ \A d \in Callers \ {c} : Still(d)
      /\ \A d, e \in Callers : d # e => VCsApart(d, e)'
  BY BeginValue
<1>2. \A v \in VCIds : SameStages(c, v)
  BY <1>1, NoStages DEF VCPlaces, LoopPlaces
<1>3. LoopOK(c)'
  BY <1>1 DEF LoopOK
<1>4. VCCallOK(c)'
  <2>1. /\ label \notin Removing /\ label \notin {"unlistVC", "listVC"}
        /\ k.op = "FailLeaf" => label = "listVCs"
    BY DEF Stages, Removing
  <2>2. k.op = "FailServer" => Clusters(k) = Range(serverVCs[k.server])
    BY DEF Clusters
  <2>3. k.op = "FailLeaf" => Clusters(k) = Range(leafVCs[k.leaf])
    BY DEF Clusters
  <2>4. k.op \in {"AddVC", "RemoveVC"} => Clusters(k) = {k.vc} /\ k.vc \in VCIds
    BY CallFields DEF Clusters
  <2>5. serverVCs' = serverVCs /\ leafVCs' = leafVCs /\ vcs' = vcs
    BY DEF books
\* a new VC is in no list, as no call in progress is about it
  <2>6. ASSUME k.op = "AddVC"
        PROVE  /\ \A s \in Servers : ~HasServer(k.vc, s)
               /\ \A l \in Leaves : ~HasLeaf(k.vc, l)
    <3>1. PICK w \in VCIds : w = k.vc
      BY <2>4, <2>6
    <3>2. \A d \in Callers \ {c} : call[d] # None => Clusters(k) \cap call[d].clusters = {}
      BY <2>6, BeginValue
    <3>3. \A d \in Callers : call[d] # None => w \notin call[d].clusters
      BY <1>1, <2>4, <2>6, <3>1, <3>2
    <3>4. \A d \in Callers : /\ ~Unlists(d, w)
                             /\ \A s : ~TookServer(d, s, w)
                             /\ \A l : ~TookLeaf(d, l, w)
      BY <3>3, ChangesItsClusters
    <3>5. VCOK(w) /\ ~Present(w)
      BY <2>6, <3>1, <3>4 DEF VCInv, Present
    <3> QED
      BY <3>1, <3>4, <3>5 DEF VCOK
  <2>7. /\ \A s : HasServer(k.vc, s)' <=> HasServer(k.vc, s)
        /\ \A l : HasLeaf(k.vc, l)' <=> HasLeaf(k.vc, l)
    BY <2>5 DEF HasServer, HasLeaf
  <2> QED
    BY <1>1, <2>1, <2>2, <2>3, <2>4, <2>5, <2>6, <2>7 DEF VCCallOK
<1> QED
  BY <1>1, <1>2, <1>3, <1>4, BooksStay

LEMMA CallsKeepVCs ==
  ASSUME Overlaps = {}, VCInv, IInv', NEW c \in Callers, Calls(c)
  PROVE  VCInv'
<1>1. ASSUME NEW l \in Leaves, CallAddLeaf(c, l)
      PROVE  VCInv'
  <2> DEFINE k == [op |-> "AddLeaf", leaf |-> l]
  <2>1. k \in Call /\ k.op = "AddLeaf" /\ <<k.op, "appendLeaf">> \in Stages
    BY DEF Call, Stages
  <2>2. Begin(c, k, "appendLeaf") /\ UNCHANGED books
    BY <1>1 DEF CallAddLeaf
  <2> HIDE DEF k
  <2> QED
    BY <2>1, <2>2, BeginKeepsVCs
<1>2. ASSUME NEW l \in Leaves, CallFailLeaf(c, l)
      PROVE  VCInv'
  <2> DEFINE k == [op |-> "FailLeaf", leaf |-> l]
  <2>1. k \in Call /\ k.op = "FailLeaf" /\ <<k.op, "listVCs">> \in Stages
    BY DEF Call, Stages
  <2>2. Begin(c, k, "listVCs") /\ UNCHANGED books
    BY <1>2 DEF CallFailLeaf
  <2> HIDE DEF k
  <2> QED
    BY <2>1, <2>2, BeginKeepsVCs
<1>3. ASSUME NEW s \in Servers, CallFailServer(c, s)
      PROVE  VCInv'
  <2> DEFINE k == [op |-> "FailServer", server |-> s, leaf |-> parent[s]]
  <2>1. parent[s] \in Leaves
    BY <1>3 DEF CallFailServer, VCInv, IInv, TypeOK
  <2>2. k \in Call /\ k.op = "FailServer" /\ <<k.op, "listVCs">> \in Stages
    BY <2>1 DEF Call, Stages
  <2>3. Begin(c, k, "listVCs") /\ UNCHANGED books
    BY <1>3 DEF CallFailServer
  <2> HIDE DEF k
  <2> QED
    BY <2>2, <2>3, BeginKeepsVCs
<1>4. ASSUME NEW s \in Servers, NEW l \in Leaves, CallAddServer(c, s, l)
      PROVE  VCInv'
  <2> DEFINE k == [op |-> "AddServer", server |-> s, leaf |-> l]
  <2>1. k \in Call /\ k.op = "AddServer" /\ <<k.op, "appendServer">> \in Stages
    BY DEF Call, Stages
  <2>2. Begin(c, k, "appendServer") /\ UNCHANGED books
    BY <1>4 DEF CallAddServer
  <2> HIDE DEF k
  <2> QED
    BY <2>1, <2>2, BeginKeepsVCs
<1>5. ASSUME NEW v \in VCIds, CallRemoveVC(c, v)
      PROVE  VCInv'
  <2> DEFINE k == [op |-> "RemoveVC", vc |-> v]
  <2>1. k \in Call /\ k.op = "RemoveVC" /\ k.vc = v /\ <<k.op, "deleteVC">> \in Stages
    BY DEF Call, Stages
  <2>2. Begin(c, k, "deleteVC") /\ UNCHANGED books /\ v \in vcs
    BY <1>5 DEF CallRemoveVC
  <2> HIDE DEF k
  <2> QED
    BY <2>1, <2>2, BeginKeepsVCs
<1>6. ASSUME NEW v \in VCIds, NEW servers \in (SUBSET Servers) \ {{}}, CallAddVC(c, v, servers)
      PROVE  VCInv'
  <2> DEFINE below == {parent[s] : s \in servers}
             k == [op |-> "AddVC", vc |-> v, servers |-> servers, leaves |-> below]
  <2>1. below \subseteq Leaves
    BY <1>6 DEF CallAddVC, VCInv, IInv, TypeOK
  <2>2. Begin(c, k, "storeVC") /\ UNCHANGED books /\ v \notin vcs
    BY <1>6 DEF CallAddVC
  <2> HIDE DEF below
  <2>3. /\ k \in Call /\ k.op = "AddVC" /\ <<k.op, "storeVC">> \in Stages
        /\ k.vc = v /\ k.servers = servers /\ k.leaves = below
    BY <2>1 DEF Call, Stages
  <2> HIDE DEF k
  <2>4. k.leaves = {parent[s] : s \in k.servers} /\ k.servers # {}
    BY <2>3 DEF below
  <2> QED
    BY <2>2, <2>3, <2>4, BeginKeepsVCs
<1> QED
  BY <1>1, <1>2, <1>3, <1>4, <1>5, <1>6 DEF Calls

\* no call makes or removes the VC that a failing server is taken out of, or a leaf
LEMMA NobodyElse ==
  ASSUME VCInv, NEW c \in Callers, call[c] # None, NEW w \in call[c].clusters
  PROVE  /\ K(c).op # "AddVC" => Added(w)
         /\ K(c).op # "RemoveVC" => \A d \in Callers : ~Unlists(d, w)
         /\ K(c).op # "FailLeaf" => \A d \in Callers, l \in Leaves : ~TookLeaf(d, l, w)
         /\ K(c).op # "FailServer" => \A d \in Callers \ {c} :
              /\ ~Empties(d, w)
              /\ \A s \in Servers : ~TookServer(d, s, w)
              /\ \A l \in Leaves : ~TookLeaf(d, l, w)
<1>1. ASSUME NEW d \in Callers, d # c, call[d] # None, w \in call[d].clusters
      PROVE  K(c).op = "FailServer" /\ K(d).op = "FailServer"
  BY <1>1, OtherClusters
<1>2. ASSUME NEW d \in Callers
      PROVE  /\ Adds(d, w) => K(d).op = "AddVC"
             /\ Unlists(d, w) => K(d).op = "RemoveVC"
             /\ \A l \in Leaves : TookLeaf(d, l, w) => K(d).op = "FailLeaf"
  BY OpAt DEF VCInv, Adds, Unlists, TookLeaf
<1>3. ASSUME NEW d \in Callers, Adds(d, w)
      PROVE  K(c).op = "AddVC"
  BY <1>1, <1>2, <1>3, ChangesItsClusters
<1>4. ASSUME NEW d \in Callers, Unlists(d, w)
      PROVE  K(c).op = "RemoveVC"
  BY <1>1, <1>2, <1>4, ChangesItsClusters
<1>5. ASSUME NEW d \in Callers, NEW l \in Leaves, TookLeaf(d, l, w)
      PROVE  K(c).op = "FailLeaf"
  BY <1>1, <1>2, <1>5, ChangesItsClusters
<1>6. ASSUME K(c).op # "FailServer", NEW d \in Callers \ {c}
      PROVE  /\ ~Empties(d, w)
             /\ \A s \in Servers : ~TookServer(d, s, w)
             /\ \A l \in Leaves : ~TookLeaf(d, l, w)
  BY <1>1, <1>6, ChangesItsClusters
<1> QED
  BY <1>3, <1>4, <1>5, <1>6 DEF Added

-----------------------------------------------------------------------------
(* The loop of DetachServer.                                               *)

LEMMA ListVCsKeepsVCs ==
  ASSUME VCInv, IInv', NEW c \in Callers, ListVCs(c)
  PROVE  VCInv'
<1> DEFINE label == IF K(c).op = "FailServer" THEN "scan" ELSE "detachLeaf"
<1>1. /\ pc[c] = "listVCs" /\ K(c).op \in {"FailServer", "FailLeaf"} /\ ListOf(K(c)) \in Seq(VCIds)
      /\ call[c] # None /\ VCCallOK(c)
  BY InCall, OpAt, ListOfType DEF ListVCs, At, VCInv
<1>2. /\ pc \in [Callers -> Labels] /\ loc \in [Callers -> Local]
  BY DEF VCInv, IInv, TypeOK
<1>3. /\ loc' = [loc EXCEPT ![c] = [loc[c] EXCEPT !.list = ListOf(K(c)), !.i = 1]]
      /\ pc' = [pc EXCEPT ![c] = label] /\ call' = call /\ parent' = parent /\ UNCHANGED books
  BY <1>2 DEF ListVCs, Goto, tree
<1>4. /\ loc'[c].list = ListOf(K(c)) /\ loc'[c].i = 1
      /\ pc'[c] = label /\ call'[c] = call[c] /\ K(c)' = K(c)
      /\ \A d \in Callers \ {c} : Still(d)
  BY <1>2, <1>3 DEF Local, Still, K
<1>5. ASSUME NEW v \in VCIds
      PROVE  SameStages(c, v)
  <2>1. ~Done(c, v)'
    BY <1>4 DEF Done
  <2> QED
    BY <1>1, <1>4, <2>1 DEF SameStages, Adds, Unlists, Empties, TookServer, TookLeaf, Leaving
<1>6. LoopOK(c)'
  <2>1. ListOf(K(c))' = ListOf(K(c))
    BY <1>3, <1>4 DEF ListOf, books
  <2>2. 1 \in 1 .. Len(ListOf(K(c))) + 1
    BY <1>1
  <2> QED
    BY <1>4, <2>1, <2>2 DEF LoopOK
<1>7. VCCallOK(c)'
  BY <1>1, <1>3, <1>4 DEF VCCallOK, Removing, books
<1>8. \A d, e \in Callers : d # e => VCsApart(d, e)'
  BY <1>4, StayApart
<1> QED
  BY <1>3, <1>4, <1>5, <1>6, <1>7, <1>8, BooksStay

LEMMA ScanSiblingsKeepsVCs ==
  ASSUME VCInv, IInv', NEW c \in Callers, ScanSiblings(c)
  PROVE  VCInv'
<1> DEFINE v == loc[c].list[loc[c].i]
           alone == /\ K(c).server \in vcServers[v]
                    /\ (IdsOf(nodes[K(c).leaf]) \ {K(c).server}) \cap vcServers[v] = {}
<1>1. /\ pc[c] = "scan" /\ K(c).op = "FailServer" /\ call[c] # None /\ VCCallOK(c) /\ LoopOK(c)
      /\ K(c).leaf \in Leaves
      /\ loc[c].i <= Len(loc[c].list)
      /\ loc[c].list \in Seq(VCIds) /\ loc[c].i \in 1 .. Len(loc[c].list) + 1
  BY LoopValue DEF ScanSiblings, At, MoreVCs, LoopPlaces
<1>2. v \in VCIds /\ loc[c].i \in 1 .. Len(loc[c].list)
  BY <1>1, TurnValue DEF LoopPlaces
<1>3. /\ pc \in [Callers -> Labels] /\ loc \in [Callers -> Local] /\ loc[c] \in Local
      /\ vcServers \in [VCIds -> SUBSET Servers]
  BY DEF VCInv, IInv, TypeOK
<1>4. /\ loc' = [loc EXCEPT ![c] = [loc[c] EXCEPT !.vc = v, !.alone = alone]]
      /\ pc' = [pc EXCEPT ![c] = "drop"] /\ call' = call /\ UNCHANGED <<parent, nodes>> /\ UNCHANGED books
  BY <1>3 DEF ScanSiblings, Goto, tree
<1>5. alone => \A s \in vcServers[v] : s # K(c).server => parent[s] # K(c).leaf
  <2>1. \A s \in Servers : parent[s] = K(c).leaf => s \in IdsOf(nodes[K(c).leaf])
    BY <1>1 DEF VCInv, IInv, ServersOK
  <2> QED
    BY <1>2, <1>3, <2>1
\* the server is in the VC; another one that is there too is below a leaf of
\* the VC, so it is not one that is being added
<1>12. ~alone => /\ v \in vcs
                 /\ \E s \in vcServers[v] : s # K(c).server /\ parent[s] = K(c).leaf
  <2> SUFFICES ASSUME ~alone
               PROVE  /\ v \in vcs
                      /\ \E s \in vcServers[v] : s # K(c).server /\ parent[s] = K(c).leaf
    OBVIOUS
  <2>1. PICK t \in Servers, l \in Leaves, w \in VCIds :
          /\ t = K(c).server /\ l = K(c).leaf /\ w = v
          /\ w \in call[c].clusters /\ HasServer(w, t) /\ ~Done(c, w) /\ TreeCallOK(c)
    BY <1>1, <1>2, LoopValue, TurnValue DEF LoopPlaces
  <2>2. ASSUME NEW d \in Callers, TookServer(d, t, w)
        PROVE  FALSE
    <3>1. d # c
      BY <1>1, <2>1, <2>2 DEF TookServer
    <3>2. call[d] # None /\ w \in call[d].clusters
      BY <2>2, ChangesItsClusters
    <3>3. K(d).op = "FailServer" /\ K(d).leaf # l
      BY <1>1, <2>1, <3>1, <3>2, OtherClusters
    <3>4. K(d).server = t
      BY <2>2, <3>3, OpAt DEF TookServer, VCInv
    <3>5. parent[t] = l /\ parent[t] = K(d).leaf
      BY <1>1, <2>1, <3>2, <3>3, <3>4 DEF TreeCallOK, VCInv, IInv
    <3> QED
      BY <3>3, <3>5
  <2>3. VCOK(w) /\ \A d \in Callers : ~Unlists(d, w)
    BY <1>1, <2>1, NobodyElse DEF VCInv
  <2>4. w \in vcs /\ t \in vcServers[w] /\ \A s \in vcServers[w] : parent[s] \in vcLeaves[w]
    BY <2>1, <2>2, <2>3 DEF VCOK, Present
  <2>5. PICK s \in Servers : s # t /\ s \in IdsOf(nodes[l]) /\ s \in vcServers[w]
    BY <1>3, <2>1, <2>4
  <2>6. parent[s] # None
    <3>1. vcLeaves[w] \subseteq Leaves
      BY DEF VCInv, IInv, TypeOK
    <3> QED
      BY <2>4, <2>5, <3>1, NoneIsNobody
  <2>7. ASSUME leafLock[l] # None, K(leafLock[l]).server = s
        PROVE  FALSE
    <3>1. PICK d \in Callers : d = leafLock[l] /\ pc[d] = "numberServer" /\ K(d).op = "AddServer"
      BY <2>7, HoldersOfLocks DEF VCInv
    <3>2. TreeCallOK(d)
      BY <3>1, InCall DEF VCInv
    <3> QED
      BY <2>6, <2>7, <3>1, <3>2 DEF TreeCallOK
  <2>8. parent[s] = l
    BY <2>5, <2>7 DEF VCInv, IInv, ServersOK
  <2> QED
    BY <2>1, <2>4, <2>5, <2>8
<1>6. PICK w \in VCIds, a \in BOOLEAN : w = v /\ a = alone
  BY <1>2
<1> HIDE DEF v, alone
<1>7. /\ loc'[c].list = loc[c].list /\ loc'[c].i = loc[c].i /\ loc'[c].vc = w /\ loc'[c].alone = a
      /\ pc'[c] = "drop" /\ call'[c] = call[c] /\ K(c)' = K(c)
      /\ \A d \in Callers \ {c} : Still(d)
  BY <1>3, <1>4, <1>6 DEF Local, Still, K
<1>8. ASSUME NEW u \in VCIds
      PROVE  SameStages(c, u)
  <2>1. Done(c, u)' <=> Done(c, u)
    BY <1>7 DEF Done
  <2> QED
    BY <1>1, <1>7, <2>1 DEF SameStages, Adds, Unlists, Empties, TookServer, TookLeaf, Leaving
<1>9. LoopOK(c)'
  <2>1. ListOf(K(c))' = ListOf(K(c)) /\ vcServers' = vcServers /\ parent' = parent
    BY <1>4, <1>7 DEF ListOf, books
  <2>2. w = loc[c].list[loc[c].i]
    BY <1>6 DEF v
  <2>3. loc[c].list = ListOf(K(c))
    BY <1>1 DEF LoopOK
  <2>4. ~a => HasSibling(c)'
    BY <1>4, <1>6, <1>7, <1>12 DEF HasSibling, books
  <2> QED
    BY <1>1, <1>2, <1>5, <1>6, <1>7, <2>1, <2>2, <2>3, <2>4 DEF LoopOK
<1>10. VCCallOK(c)'
  BY <1>1, <1>4, <1>7 DEF VCCallOK, Removing, books
<1>11. \A d, e \in Callers : d # e => VCsApart(d, e)'
  BY <1>7, StayApart
<1> QED
  BY <1>4, <1>7, <1>8, <1>9, <1>10, <1>11, BooksStay

LEMMA DropServerKeepsVCs ==
  ASSUME VCInv, IInv', NEW c \in Callers, DropServer(c)
  PROVE  VCInv'
<1>1. PICK w \in VCIds, t \in Servers :
        /\ pc[c] = "drop" /\ K(c).op = "FailServer" /\ call[c] # None /\ VCCallOK(c) /\ LoopOK(c)
        /\ w = loc[c].vc /\ w \in call[c].clusters /\ t = K(c).server
        /\ parent[t] = K(c).leaf
  BY LoopValue, LoopVC DEF DropServer, At, LoopPlaces, TreeCallOK
<1>2. /\ pc \in [Callers -> Labels] /\ vcServers \in [VCIds -> SUBSET Servers]
      /\ vcLeaves \in [VCIds -> SUBSET Leaves]
  BY DEF VCInv, IInv, TypeOK
<1>3. /\ vcServers' = [vcServers EXCEPT ![w] = @ \ {t}]
      /\ pc' = [pc EXCEPT ![c] = "shed"] /\ call' = call /\ parent' = parent
      /\ UNCHANGED <<vcs, vcLeaves, serverVCs, leafVCs, loc>>
  BY <1>1 DEF DropServer, Goto, tree
<1>4. /\ \A v \in VCIds \ {w} : vcServers'[v] = vcServers[v]
      /\ vcServers'[w] = vcServers[w] \ {t}
      /\ pc'[c] = "shed" /\ call'[c] = call[c] /\ K(c)' = K(c)
      /\ \A d \in Callers \ {c} : Still(d)
  BY <1>2, <1>3 DEF Still, K
<1>5. /\ \A v, s : HasServer(v, s)' <=> HasServer(v, s)
      /\ \A v, l : HasLeaf(v, l)' <=> HasLeaf(v, l)
      /\ \A v : Done(c, v)' <=> Done(c, v)
  BY <1>3 DEF HasServer, HasLeaf, Done
<1>6. ASSUME NEW v \in VCIds
      PROVE  /\ v # w => SameStages(c, v)
             /\ (Adds(c, v)' <=> Adds(c, v)) /\ (Unlists(c, v)' <=> Unlists(c, v))
             /\ \A s \in Servers : TookServer(c, s, v)' <=> TookServer(c, s, v) \/ (v = w /\ s = t)
             /\ \A l \in Leaves : TookLeaf(c, l, v)' <=> TookLeaf(c, l, v)
             /\ v = w => Empties(c, v)'
  BY <1>1, <1>3, <1>4, <1>5 DEF SameStages, Adds, Unlists, Empties, TookServer, TookLeaf, Leaving
<1>7. \A v \in VCIds \ {w} : SameVC(v) /\ SameStages(c, v)
  BY <1>3, <1>4, <1>5, <1>6 DEF SameVC
<1>8. LoopOK(c)'
  BY <1>1, <1>3, <1>4 DEF LoopOK, ListOf
<1>9. VCCallOK(c)'
  BY <1>1, <1>3, <1>4 DEF VCCallOK, Removing
<1>10. VCOK(w)'
  <2>1. VCOK(w)
    BY DEF VCInv
  <2>2. ASSUME NEW d \in Callers, d # c
        PROVE  SameStages(d, w)
    BY <1>4, <2>2, StillStages
  <2>3. \A d \in Callers : /\ Adds(d, w)' <=> Adds(d, w)
                           /\ Unlists(d, w)' <=> Unlists(d, w)
                           /\ \A s \in Servers : TookServer(d, s, w)' <=> TookServer(d, s, w) \/ (d = c /\ s = t)
                           /\ \A l \in Leaves : TookLeaf(d, l, w)' <=> TookLeaf(d, l, w)
    BY <1>6, <2>2 DEF SameStages
  <2>4. (Present(w)' <=> Present(w)) /\ (Added(w)' <=> Added(w))
    BY <1>3, <2>3 DEF Present, Added
  <2>5. /\ w \in vcs' => \E d \in Callers : Empties(d, w)'
        /\ Present(w)' => \A s \in vcServers'[w] : parent'[s] \in vcLeaves'[w]
        /\ Present(w)' /\ Added(w)' => \A s \in vcServers'[w] : HasServer(w, s)'
        /\ Present(w)' /\ Added(w)' => \A l \in vcLeaves'[w] : HasLeaf(w, l)'
    BY <1>3, <1>4, <1>5, <1>6, <2>1, <2>4 DEF VCOK
  <2>6. /\ \A s \in Servers : HasServer(w, s)' =>
             (Present(w)' /\ s \in vcServers'[w]) \/ \E d \in Callers : TookServer(d, s, w)'
        /\ \A l \in Leaves : HasLeaf(w, l)' =>
             (Present(w)' /\ l \in vcLeaves'[w]) \/ \E d \in Callers : TookLeaf(d, l, w)'
    BY <1>3, <1>4, <1>5, <2>1, <2>3, <2>4 DEF VCOK
  <2>7. /\ \A d \in Callers, s \in Servers : TookServer(d, s, w)' => s \notin vcServers'[w]
        /\ \A d \in Callers, l \in Leaves : TookLeaf(d, l, w)' => l \notin vcLeaves'[w]
    BY <1>3, <1>4, <2>1, <2>3 DEF VCOK
  <2>8. ASSUME Present(w)', NEW l \in vcLeaves'[w]
        PROVE  (\E s \in vcServers'[w] : parent'[s] = l) \/ \E d \in Callers : Leaving(d, l, w)'
    <3>1. Present(w) /\ l \in vcLeaves[w] /\ l \in Leaves
      BY <1>2, <1>3, <2>4, <2>8
    <3>2. CASE \E s \in vcServers[w] : s # t /\ parent[s] = l
      BY <1>3, <1>4, <3>2
    <3>3. CASE \E d \in Callers : Leaving(d, l, w)
      <4>1. PICK d \in Callers : Leaving(d, l, w)
        BY <3>3
      <4>2. d # c
        BY <1>1, <4>1 DEF Leaving
      <4> QED
        BY <2>2, <3>1, <4>1, <4>2 DEF SameStages
    <3>4. CASE parent[t] = l
      <4>1. CASE loc[c].alone
        BY <1>1, <1>3, <1>4, <3>4, <4>1 DEF Leaving
      <4>2. CASE ~loc[c].alone
        BY <1>1, <3>2, <3>4, <4>2 DEF LoopOK, HasSibling
      <4> QED
        BY <4>1, <4>2
    <3> QED
      BY <2>1, <3>1, <3>2, <3>3, <3>4 DEF VCOK
  <2> QED
    BY <2>5, <2>6, <2>7, <2>8 DEF VCOK
<1>11. ListsOK'
  BY <1>3 DEF VCInv, ListsOK
<1>12. /\ vcServers'[w] \subseteq vcServers[w]
       /\ \A s \in vcServers[w] \ vcServers'[w] : parent[s] = K(c).leaf
       /\ w \in vcs => w \in vcs'
  BY <1>1, <1>3, <1>4
<1> QED
  BY <1>1, <1>3, <1>4, <1>7, <1>8, <1>9, <1>10, <1>11, <1>12, OneVCChanges

\* lists and slices after a VC is taken out of the lists of the given nodes
LEMMA ListsOfOthers ==
  ASSUME VCInv, NEW c \in Callers, call[c] # None, NEW w \in call[c].clusters,
         NEW servers, NEW inLeaves, RemoveFromVCLists(w, servers, inLeaves),
         K(c).op = "FailServer" => servers = {}
  PROVE  \A d \in Callers \ {c} : call[d] # None =>
           /\ K(d).op = "FailServer" => serverVCs'[K(d).server] = serverVCs[K(d).server]
           /\ K(d).op = "FailLeaf" => leafVCs'[K(d).leaf] = leafVCs[K(d).leaf]
<1>1. /\ \A s \in Servers : ~HasServer(w, s) \/ s \notin servers => serverVCs'[s] = serverVCs[s]
      /\ \A l \in Leaves : ~HasLeaf(w, l) \/ l \notin inLeaves => leafVCs'[l] = leafVCs[l]
  BY RemovedFromLists
<1>2. ASSUME NEW d \in Callers, d # c, call[d] # None
      PROVE  /\ K(d).op = "FailServer" => serverVCs'[K(d).server] = serverVCs[K(d).server]
             /\ K(d).op = "FailLeaf" => leafVCs'[K(d).leaf] = leafVCs[K(d).leaf]
  <2>1. VCCallOK(d) /\ K(d) \in Call
    BY <1>2 DEF VCInv, IInv, TypeOK, Served, K
  <2>2. CASE K(d).op = "FailServer"
    <3>1. PICK s \in Servers : s = K(d).server /\ Range(serverVCs[s]) \subseteq call[d].clusters
      BY <2>1, <2>2, CallFields DEF VCCallOK
    <3>2. CASE K(c).op = "FailServer"
      BY <1>1, <2>2, <3>1, <3>2
    <3>3. CASE K(c).op # "FailServer"
      <4>1. w \notin call[d].clusters
        BY <1>2, <3>3, OtherClusters
      <4> QED
        BY <1>1, <2>2, <3>1, <4>1 DEF HasServer
    <3> QED
      BY <3>2, <3>3
  <2>3. CASE K(d).op = "FailLeaf"
    <3>1. PICK l \in Leaves : l = K(d).leaf /\ Range(leafVCs[l]) \subseteq call[d].clusters
      BY <2>1, <2>3, CallFields DEF VCCallOK, TreeOps
    <3>2. w \notin call[d].clusters
      BY <1>2, <2>3, OtherClusters
    <3> QED
      BY <1>1, <2>3, <3>1, <3>2 DEF HasLeaf
  <2> QED
    BY <2>2, <2>3
<1> QED
  BY <1>2

LEMMA ShedKeepsVCs ==
  ASSUME VCInv, IInv', NEW c \in Callers, Shed(c)
  PROVE  VCInv'
<1>1. PICK w \in VCIds, t \in Servers, i \in Nat \ {0} :
        /\ pc[c] = "shed" /\ K(c).op = "FailServer" /\ call[c] # None /\ VCCallOK(c) /\ LoopOK(c)
        /\ w = loc[c].vc /\ w \in call[c].clusters /\ t = K(c).server
        /\ i = loc[c].i /\ i \in 1 .. Len(loc[c].list) /\ loc[c].list[i] = w
        /\ loc[c].list \in Seq(VCIds) /\ loc[c].list = ListOf(K(c))
        /\ K(c).leaf \in Leaves
  BY LoopValue, LoopVC DEF Shed, At, LoopPlaces
<1> DEFINE gone == IF loc[c].alone THEN {K(c).leaf} ELSE {}
           empty == vcServers[w] = {}
           from == gone \cup (IF empty THEN LeavesOfEmpty(w) ELSE {})
<1>2. /\ pc \in [Callers -> Labels] /\ loc \in [Callers -> Local]
      /\ vcServers \in [VCIds -> SUBSET Servers] /\ vcLeaves \in [VCIds -> SUBSET Leaves]
      /\ serverVCs \in [Servers -> Seq(VCIds)]
  BY DEF VCInv, IInv, TypeOK
<1>3. /\ vcLeaves' = [vcLeaves EXCEPT ![w] = @ \ gone]
      /\ vcs' = IF empty THEN vcs \ {w} ELSE vcs
      /\ RemoveFromVCLists(w, {}, from)
      /\ loc' = [LocalsAfter(w, {}, from) EXCEPT ![c].i = @ + 1]
      /\ pc' = [pc EXCEPT ![c] = "scan"] /\ call' = call
      /\ parent' = parent /\ vcServers' = vcServers
  <2>1. up'
    BY DEF IInv
  <2> QED
    BY <1>1, <2>1, Zenon DEF Shed, Panic, Goto, tree
<1>4. LocalsAfter(w, {}, from) = loc
  BY <1>1, SlicesStay
<1>5. serverVCs' = serverVCs
  BY <1>2, <1>3 DEF RemoveFromVCLists
<1>6. /\ ListsOK'
      /\ \A l \in Leaves, v \in VCIds : HasLeaf(v, l)' <=> HasLeaf(v, l) /\ ~ (v = w /\ l \in from)
  BY <1>3, RemovedFromLists
<1>7. \A d \in Callers \ {c} : call[d] # None =>
        /\ K(d).op = "FailServer" => serverVCs'[K(d).server] = serverVCs[K(d).server]
        /\ K(d).op = "FailLeaf" => leafVCs'[K(d).leaf] = leafVCs[K(d).leaf]
  BY <1>1, <1>3, ListsOfOthers
<1>8. /\ \A v \in VCIds \ {w} : vcLeaves'[v] = vcLeaves[v] /\ (v \in vcs' <=> v \in vcs)
      /\ vcLeaves'[w] = vcLeaves[w] \ gone
      /\ w \in vcs' <=> w \in vcs /\ ~empty
      /\ pc'[c] = "scan" /\ call'[c] = call[c] /\ K(c)' = K(c)
      /\ loc'[c].i = i + 1 /\ loc'[c].list = loc[c].list
      /\ \A d \in Callers \ {c} : Still(d)
  <2>1. /\ \A v \in VCIds \ {w} : vcLeaves'[v] = vcLeaves[v]
        /\ vcLeaves'[w] = vcLeaves[w] \ gone
    BY <1>2, <1>3
  <2>2. /\ \A v \in VCIds \ {w} : v \in vcs' <=> v \in vcs
        /\ w \in vcs' <=> w \in vcs /\ ~empty
    BY <1>3
  <2>3. pc'[c] = "scan" /\ \A d \in Callers \ {c} : pc'[d] = pc[d]
    BY <1>2, <1>3
  <2>4. loc' = [loc EXCEPT ![c].i = @ + 1]
    BY <1>3, <1>4
  <2>5. loc'[c] = [loc[c] EXCEPT !.i = @ + 1] /\ \A d \in Callers \ {c} : loc'[d] = loc[d]
    BY <1>2, <2>4
  <2>6. loc'[c].i = i + 1 /\ loc'[c].list = loc[c].list
    BY <1>1, <1>2, <2>5 DEF Local
  <2>7. call'[c] = call[c] /\ K(c)' = K(c) /\ \A d \in Callers \ {c} : call'[d] = call[d]
    BY <1>3 DEF K
  <2> QED
    BY <2>1, <2>2, <2>3, <2>5, <2>6, <2>7 DEF Still
<1>9. \A v, s : HasServer(v, s)' <=> HasServer(v, s)
  BY <1>5 DEF HasServer
<1>10. \A v : Done(c, v)' <=> Done(c, v) \/ v = w
  <2>1. \A x : x \in 1 .. (i + 1) - 1 <=> x \in 1 .. i - 1 \/ x = i
    BY <1>1
  <2> QED
    BY <1>1, <1>8, <2>1 DEF Done
<1>11. ASSUME NEW v \in VCIds
       PROVE  /\ v # w => SameStages(c, v)
              /\ (Adds(c, v)' <=> Adds(c, v)) /\ (Unlists(c, v)' <=> Unlists(c, v))
              /\ \A s \in Servers : TookServer(c, s, v)' <=> TookServer(c, s, v)
              /\ \A l \in Leaves : TookLeaf(c, l, v)' <=> TookLeaf(c, l, v)
  BY <1>1, <1>8, <1>10 DEF SameStages, Adds, Unlists, Empties, TookServer, TookLeaf, Leaving
<1> HIDE DEF gone, empty, from
<1>12. \A v \in VCIds \ {w} : SameVC(v) /\ SameStages(c, v)
  BY <1>3, <1>6, <1>8, <1>9, <1>11 DEF SameVC
<1>13. LoopOK(c)'
  <2>1. ListOf(K(c))' = ListOf(K(c))
    BY <1>1, <1>5, <1>8 DEF ListOf
  <2>2. i + 1 \in 1 .. Len(loc[c].list) + 1
    BY <1>1
  <2> QED
    BY <1>1, <1>8, <2>1, <2>2 DEF LoopOK
<1>14. VCCallOK(c)'
  BY <1>1, <1>5, <1>8 DEF VCCallOK, Removing
<1>15. VCOK(w)'
  <2>1. VCOK(w)
    BY DEF VCInv
  <2>2. ASSUME NEW d \in Callers, d # c
        PROVE  SameStages(d, w)
    BY <1>8, <2>2, StillStages
  <2>3. \A d \in Callers : /\ Adds(d, w)' <=> Adds(d, w)
                           /\ Unlists(d, w)' <=> Unlists(d, w)
                           /\ \A s \in Servers : TookServer(d, s, w)' <=> TookServer(d, s, w)
                           /\ \A l \in Leaves : TookLeaf(d, l, w)' <=> TookLeaf(d, l, w)
    BY <1>11, <2>2 DEF SameStages
  <2>4. Added(w) /\ \A d \in Callers : ~Unlists(d, w) /\ \A l \in Leaves : ~TookLeaf(d, l, w)
    BY <1>1, NobodyElse
  <2>5. (Present(w)' <=> w \in vcs /\ vcServers[w] # {}) /\ (Present(w) <=> w \in vcs)
    BY <1>8, <2>3, <2>4 DEF Present, empty
  <2>6. w \in vcs' => vcServers'[w] # {}
    BY <1>3, <1>8 DEF empty
  <2>7. ASSUME Present(w)'
        PROVE  \A s \in vcServers'[w] : parent'[s] \in vcLeaves'[w]
    <3>1. ASSUME NEW s \in vcServers[w]
          PROVE  parent[s] \notin gone
      <4>1. TookServer(c, t, w)
        BY <1>1 DEF TookServer
      <4>2. s # t
        BY <2>1, <3>1, <4>1 DEF VCOK
      <4> QED
        BY <1>1, <3>1, <4>2 DEF LoopOK, gone
    <3> QED
      BY <1>3, <1>8, <2>1, <2>5, <2>7, <3>1 DEF VCOK
  <2>8. Present(w)' => \A s \in vcServers'[w] : HasServer(w, s)'
    BY <1>3, <1>9, <2>1, <2>4, <2>5 DEF VCOK
  <2>9. ASSUME Present(w)'
        PROVE  \A l \in vcLeaves'[w] : HasLeaf(w, l)'
    <3>1. ~empty /\ from = gone
      BY <2>5, <2>9 DEF empty, from
    <3>2. vcLeaves[w] \subseteq Leaves
      BY <1>2
    <3> QED
      BY <1>6, <1>8, <2>1, <2>4, <2>5, <2>9, <3>1, <3>2 DEF VCOK
  <2>10. \A s \in Servers : HasServer(w, s)' =>
           (Present(w)' /\ s \in vcServers'[w]) \/ \E d \in Callers : TookServer(d, s, w)'
    BY <1>3, <1>9, <2>1, <2>3, <2>5 DEF VCOK
  <2>11. \A l \in Leaves : HasLeaf(w, l)' => Present(w)' /\ l \in vcLeaves'[w]
    <3>1. ASSUME NEW l \in Leaves, HasLeaf(w, l)'
          PROVE  Present(w)' /\ l \in vcLeaves'[w]
      <4>1. HasLeaf(w, l) /\ l \notin from
        BY <1>6, <3>1
      <4>2. w \in vcs /\ l \in vcLeaves[w]
        BY <2>1, <2>4, <2>5, <4>1 DEF VCOK
      <4>3. ~empty
        BY <4>1, <4>2 DEF from, LeavesOfEmpty
      <4> QED
        BY <1>8, <2>5, <4>1, <4>2, <4>3 DEF from, empty
    <3> QED
      BY <3>1
  <2>12. /\ \A d \in Callers, s \in Servers : TookServer(d, s, w)' => s \notin vcServers'[w]
         /\ \A d \in Callers, l \in Leaves : TookLeaf(d, l, w)' => l \notin vcLeaves'[w]
    BY <1>3, <1>8, <2>1, <2>3 DEF VCOK
  <2>13. ASSUME Present(w)', NEW l \in vcLeaves'[w]
         PROVE  (\E s \in vcServers'[w] : parent'[s] = l) \/ \E d \in Callers : Leaving(d, l, w)'
    <3>1. Present(w) /\ l \in vcLeaves[w] /\ l \in Leaves /\ l \notin gone
      BY <1>2, <1>8, <2>5, <2>13
    <3>2. CASE \E s \in vcServers[w] : parent[s] = l
      BY <1>3, <3>2
    <3>3. CASE \E d \in Callers : Leaving(d, l, w)
      <4>1. PICK d \in Callers : Leaving(d, l, w)
        BY <3>3
      <4>2. d # c
        BY <1>1, <3>1, <4>1 DEF Leaving, gone
      <4> QED
        BY <2>2, <3>1, <4>1, <4>2 DEF SameStages
    <3> QED
      BY <2>1, <3>1, <3>2, <3>3 DEF VCOK
  <2> QED
    BY <2>6, <2>7, <2>8, <2>9, <2>10, <2>11, <2>12, <2>13 DEF VCOK
<1>16. vcServers'[w] = vcServers[w] /\ (w \in vcs /\ vcServers'[w] # {} => w \in vcs')
  BY <1>3, <1>8 DEF empty
<1> QED
  BY <1>1, <1>3, <1>6, <1>7, <1>8, <1>12, <1>13, <1>14, <1>15, <1>16, OneVCChanges

\* after the last turn the server is in no VC of its list
LEMMA UnlistKeepsVCs ==
  ASSUME VCInv, IInv', NEW c \in Callers, Unlist(c)
  PROVE  VCInv'
<1>1. PICK t \in Servers :
        /\ pc[c] = "scan" /\ K(c).op = "FailServer" /\ call[c] # None /\ TreeCallOK(c)
        /\ t = K(c).server /\ ~ (loc[c].i <= Len(loc[c].list))
        /\ loc[c].list = serverVCs[t] /\ loc[c].list \in Seq(VCIds)
        /\ loc[c].i \in 1 .. Len(loc[c].list) + 1
  BY LoopValue DEF Unlist, At, MoreVCs, LoopPlaces
<1>2. /\ pc \in [Callers -> Labels] /\ loc \in [Callers -> Local]
      /\ vcServers \in [VCIds -> SUBSET Servers] /\ vcLeaves \in [VCIds -> SUBSET Leaves]
      /\ serverVCs \in [Servers -> Seq(VCIds)] /\ call \in [Callers -> Served \cup {None}]
  BY DEF VCInv, IInv, TypeOK
<1>3. /\ serverVCs' = [serverVCs EXCEPT ![t] = <<>>]
      /\ loc' = [loc EXCEPT ![c] = [NoLocals EXCEPT !.victim = t]]
      /\ pc' = [pc EXCEPT ![c] = "lookUp"] /\ call' = call /\ parent' = parent
      /\ UNCHANGED <<vcs, vcServers, vcLeaves, leafVCs>>
  BY <1>1 DEF Unlist, Goto, tree
<1>4. /\ pc'[c] = "lookUp" /\ call'[c] = call[c] /\ K(c)' = K(c)
      /\ \A d \in Callers \ {c} : Still(d)
      /\ serverVCs'[t] = <<>> /\ \A s \in Servers : s # t => serverVCs'[s] = serverVCs[s]
  BY <1>2, <1>3 DEF Still, K
<1>5. /\ Range(<<>>) = {} /\ <<>> \in Seq(VCIds) /\ IsInjective(<<>>)
  BY EmptyValue
<1>6. \A v : \A s \in Servers : HasServer(v, s)' <=> HasServer(v, s) /\ s # t
  BY <1>4, <1>5 DEF HasServer
<1>7. \A v, l : HasLeaf(v, l)' <=> HasLeaf(v, l)
  BY <1>3 DEF HasLeaf
<1>8. \A v : Done(c, v) <=> HasServer(v, t)
  <2>1. Len(loc[c].list) \in Nat /\ loc[c].i - 1 = Len(loc[c].list)
    BY <1>1
  <2> QED
    BY <1>1, <2>1, RangeValue DEF Done, HasServer
<1>9. ASSUME NEW v \in VCIds
      PROVE  /\ Adds(c, v)' <=> Adds(c, v)
             /\ Unlists(c, v)' <=> Unlists(c, v)
             /\ Empties(c, v)' <=> Empties(c, v)
             /\ \A s \in Servers : ~TookServer(c, s, v)' /\ (TookServer(c, s, v) <=> s = t /\ HasServer(v, t))
             /\ \A l \in Leaves : TookLeaf(c, l, v)' <=> TookLeaf(c, l, v)
             /\ \A l \in Leaves : Leaving(c, l, v)' <=> Leaving(c, l, v)
  BY <1>1, <1>4, <1>8 DEF Adds, Unlists, Empties, TookServer, TookLeaf, Leaving
<1>10. ASSUME NEW d \in Callers
       PROVE  LoopOK(d)' /\ (call'[d] # None => VCCallOK(d)')
  <2>1. CASE d = c
    <3>1. VCCallOK(c)
      BY <1>1 DEF VCInv
    <3>2. LoopOK(c)' /\ VCCallOK(c)'
      BY <1>1, <1>4, <1>5, <3>1 DEF LoopOK, VCCallOK
    <3> QED
      BY <2>1, <3>2
  <2>2. CASE d # c
    <3>1. Still(d)
      BY <1>4, <2>2
    <3>2. ASSUME call[d] # None, K(d).op = "FailServer"
          PROVE  serverVCs'[K(d).server] = serverVCs[K(d).server]
      <4>1. K(d).server # t
        BY <1>1, <2>2, <3>2, Conflicts DEF VCInv, TreeOps
      <4>2. K(d) \in Call
        BY <1>2, <3>2 DEF Served, K
      <4>3. K(d).server \in Servers
        BY <3>2, <4>2, CallFields
      <4> QED
        BY <1>4, <4>1, <4>3
    <3>3. /\ \A s \in Servers : HasServer(K(d).vc, s)' => HasServer(K(d).vc, s)
          /\ \A l \in Leaves : HasLeaf(K(d).vc, l)' => HasLeaf(K(d).vc, l)
      <4>1. K(d)' = K(d)
        BY <3>1 DEF Still, K
      <4>2. PICK k : k = K(d)
        OBVIOUS
      <4> QED
        BY <1>6, <1>7, <4>1, <4>2 DEF HasServer, HasLeaf
    <3>4. HasSibling(d)' <=> HasSibling(d)
      <4>1. K(d)' = K(d) /\ loc'[d] = loc[d]
        BY <3>1 DEF Still, K
      <4>2. parent' = parent /\ vcs' = vcs /\ vcServers' = vcServers
        BY <1>3
      <4> QED
        BY <4>1, <4>2 DEF HasSibling
    <3> QED
      BY <1>3, <3>1, <3>2, <3>3, <3>4, CallerKeeps
  <2> QED
    BY <2>1, <2>2
<1>11. ASSUME NEW v \in VCIds
       PROVE  VCOK(v)'
  <2>1. VCOK(v) /\ vcServers[v] \subseteq Servers /\ vcLeaves[v] \subseteq Leaves
    BY <1>2 DEF VCInv
  <2>2. ASSUME NEW d \in Callers, d # c
        PROVE  SameStages(d, v)
    BY <1>4, <2>2, StillStages
  <2>3. \A d \in Callers : /\ Adds(d, v)' <=> Adds(d, v)
                           /\ Unlists(d, v)' <=> Unlists(d, v)
                           /\ Empties(d, v)' <=> Empties(d, v)
                           /\ \A s \in Servers : TookServer(d, s, v)' <=> TookServer(d, s, v) /\ d # c
                           /\ \A l \in Leaves : TookLeaf(d, l, v)' <=> TookLeaf(d, l, v)
                           /\ \A l \in Leaves : Leaving(d, l, v)' <=> Leaving(d, l, v)
    BY <1>9, <2>2 DEF SameStages
  <2>4. (Present(v)' <=> Present(v)) /\ (Added(v)' <=> Added(v))
    BY <1>3, <2>3 DEF Present, Added
  <2>5. HasServer(v, t) => t \notin vcServers[v]
    BY <1>9, <2>1 DEF VCOK
  <2>6. /\ v \in vcs' => vcServers'[v] # {} \/ \E d \in Callers : Empties(d, v)'
        /\ Present(v)' => \A s \in vcServers'[v] : parent'[s] \in vcLeaves'[v]
        /\ Present(v)' /\ Added(v)' => \A l \in vcLeaves'[v] : HasLeaf(v, l)'
    BY <1>3, <1>7, <2>1, <2>3, <2>4 DEF VCOK
  <2>7. Present(v)' /\ Added(v)' => \A s \in vcServers'[v] : HasServer(v, s)'
    BY <1>3, <1>6, <2>1, <2>4, <2>5 DEF VCOK
  <2>8. \A s \in Servers : HasServer(v, s)' =>
          (Present(v)' /\ s \in vcServers'[v]) \/ \E d \in Callers : TookServer(d, s, v)'
    BY <1>3, <1>6, <1>9, <2>1, <2>3, <2>4 DEF VCOK
  <2>9. \A l \in Leaves : HasLeaf(v, l)' =>
          (Present(v)' /\ l \in vcLeaves'[v]) \/ \E d \in Callers : TookLeaf(d, l, v)'
    BY <1>3, <1>7, <2>1, <2>3, <2>4 DEF VCOK
  <2>10. /\ \A d \in Callers, s \in Servers : TookServer(d, s, v)' => s \notin vcServers'[v]
         /\ \A d \in Callers, l \in Leaves : TookLeaf(d, l, v)' => l \notin vcLeaves'[v]
    BY <1>3, <2>1, <2>3 DEF VCOK
  <2>11. Present(v)' => \A l \in vcLeaves'[v] :
           (\E s \in vcServers'[v] : parent'[s] = l) \/ \E d \in Callers : Leaving(d, l, v)'
    BY <1>3, <2>1, <2>3, <2>4 DEF VCOK
  <2> QED
    BY <2>6, <2>7, <2>8, <2>9, <2>10, <2>11 DEF VCOK
<1>12. ListsOK'
  BY <1>3, <1>4, <1>5 DEF VCInv, ListsOK
<1>13. \A d, e \in Callers : d # e => VCsApart(d, e)'
  BY <1>4, StayApart
<1> QED
  BY <1>10, <1>11, <1>12, <1>13 DEF VCInv

-----------------------------------------------------------------------------
(* The loop of DetachLeaf.                                                 *)

\* the servers below a leaf that fails
LEMMA FailingLeaf ==
  ASSUME VCInv, NEW c \in Callers, call[c] # None, K(c).op = "FailLeaf"
  PROVE  /\ K(c).leaf \in Leaves /\ TreeCallOK(c)
         /\ \A s \in Servers : s \in IdsOf(nodes[K(c).leaf]) <=> parent[s] = K(c).leaf
         /\ IdsOf(nodes[K(c).leaf]) \subseteq Servers
<1>1. K(c) \in Call /\ TreeCallOK(c)
  BY DEF VCInv, IInv, TypeOK, Served, K
<1>2. PICK l \in Leaves : l = K(c).leaf
  BY <1>1, CallFields DEF TreeOps
<1>3. leafLock[l] = None
  <2> SUFFICES ASSUME leafLock[l] # None PROVE FALSE
    OBVIOUS
  <2>1. PICK d \in Callers : d = leafLock[l] /\ pc[d] = "numberServer" /\ K(d).op = "AddServer" /\ K(d).leaf = l
    BY HoldersOfLocks DEF VCInv
  <2>2. call[d] # None /\ d # c
    BY <2>1, InCall DEF VCInv
  <2> QED
    BY <1>2, <2>1, <2>2, Conflicts DEF VCInv, TreeOps
<1>4. \A s \in Servers : s \in IdsOf(nodes[l]) <=> parent[s] = l
  BY <1>3 DEF VCInv, IInv, ServersOK
<1>5. IdsOf(nodes[l]) \subseteq Servers
  <2>1. nodes[l] \in Seq(ServerNode)
    BY DEF VCInv, IInv, TypeOK
  <2>2. \A i \in 1 .. Len(nodes[l]) : nodes[l][i] \in ServerNode
    BY <2>1
  <2> QED
    BY <2>2 DEF IdsOf, ServerNode
<1> QED
  BY <1>1, <1>2, <1>4, <1>5

LEMMA DetachLeafKeepsVCs ==
  ASSUME VCInv, IInv', NEW c \in Callers, DetachLeaf(c)
  PROVE  VCInv'
<1>1. PICK w \in VCIds, l \in Leaves, i \in Nat \ {0} :
        /\ pc[c] = "detachLeaf" /\ K(c).op = "FailLeaf" /\ call[c] # None /\ VCCallOK(c) /\ LoopOK(c)
        /\ w = loc[c].list[i] /\ w \in call[c].clusters /\ l = K(c).leaf
        /\ i = loc[c].i /\ i \in 1 .. Len(loc[c].list)
        /\ loc[c].list \in Seq(VCIds) /\ loc[c].list = ListOf(K(c))
        /\ ~Done(c, w) /\ HasLeaf(w, l)
  BY LoopValue, TurnValue DEF DetachLeaf, At, MoreVCs, LoopPlaces
<1>2. /\ pc \in [Callers -> Labels] /\ loc \in [Callers -> Local]
      /\ vcServers \in [VCIds -> SUBSET Servers] /\ vcLeaves \in [VCIds -> SUBSET Leaves]
  BY DEF VCInv, IInv, TypeOK
<1>3. /\ \A s \in Servers : s \in IdsOf(nodes[l]) <=> parent[s] = l
      /\ IdsOf(nodes[l]) \subseteq Servers
  BY <1>1, FailingLeaf
\* nobody took the leaf out of the VC before
<1>4. l \in vcLeaves[w]
  <2>1. \A d \in Callers : ~TookLeaf(d, l, w)
    BY <1>1, NobodyElse DEF TookLeaf
  <2> QED
    BY <1>1, <2>1 DEF VCInv, VCOK
<1>5. PICK lost \in SUBSET Servers : lost = vcServers[w] \cap IdsOf(nodes[l])
  BY <1>2
<1>6. /\ vcServers' = [vcServers EXCEPT ![w] = @ \ lost]
      /\ loc' = [loc EXCEPT ![c] = [loc[c] EXCEPT !.vc = w, !.lost = lost]]
      /\ pc' = [pc EXCEPT ![c] = "dropLeaf"] /\ call' = call /\ parent' = parent
      /\ UNCHANGED <<vcs, vcLeaves, serverVCs, leafVCs>>
  BY <1>1, <1>2, <1>4, <1>5 DEF DetachLeaf, Goto, tree
<1>7. /\ \A v \in VCIds \ {w} : vcServers'[v] = vcServers[v]
      /\ vcServers'[w] = vcServers[w] \ lost
      /\ pc'[c] = "dropLeaf" /\ call'[c] = call[c] /\ K(c)' = K(c)
      /\ loc'[c].list = loc[c].list /\ loc'[c].i = i /\ loc'[c].vc = w /\ loc'[c].lost = lost
      /\ \A d \in Callers \ {c} : Still(d)
  BY <1>1, <1>2, <1>6 DEF Still, K, Local
<1>8. /\ \A v, s : HasServer(v, s)' <=> HasServer(v, s)
      /\ \A v, m : HasLeaf(v, m)' <=> HasLeaf(v, m)
      /\ \A v : Done(c, v)' <=> Done(c, v)
  BY <1>1, <1>6, <1>7 DEF HasServer, HasLeaf, Done
<1>9. ASSUME NEW v \in VCIds
      PROVE  /\ v # w => SameStages(c, v)
             /\ (Adds(c, v)' <=> Adds(c, v)) /\ (Unlists(c, v)' <=> Unlists(c, v))
             /\ \A s \in Servers : TookServer(c, s, v)' <=> (v = w /\ s \in lost)
             /\ \A s \in Servers : ~TookServer(c, s, v)
             /\ \A m \in Leaves : TookLeaf(c, m, v)' <=> TookLeaf(c, m, v)
             /\ v = w => Empties(c, v)'
  BY <1>1, <1>7, <1>8 DEF SameStages, Adds, Unlists, Empties, TookServer, TookLeaf, Leaving
<1>10. \A v \in VCIds \ {w} : SameVC(v) /\ SameStages(c, v)
  BY <1>6, <1>7, <1>8, <1>9 DEF SameVC
<1>11. LoopOK(c)'
  <2>1. ListOf(K(c))' = ListOf(K(c))
    BY <1>6, <1>7 DEF ListOf
  <2>3. vcServers[w] \subseteq Servers
    BY <1>2
  <2>4. \A s \in vcServers'[w] : parent'[s] # l
    BY <1>3, <1>5, <1>6, <1>7, <2>3
  <2>5. i \in 1 .. Len(loc[c].list) + 1
    BY <1>1
  <2> QED
    BY <1>1, <1>7, <2>1, <2>4, <2>5 DEF LoopOK
<1>12. VCCallOK(c)'
  BY <1>1, <1>6, <1>7 DEF VCCallOK
<1>13. VCOK(w)'
  <2>1. VCOK(w)
    BY DEF VCInv
  <2>2. ASSUME NEW d \in Callers, d # c
        PROVE  SameStages(d, w)
    BY <1>7, <2>2, StillStages
  <2>3. \A d \in Callers : /\ Adds(d, w)' <=> Adds(d, w)
                           /\ Unlists(d, w)' <=> Unlists(d, w)
                           /\ \A s \in Servers : TookServer(d, s, w)' <=> TookServer(d, s, w) \/ (d = c /\ s \in lost)
                           /\ \A m \in Leaves : TookLeaf(d, m, w)' <=> TookLeaf(d, m, w)
    BY <1>9, <2>2 DEF SameStages
  <2>4. (Present(w)' <=> Present(w)) /\ (Added(w)' <=> Added(w))
    BY <1>6, <2>3 DEF Present, Added
  <2>5. /\ w \in vcs' => \E d \in Callers : Empties(d, w)'
        /\ Present(w)' => \A s \in vcServers'[w] : parent'[s] \in vcLeaves'[w]
        /\ Present(w)' /\ Added(w)' => \A s \in vcServers'[w] : HasServer(w, s)'
        /\ Present(w)' /\ Added(w)' => \A m \in vcLeaves'[w] : HasLeaf(w, m)'
    BY <1>6, <1>7, <1>8, <1>9, <2>1, <2>4 DEF VCOK
  <2>6. /\ \A s \in Servers : HasServer(w, s)' =>
             (Present(w)' /\ s \in vcServers'[w]) \/ \E d \in Callers : TookServer(d, s, w)'
        /\ \A m \in Leaves : HasLeaf(w, m)' =>
             (Present(w)' /\ m \in vcLeaves'[w]) \/ \E d \in Callers : TookLeaf(d, m, w)'
    BY <1>6, <1>7, <1>8, <2>1, <2>3, <2>4 DEF VCOK
  <2>7. /\ \A d \in Callers, s \in Servers : TookServer(d, s, w)' => s \notin vcServers'[w]
        /\ \A d \in Callers, m \in Leaves : TookLeaf(d, m, w)' => m \notin vcLeaves'[w]
    BY <1>6, <1>7, <2>1, <2>3 DEF VCOK
  <2>8. ASSUME Present(w)', NEW m \in vcLeaves'[w]
        PROVE  (\E s \in vcServers'[w] : parent'[s] = m) \/ \E d \in Callers : Leaving(d, m, w)'
    <3>1. Present(w) /\ m \in vcLeaves[w] /\ m \in Leaves
      BY <1>2, <1>6, <2>4, <2>8
    <3>2. CASE m = l
      <4>1. Leaving(c, l, w)'
        BY <1>1, <1>7 DEF Leaving
      <4> QED
        BY <3>2, <4>1
    <3>3. CASE m # l /\ \E s \in vcServers[w] : parent[s] = m
      <4>1. PICK s \in vcServers[w] : parent[s] = m
        BY <3>3
      <4>2. s \in vcServers'[w]
        BY <1>2, <1>3, <1>5, <1>7, <3>3, <4>1
      <4> QED
        BY <1>6, <4>1, <4>2
    <3>4. CASE \E d \in Callers : Leaving(d, m, w)
      <4>1. PICK d \in Callers : Leaving(d, m, w)
        BY <3>4
      <4>2. d # c
        BY <1>1, <4>1 DEF Leaving
      <4> QED
        BY <2>2, <3>1, <4>1, <4>2 DEF SameStages
    <3> QED
      BY <2>1, <3>1, <3>2, <3>3, <3>4 DEF VCOK
  <2> QED
    BY <2>5, <2>6, <2>7, <2>8 DEF VCOK
<1>14. ListsOK'
  BY <1>6 DEF VCInv, ListsOK
<1> QED
  BY <1>1, <1>6, <1>7, <1>10, <1>11, <1>12, <1>13, <1>14, OneVCChanges

LEMMA DropLeafKeepsVCs ==
  ASSUME VCInv, IInv', NEW c \in Callers, DropLeaf(c)
  PROVE  VCInv'
<1>1. PICK w \in VCIds, l \in Leaves, i \in Nat \ {0}, lost \in SUBSET Servers :
        /\ pc[c] = "dropLeaf" /\ K(c).op = "FailLeaf" /\ call[c] # None /\ VCCallOK(c) /\ LoopOK(c)
        /\ w = loc[c].vc /\ w \in call[c].clusters /\ l = K(c).leaf /\ lost = loc[c].lost
        /\ i = loc[c].i /\ i \in 1 .. Len(loc[c].list) /\ loc[c].list[i] = w
        /\ loc[c].list \in Seq(VCIds) /\ loc[c].list = ListOf(K(c))
        /\ ~Done(c, w)
        /\ \A s \in vcServers[w] : parent[s] # l
  <2>1. pc[c] = "dropLeaf"
    BY DEF DropLeaf, At
  <2>2. LoopOK(c) /\ loc[c] \in Local /\ call[c] # None
    BY <2>1, LoopValue DEF LoopPlaces
  <2>3. loc[c].lost \in SUBSET Servers
    BY <2>2 DEF Local
  <2>4. \A s \in vcServers[loc[c].vc] : parent[s] # K(c).leaf
    BY <2>1, <2>2 DEF LoopOK
  <2> QED
    BY <2>1, <2>2, <2>3, <2>4, LoopValue, LoopVC DEF LoopPlaces
<1> DEFINE empty == vcServers[w] = {}
           from == IF empty THEN LeavesOfEmpty(w) \ {l} ELSE {}
<1>2. /\ pc \in [Callers -> Labels] /\ loc \in [Callers -> Local]
      /\ vcServers \in [VCIds -> SUBSET Servers] /\ vcLeaves \in [VCIds -> SUBSET Leaves]
      /\ leafVCs \in [Leaves -> Seq(VCIds)]
  BY DEF VCInv, IInv, TypeOK
<1>3. /\ vcLeaves' = [vcLeaves EXCEPT ![w] = @ \ {l}]
      /\ vcs' = IF empty THEN vcs \ {w} ELSE vcs
      /\ RemoveFromVCLists(w, lost, from)
      /\ loc' = [LocalsAfter(w, lost, from) EXCEPT ![c].i = @ + 1]
      /\ pc' = [pc EXCEPT ![c] = "detachLeaf"] /\ call' = call
      /\ parent' = parent /\ vcServers' = vcServers
  BY <1>1, Zenon DEF DropLeaf, Goto, tree
<1>4. LocalsAfter(w, lost, from) = loc
  <2>1. l \notin from
    OBVIOUS
  <2> QED
    BY <1>1, <2>1, SlicesStay
<1>5. leafVCs'[l] = leafVCs[l]
  BY <1>2, <1>3 DEF RemoveFromVCLists
<1>6. /\ ListsOK'
      /\ \A s \in Servers, v \in VCIds : HasServer(v, s)' <=> HasServer(v, s) /\ ~ (v = w /\ s \in lost)
      /\ \A m \in Leaves, v \in VCIds : HasLeaf(v, m)' <=> HasLeaf(v, m) /\ ~ (v = w /\ m \in from)
  BY <1>3, RemovedFromLists
<1>7. \A d \in Callers \ {c} : call[d] # None =>
        /\ K(d).op = "FailServer" => serverVCs'[K(d).server] = serverVCs[K(d).server]
        /\ K(d).op = "FailLeaf" => leafVCs'[K(d).leaf] = leafVCs[K(d).leaf]
  BY <1>1, <1>3, ListsOfOthers
<1>8. /\ \A v \in VCIds \ {w} : vcLeaves'[v] = vcLeaves[v] /\ (v \in vcs' <=> v \in vcs)
      /\ vcLeaves'[w] = vcLeaves[w] \ {l}
      /\ w \in vcs' <=> w \in vcs /\ ~empty
      /\ pc'[c] = "detachLeaf" /\ call'[c] = call[c] /\ K(c)' = K(c)
      /\ loc'[c].i = i + 1 /\ loc'[c].list = loc[c].list
      /\ \A d \in Callers \ {c} : Still(d)
  <2>1. /\ \A v \in VCIds \ {w} : vcLeaves'[v] = vcLeaves[v]
        /\ vcLeaves'[w] = vcLeaves[w] \ {l}
    BY <1>2, <1>3
  <2>2. /\ \A v \in VCIds \ {w} : v \in vcs' <=> v \in vcs
        /\ w \in vcs' <=> w \in vcs /\ ~empty
    BY <1>3
  <2>3. pc'[c] = "detachLeaf" /\ \A d \in Callers \ {c} : pc'[d] = pc[d]
    BY <1>2, <1>3
  <2>4. loc' = [loc EXCEPT ![c].i = @ + 1]
    BY <1>3, <1>4
  <2>5. loc'[c] = [loc[c] EXCEPT !.i = @ + 1] /\ \A d \in Callers \ {c} : loc'[d] = loc[d]
    BY <1>2, <2>4
  <2>6. loc'[c].i = i + 1 /\ loc'[c].list = loc[c].list
    BY <1>1, <1>2, <2>5 DEF Local
  <2>7. call'[c] = call[c] /\ K(c)' = K(c) /\ \A d \in Callers \ {c} : call'[d] = call[d]
    BY <1>3 DEF K
  <2> QED
    BY <2>1, <2>2, <2>3, <2>5, <2>6, <2>7 DEF Still
<1>9. \A v : Done(c, v)' <=> Done(c, v) \/ v = w
  <2>1. \A x : x \in 1 .. (i + 1) - 1 <=> x \in 1 .. i - 1 \/ x = i
    BY <1>1
  <2> QED
    BY <1>1, <1>8, <2>1 DEF Done
<1>10. ASSUME NEW v \in VCIds
       PROVE  /\ v # w => SameStages(c, v)
              /\ (Adds(c, v)' <=> Adds(c, v)) /\ (Unlists(c, v)' <=> Unlists(c, v))
              /\ \A s \in Servers : ~TookServer(c, s, v)' /\ (TookServer(c, s, v) <=> s \in lost /\ v = w)
              /\ \A m \in Leaves : TookLeaf(c, m, v)' <=> TookLeaf(c, m, v) \/ (v = w /\ m = l)
  BY <1>1, <1>8, <1>9 DEF SameStages, Adds, Unlists, Empties, TookServer, TookLeaf, Leaving
<1> HIDE DEF empty, from
<1>11. \A v \in VCIds \ {w} : SameVC(v) /\ SameStages(c, v)
  BY <1>3, <1>6, <1>8, <1>10 DEF SameVC
<1>12. LoopOK(c)'
  <2>1. ListOf(K(c))' = ListOf(K(c))
    BY <1>1, <1>5, <1>8 DEF ListOf
  <2>2. i + 1 \in 1 .. Len(loc[c].list) + 1
    BY <1>1
  <2> QED
    BY <1>1, <1>8, <2>1, <2>2 DEF LoopOK
<1>13. VCCallOK(c)'
  BY <1>1, <1>5, <1>8 DEF VCCallOK
<1>14. VCOK(w)'
  <2>1. VCOK(w)
    BY DEF VCInv
  <2>2. ASSUME NEW d \in Callers, d # c
        PROVE  SameStages(d, w)
    BY <1>8, <2>2, StillStages
  <2>3. /\ Added(w) /\ \A d \in Callers : ~Unlists(d, w)
        /\ \A d \in Callers \ {c} : /\ \A s \in Servers : ~TookServer(d, s, w)
                                    /\ \A m \in Leaves : ~TookLeaf(d, m, w)
    BY <1>1, NobodyElse
  <2>4. \A d \in Callers :
          /\ ~Unlists(d, w)'
          /\ \A s \in Servers : ~TookServer(d, s, w)' /\ (TookServer(d, s, w) => s \in lost)
          /\ \A m \in Leaves : ~TookLeaf(d, m, w) /\ (TookLeaf(d, m, w)' <=> d = c /\ m = l)
    <3>1. \A m \in Leaves : ~TookLeaf(c, m, w)
      BY <1>1 DEF TookLeaf
    <3> QED
      BY <1>10, <2>2, <2>3, <3>1 DEF SameStages
  <2>5. (Present(w)' <=> w \in vcs /\ vcServers[w] # {}) /\ (Present(w) <=> w \in vcs)
    BY <1>8, <2>3, <2>4 DEF Present, empty
  <2>6. w \in vcs' => vcServers'[w] # {}
    BY <1>3, <1>8 DEF empty
  <2>7. Present(w)' => \A s \in vcServers'[w] : parent'[s] \in vcLeaves'[w]
    BY <1>1, <1>3, <1>8, <2>1, <2>5 DEF VCOK
  <2>8. ASSUME Present(w)', NEW s \in vcServers'[w]
        PROVE  HasServer(w, s)'
    <3>1. s \in vcServers[w] /\ s \in Servers
      BY <1>2, <1>3, <2>8
    <3>2. s \notin lost
      BY <1>10, <2>1, <3>1 DEF VCOK
    <3>3. HasServer(w, s)
      BY <2>1, <2>3, <2>5, <2>8, <3>1 DEF VCOK
    <3> QED
      BY <1>6, <3>1, <3>2, <3>3
  <2>9. ASSUME Present(w)', NEW m \in vcLeaves'[w]
        PROVE  HasLeaf(w, m)'
    <3>1. ~empty /\ from = {}
      BY <2>5, <2>9 DEF empty, from
    <3>2. m \in vcLeaves[w] /\ m \in Leaves
      BY <1>2, <1>8, <2>9
    <3> QED
      BY <1>6, <2>1, <2>3, <2>5, <2>9, <3>1, <3>2 DEF VCOK
  <2>10. ASSUME NEW s \in Servers, HasServer(w, s)'
         PROVE  Present(w)' /\ s \in vcServers'[w]
    <3>1. HasServer(w, s) /\ s \notin lost
      BY <1>6, <2>10
    <3>2. Present(w) /\ s \in vcServers[w]
      BY <2>1, <2>4, <3>1 DEF VCOK
    <3> QED
      BY <1>3, <2>5, <3>2
  <2>11. ASSUME NEW m \in Leaves, HasLeaf(w, m)'
         PROVE  (Present(w)' /\ m \in vcLeaves'[w]) \/ \E d \in Callers : TookLeaf(d, m, w)'
    <3>1. HasLeaf(w, m) /\ m \notin from
      BY <1>6, <2>11
    <3>2. w \in vcs /\ m \in vcLeaves[w]
      BY <2>1, <2>4, <2>5, <3>1 DEF VCOK
    <3>3. m = l \/ ~empty
      BY <3>1, <3>2 DEF from, LeavesOfEmpty
    <3> QED
      BY <1>8, <2>4, <2>5, <3>2, <3>3 DEF empty
  <2>12. /\ \A d \in Callers, s \in Servers : TookServer(d, s, w)' => s \notin vcServers'[w]
         /\ \A d \in Callers, m \in Leaves : TookLeaf(d, m, w)' => m \notin vcLeaves'[w]
    BY <1>8, <2>4
  <2>13. ASSUME Present(w)', NEW m \in vcLeaves'[w]
         PROVE  (\E s \in vcServers'[w] : parent'[s] = m) \/ \E d \in Callers : Leaving(d, m, w)'
    <3>1. Present(w) /\ m \in vcLeaves[w] /\ m \in Leaves /\ m # l
      BY <1>2, <1>8, <2>5, <2>13
    <3>2. CASE \E s \in vcServers[w] : parent[s] = m
      BY <1>3, <3>2
    <3>3. CASE \E d \in Callers : Leaving(d, m, w)
      <4>1. PICK d \in Callers : Leaving(d, m, w)
        BY <3>3
      <4>2. d # c
        BY <1>1, <3>1, <4>1 DEF Leaving
      <4> QED
        BY <2>2, <3>1, <4>1, <4>2 DEF SameStages
    <3> QED
      BY <2>1, <3>1, <3>2, <3>3 DEF VCOK
  <2> QED
    BY <2>6, <2>7, <2>8, <2>9, <2>10, <2>11, <2>12, <2>13 DEF VCOK
<1> QED
  BY <1>1, <1>3, <1>6, <1>7, <1>8, <1>11, <1>12, <1>13, <1>14, OneVCChanges

\* after the last turn the leaf is in no VC of its list
LEMMA LookUpLeafKeepsVCs ==
  ASSUME VCInv, IInv', NEW c \in Callers, LookUpLeaf(c)
  PROVE  VCInv'
<1>1. PICK l \in Leaves :
        /\ pc[c] = "detachLeaf" /\ K(c).op = "FailLeaf" /\ call[c] # None /\ TreeCallOK(c)
        /\ l = K(c).leaf /\ ~ (loc[c].i <= Len(loc[c].list))
        /\ loc[c].list = leafVCs[l] /\ loc[c].list \in Seq(VCIds)
        /\ loc[c].i \in 1 .. Len(loc[c].list) + 1
  BY LoopValue DEF LookUpLeaf, At, MoreVCs, LoopPlaces
<1>2. /\ pc \in [Callers -> Labels] /\ loc \in [Callers -> Local]
      /\ vcServers \in [VCIds -> SUBSET Servers] /\ vcLeaves \in [VCIds -> SUBSET Leaves]
      /\ leafVCs \in [Leaves -> Seq(VCIds)] /\ call \in [Callers -> Served \cup {None}]
  BY DEF VCInv, IInv, TypeOK
<1>3. l \in leaves
  BY <1>1 DEF TreeCallOK
<1>4. /\ leafVCs' = [leafVCs EXCEPT ![l] = <<>>]
      /\ loc' = [loc EXCEPT ![c] = NoLocals]
      /\ pc' = [pc EXCEPT ![c] = "drain"] /\ call' = call /\ parent' = parent
      /\ UNCHANGED <<vcs, vcServers, vcLeaves, serverVCs>>
  BY <1>1, <1>3 DEF LookUpLeaf, Goto, tree
<1>5. /\ pc'[c] = "drain" /\ call'[c] = call[c] /\ K(c)' = K(c)
      /\ \A d \in Callers \ {c} : Still(d)
      /\ leafVCs'[l] = <<>> /\ \A m \in Leaves : m # l => leafVCs'[m] = leafVCs[m]
  BY <1>2, <1>4 DEF Still, K
<1>6. /\ Range(<<>>) = {} /\ <<>> \in Seq(VCIds) /\ IsInjective(<<>>)
  BY EmptyValue
<1>7. \A v : \A m \in Leaves : HasLeaf(v, m)' <=> HasLeaf(v, m) /\ m # l
  BY <1>5, <1>6 DEF HasLeaf
<1>8. \A v, s : HasServer(v, s)' <=> HasServer(v, s)
  BY <1>4 DEF HasServer
<1>9. \A v : Done(c, v) <=> HasLeaf(v, l)
  <2>1. Len(loc[c].list) \in Nat /\ loc[c].i - 1 = Len(loc[c].list)
    BY <1>1
  <2> QED
    BY SMTT(30), <1>1, <2>1, RangeValue DEF Done, HasLeaf
<1>10. ASSUME NEW v \in VCIds
       PROVE  /\ Adds(c, v)' <=> Adds(c, v)
              /\ Unlists(c, v)' <=> Unlists(c, v)
              /\ Empties(c, v)' <=> Empties(c, v)
              /\ \A s \in Servers : TookServer(c, s, v)' <=> TookServer(c, s, v)
              /\ \A m \in Leaves : ~TookLeaf(c, m, v)' /\ (TookLeaf(c, m, v) <=> m = l /\ HasLeaf(v, l))
              /\ \A m \in Leaves : Leaving(c, m, v)' <=> Leaving(c, m, v)
  BY <1>1, <1>5, <1>9 DEF Adds, Unlists, Empties, TookServer, TookLeaf, Leaving
<1>11. ASSUME NEW d \in Callers
       PROVE  LoopOK(d)' /\ (call'[d] # None => VCCallOK(d)')
  <2>1. CASE d = c
    <3>1. VCCallOK(c)
      BY <1>1 DEF VCInv
    <3>2. LoopOK(c)' /\ VCCallOK(c)'
      BY <1>1, <1>5, <1>6, <3>1 DEF LoopOK, VCCallOK
    <3> QED
      BY <2>1, <3>2
  <2>2. CASE d # c
    <3>1. Still(d)
      BY <1>5, <2>2
    <3>2. ASSUME call[d] # None, K(d).op = "FailLeaf"
          PROVE  leafVCs'[K(d).leaf] = leafVCs[K(d).leaf]
      <4>1. K(d).leaf # l
        BY <1>1, <2>2, <3>2, Conflicts DEF VCInv, TreeOps
      <4>2. K(d) \in Call
        BY <1>2, <3>2 DEF Served, K
      <4>3. K(d).leaf \in Leaves
        BY <3>2, <4>2, CallFields DEF TreeOps
      <4> QED
        BY <1>5, <4>1, <4>3
    <3>3. /\ \A s \in Servers : HasServer(K(d).vc, s)' => HasServer(K(d).vc, s)
          /\ \A m \in Leaves : HasLeaf(K(d).vc, m)' => HasLeaf(K(d).vc, m)
      <4>1. K(d)' = K(d)
        BY <3>1 DEF Still, K
      <4>2. PICK k : k = K(d)
        OBVIOUS
      <4> QED
        BY <1>7, <1>8, <4>1, <4>2 DEF HasServer, HasLeaf
    <3>4. HasSibling(d)' <=> HasSibling(d)
      <4>1. K(d)' = K(d) /\ loc'[d] = loc[d]
        BY <3>1 DEF Still, K
      <4>2. parent' = parent /\ vcs' = vcs /\ vcServers' = vcServers
        BY <1>4
      <4> QED
        BY <4>1, <4>2 DEF HasSibling
    <3> QED
      BY <1>4, <3>1, <3>2, <3>3, <3>4, CallerKeeps
  <2> QED
    BY <2>1, <2>2
<1>12. ASSUME NEW v \in VCIds
       PROVE  VCOK(v)'
  <2>1. VCOK(v) /\ vcLeaves[v] \subseteq Leaves
    BY <1>2 DEF VCInv
  <2>2. ASSUME NEW d \in Callers, d # c
        PROVE  SameStages(d, v)
    BY <1>5, <2>2, StillStages
  <2>3. \A d \in Callers : /\ Adds(d, v)' <=> Adds(d, v)
                           /\ Unlists(d, v)' <=> Unlists(d, v)
                           /\ Empties(d, v)' <=> Empties(d, v)
                           /\ \A s \in Servers : TookServer(d, s, v)' <=> TookServer(d, s, v)
                           /\ \A m \in Leaves : TookLeaf(d, m, v)' <=> TookLeaf(d, m, v) /\ d # c
                           /\ \A m \in Leaves : Leaving(d, m, v)' <=> Leaving(d, m, v)
    BY <1>10, <2>2 DEF SameStages
  <2>4. (Present(v)' <=> Present(v)) /\ (Added(v)' <=> Added(v))
    BY <1>4, <2>3 DEF Present, Added
  <2>5. HasLeaf(v, l) => l \notin vcLeaves[v]
    BY <1>10, <2>1 DEF VCOK
  <2>6. /\ v \in vcs' => vcServers'[v] # {} \/ \E d \in Callers : Empties(d, v)'
        /\ Present(v)' => \A s \in vcServers'[v] : parent'[s] \in vcLeaves'[v]
        /\ Present(v)' /\ Added(v)' => \A s \in vcServers'[v] : HasServer(v, s)'
    BY <1>4, <1>8, <2>1, <2>3, <2>4 DEF VCOK
  <2>7. Present(v)' /\ Added(v)' => \A m \in vcLeaves'[v] : HasLeaf(v, m)'
    BY <1>4, <1>7, <2>1, <2>4, <2>5 DEF VCOK
  <2>8. \A s \in Servers : HasServer(v, s)' =>
          (Present(v)' /\ s \in vcServers'[v]) \/ \E d \in Callers : TookServer(d, s, v)'
    BY <1>4, <1>8, <2>1, <2>3, <2>4 DEF VCOK
  <2>9. \A m \in Leaves : HasLeaf(v, m)' =>
          (Present(v)' /\ m \in vcLeaves'[v]) \/ \E d \in Callers : TookLeaf(d, m, v)'
    BY <1>4, <1>7, <1>10, <2>1, <2>3, <2>4 DEF VCOK
  <2>10. /\ \A d \in Callers, s \in Servers : TookServer(d, s, v)' => s \notin vcServers'[v]
         /\ \A d \in Callers, m \in Leaves : TookLeaf(d, m, v)' => m \notin vcLeaves'[v]
    BY <1>4, <2>1, <2>3 DEF VCOK
  <2>11. Present(v)' => \A m \in vcLeaves'[v] :
           (\E s \in vcServers'[v] : parent'[s] = m) \/ \E d \in Callers : Leaving(d, m, v)'
    BY <1>4, <2>1, <2>3, <2>4 DEF VCOK
  <2> QED
    BY <2>6, <2>7, <2>8, <2>9, <2>10, <2>11 DEF VCOK
<1>13. ListsOK'
  BY <1>4, <1>5, <1>6 DEF VCInv, ListsOK
<1>14. \A d, e \in Callers : d # e => VCsApart(d, e)'
  BY <1>5, StayApart
<1> QED
  BY <1>11, <1>12, <1>13, <1>14 DEF VCInv

-----------------------------------------------------------------------------
(* Adding and removing a VC.                                               *)

\* the servers of a VC that is being added, and their leaves, do not fail
LEMMA AddedToOthers ==
  ASSUME VCInv, NEW c \in Callers, pc[c] = "listVC", call[c] # None, K(c).op = "AddVC",
         NEW d \in Callers \ {c}, call[d] # None
  PROVE  /\ K(d).op = "FailServer" => K(d).server \notin vcServers[K(c).vc] /\ K(d).server \in Servers
         /\ K(d).op = "FailLeaf" => K(d).leaf \notin vcLeaves[K(c).vc] /\ K(d).leaf \in Leaves
<1>1. vcServers[K(c).vc] = K(c).servers /\ vcLeaves[K(c).vc] = K(c).leaves
  BY DEF VCInv, VCCallOK
<1>2. ~NewVCAndFail(K(c), K(d))
  BY DEF VCInv, VCsApart
<1>3. K(d) \in Call
  BY DEF VCInv, IInv, TypeOK, Served, K
<1> QED
  BY <1>1, <1>2, <1>3, CallFields DEF NewVCAndFail, TreeOps

LEMMA StoreVCKeepsVCs ==
  ASSUME VCInv, IInv', NEW c \in Callers, StoreVC(c)
  PROVE  VCInv'
<1>1. PICK w \in VCIds :
        /\ pc[c] = "storeVC" /\ K(c).op = "AddVC" /\ call[c] # None /\ VCCallOK(c)
        /\ w = K(c).vc /\ w \in call[c].clusters
  <2>1. pc[c] = "storeVC"
    BY DEF StoreVC, At
  <2>2. K(c).op = "AddVC" /\ call[c] # None /\ K(c) \in Call
    BY <2>1, InCall, OpAt DEF VCInv
  <2>3. VCCallOK(c) /\ K(c).vc \in VCIds
    BY <2>2, CallFields DEF VCInv
  <2> QED
    BY <2>1, <2>2, <2>3 DEF VCCallOK
<1>2. /\ pc \in [Callers -> Labels] /\ vcServers \in [VCIds -> SUBSET Servers]
      /\ vcLeaves \in [VCIds -> SUBSET Leaves]
      /\ K(c).servers \subseteq Servers /\ K(c).leaves \subseteq Leaves
  BY <1>1, InCall, CallFields DEF VCInv, IInv, TypeOK
<1>3. /\ vcs' = vcs \cup {w} /\ pc' = [pc EXCEPT ![c] = "listVC"] /\ call' = call /\ loc' = loc
      /\ vcServers' = [vcServers EXCEPT ![w] = K(c).servers]
      /\ vcLeaves' = [vcLeaves EXCEPT ![w] = K(c).leaves]
      /\ parent' = parent /\ UNCHANGED <<serverVCs, leafVCs>>
  BY <1>1 DEF StoreVC, Goto, tree
<1>4. /\ pc'[c] = "listVC" /\ call'[c] = call[c] /\ K(c)' = K(c)
      /\ \A d \in Callers \ {c} : Still(d)
      /\ vcServers'[w] = K(c).servers /\ vcLeaves'[w] = K(c).leaves /\ w \in vcs'
      /\ \A v \in VCIds \ {w} : /\ v \in vcs' <=> v \in vcs
                                /\ vcServers'[v] = vcServers[v] /\ vcLeaves'[v] = vcLeaves[v]
  BY <1>2, <1>3 DEF Still, K
<1>5. /\ \A v, s : HasServer(v, s)' <=> HasServer(v, s)
      /\ \A v, l : HasLeaf(v, l)' <=> HasLeaf(v, l)
  BY <1>3 DEF HasServer, HasLeaf
<1>6. \A v \in VCIds \ {w} : SameStages(c, v)
  BY <1>1, <1>4 DEF SameStages, Adds, Unlists, Empties, TookServer, TookLeaf, Leaving
<1>7. \A v \in VCIds \ {w} : SameVC(v) /\ SameStages(c, v)
  BY <1>4, <1>5, <1>6 DEF SameVC
<1>8. LoopOK(c)'
  BY <1>4 DEF LoopOK
<1>9. VCCallOK(c)'
  BY <1>1, <1>3, <1>4, <1>5 DEF VCCallOK
<1>10. VCOK(w)'
  <2>1. \A d \in Callers \ {c} : SameStages(d, w)
    BY <1>4, StillStages
  <2>2. Adds(c, w)'
    BY <1>1, <1>4 DEF Adds
  <2>3. ~Added(w)'
    BY <2>2 DEF Added
  <2>4. \A d \in Callers : /\ \A s \in Servers : ~TookServer(d, s, w)'
                           /\ \A l \in Leaves : ~TookLeaf(d, l, w)'
    <3>1. \A d \in Callers \ {c} : /\ \A s \in Servers : ~TookServer(d, s, w)
                                   /\ \A l \in Leaves : ~TookLeaf(d, l, w)
      BY <1>1, NobodyElse
    <3>2. /\ \A s \in Servers : ~TookServer(c, s, w)'
          /\ \A l \in Leaves : ~TookLeaf(c, l, w)'
      BY <1>4 DEF TookServer, TookLeaf
    <3> QED
      BY <2>1, <3>1, <3>2 DEF SameStages
  <2>5. /\ vcServers'[w] # {}
        /\ vcLeaves'[w] = {parent'[s] : s \in vcServers'[w]}
    BY <1>1, <1>3, <1>4 DEF VCCallOK
  <2>6. /\ \A s \in Servers : ~HasServer(w, s)'
        /\ \A l \in Leaves : ~HasLeaf(w, l)'
    BY <1>1, <1>5 DEF VCCallOK
  <2> QED
    BY <2>3, <2>4, <2>5, <2>6 DEF VCOK
<1>11. ListsOK'
  BY <1>3 DEF VCInv, ListsOK
<1> QED
  BY <1>1, <1>3, <1>4, <1>7, <1>8, <1>9, <1>10, <1>11, OneVCChanges

LEMMA ListVCKeepsVCs ==
  ASSUME VCInv, IInv', NEW c \in Callers, ListVC(c)
  PROVE  VCInv'
<1>1. PICK w \in VCIds :
        /\ pc[c] = "listVC" /\ K(c).op = "AddVC" /\ call[c] # None /\ VCCallOK(c)
        /\ w = K(c).vc /\ w \in call[c].clusters
  <2>1. pc[c] = "listVC"
    BY DEF ListVC, At
  <2>2. K(c).op = "AddVC" /\ call[c] # None /\ K(c) \in Call
    BY <2>1, InCall, OpAt DEF VCInv
  <2>3. VCCallOK(c) /\ K(c).vc \in VCIds
    BY <2>2, CallFields DEF VCInv
  <2> QED
    BY <2>1, <2>2, <2>3 DEF VCCallOK
<1>2. /\ pc \in [Callers -> Labels] /\ call \in [Callers -> Served \cup {None}]
      /\ vcServers \in [VCIds -> SUBSET Servers] /\ vcLeaves \in [VCIds -> SUBSET Leaves]
  BY DEF VCInv, IInv, TypeOK
<1>3. /\ \A s \in Servers : serverVCs'[s] = IF s \in vcServers[w] THEN Append(serverVCs[s], w) ELSE serverVCs[s]
      /\ \A l \in Leaves : leafVCs'[l] = IF l \in vcLeaves[w] THEN Append(leafVCs[l], w) ELSE leafVCs[l]
      /\ pc' = [pc EXCEPT ![c] = "idle"] /\ call' = [call EXCEPT ![c] = None] /\ loc' = loc
      /\ parent' = parent /\ UNCHANGED <<vcs, vcServers, vcLeaves>>
  BY <1>1 DEF ListVC, Return, tree
<1>4. /\ pc'[c] = "idle" /\ call'[c] = None
      /\ \A d \in Callers \ {c} : Still(d)
  BY <1>2, <1>3 DEF Still
\* the VC was in no list
<1>5. /\ \A s \in Servers : ~HasServer(w, s)
      /\ \A l \in Leaves : ~HasLeaf(w, l)
      /\ w \in vcs
  BY <1>1 DEF VCCallOK
<1>6. ASSUME NEW s \in Servers
      PROVE  /\ IsInjective(serverVCs'[s])
             /\ \A v : HasServer(v, s)' <=> HasServer(v, s) \/ (v = w /\ s \in vcServers[w])
  BY <1>3, <1>5, ListsType, AppendToInjective, AppendValue DEF HasServer
<1>7. ASSUME NEW l \in Leaves
      PROVE  /\ IsInjective(leafVCs'[l])
             /\ \A v : HasLeaf(v, l)' <=> HasLeaf(v, l) \/ (v = w /\ l \in vcLeaves[w])
  BY <1>3, <1>5, ListsType, AppendToInjective, AppendValue DEF HasLeaf
<1>8. /\ \A v \in VCIds \ {w} : SameStages(c, v)
      /\ \A s \in Servers : ~TookServer(c, s, w)'
      /\ \A l \in Leaves : ~TookLeaf(c, l, w)'
      /\ ~Adds(c, w)' /\ ~Unlists(c, w)'
  BY <1>1, <1>4 DEF SameStages, Adds, Unlists, Empties, TookServer, TookLeaf, Leaving
<1>9. \A v \in VCIds \ {w} : SameVC(v) /\ SameStages(c, v)
  BY <1>3, <1>6, <1>7, <1>8 DEF SameVC
<1>10. \A d \in Callers \ {c} : call[d] # None =>
         /\ K(d).op = "FailServer" => serverVCs'[K(d).server] = serverVCs[K(d).server]
         /\ K(d).op = "FailLeaf" => leafVCs'[K(d).leaf] = leafVCs[K(d).leaf]
  BY <1>1, <1>3, AddedToOthers
<1>11. LoopOK(c)'
  BY <1>4 DEF LoopOK
<1>12. VCOK(w)'
  <2>1. \A d \in Callers : /\ \A s \in Servers : ~TookServer(d, s, w)'
                           /\ \A l \in Leaves : ~TookLeaf(d, l, w)'
    <3>1. ASSUME NEW d \in Callers, d # c
          PROVE  /\ \A s \in Servers : ~TookServer(d, s, w)'
                 /\ \A l \in Leaves : ~TookLeaf(d, l, w)'
      <4>1. /\ \A s \in Servers : ~TookServer(d, s, w)
            /\ \A l \in Leaves : ~TookLeaf(d, l, w)
        BY <1>1, <3>1, NobodyElse
      <4>2. SameStages(d, w)
        BY <1>4, <3>1, StillStages
      <4> QED
        BY <4>1, <4>2 DEF SameStages
    <3> QED
      BY <1>8, <3>1
  <2>2. /\ vcServers'[w] # {} /\ vcServers'[w] \subseteq Servers /\ vcLeaves'[w] \subseteq Leaves
        /\ vcLeaves'[w] = {parent'[s] : s \in vcServers'[w]}
        /\ w \in vcs'
    BY SMTT(30), <1>1, <1>2, <1>3, <1>5 DEF VCCallOK
  <2>3. /\ \A s \in Servers : HasServer(w, s)' <=> s \in vcServers'[w]
        /\ \A l \in Leaves : HasLeaf(w, l)' <=> l \in vcLeaves'[w]
    BY <1>3, <1>5, <1>6, <1>7
  <2>4. Present(w)'
    BY <2>2 DEF Present
  <2> QED
    BY <2>1, <2>2, <2>3, <2>4 DEF VCOK
<1>13. ListsOK'
  BY <1>6, <1>7 DEF ListsOK
<1> QED
  BY <1>1, <1>3, <1>4, <1>9, <1>10, <1>11, <1>12, <1>13, OneVCChanges

LEMMA DeleteVCKeepsVCs ==
  ASSUME VCInv, IInv', NEW c \in Callers, DeleteVC(c)
  PROVE  VCInv'
<1>1. PICK w \in VCIds :
        /\ pc[c] = "deleteVC" /\ K(c).op = "RemoveVC" /\ call[c] # None /\ VCCallOK(c)
        /\ w = K(c).vc /\ w \in call[c].clusters /\ w \in vcs
  <2>1. pc[c] = "deleteVC"
    BY DEF DeleteVC, At
  <2>2. K(c).op = "RemoveVC" /\ call[c] # None /\ K(c) \in Call
    BY <2>1, InCall, OpAt DEF VCInv
  <2>3. VCCallOK(c) /\ K(c).vc \in VCIds
    BY <2>2, CallFields DEF VCInv
  <2> QED
    BY <2>1, <2>2, <2>3 DEF VCCallOK
<1>2. pc \in [Callers -> Labels] /\ vcLeaves \in [VCIds -> SUBSET Leaves]
  BY DEF VCInv, IInv, TypeOK
<1>3. /\ vcs' = vcs \ {w} /\ pc' = [pc EXCEPT ![c] = "unlistVC"] /\ call' = call /\ loc' = loc
      /\ parent' = parent /\ UNCHANGED <<vcServers, vcLeaves, serverVCs, leafVCs>>
  BY <1>1 DEF DeleteVC, Goto, tree
<1>4. /\ pc'[c] = "unlistVC" /\ call'[c] = call[c] /\ K(c)' = K(c)
      /\ \A d \in Callers \ {c} : Still(d)
  BY <1>2, <1>3 DEF Still, K
<1>5. /\ \A v, s : HasServer(v, s)' <=> HasServer(v, s)
      /\ \A v, l : HasLeaf(v, l)' <=> HasLeaf(v, l)
  BY <1>3 DEF HasServer, HasLeaf
<1>6. /\ \A v \in VCIds \ {w} : SameStages(c, v)
      /\ \A s \in Servers : TookServer(c, s, w)' <=> TookServer(c, s, w)
      /\ \A l \in Leaves : TookLeaf(c, l, w)' <=> TookLeaf(c, l, w)
      /\ \A l \in Leaves : Leaving(c, l, w)' <=> Leaving(c, l, w)
      /\ (Adds(c, w)' <=> Adds(c, w)) /\ Unlists(c, w)'
  BY <1>1, <1>4 DEF SameStages, Adds, Unlists, Empties, TookServer, TookLeaf, Leaving
<1>7. \A v \in VCIds \ {w} : SameVC(v) /\ SameStages(c, v)
  BY <1>3, <1>5, <1>6 DEF SameVC
<1>8. LoopOK(c)'
  BY <1>4 DEF LoopOK
<1>9. VCCallOK(c)'
  BY <1>1, <1>3, <1>4 DEF VCCallOK
<1>10. VCOK(w)'
  <2>1. VCOK(w)
    BY DEF VCInv
  <2>2. \A d \in Callers : /\ Adds(d, w)' <=> Adds(d, w)
                           /\ \A s \in Servers : TookServer(d, s, w)' <=> TookServer(d, s, w)
                           /\ \A l \in Leaves : TookLeaf(d, l, w)' <=> TookLeaf(d, l, w)
                           /\ \A l \in Leaves : Leaving(d, l, w)' <=> Leaving(d, l, w)
    <3>1. ASSUME NEW d \in Callers, d # c
          PROVE  SameStages(d, w)
      BY <1>4, <3>1, StillStages
    <3> QED
      BY <1>6, <3>1 DEF SameStages
  <2>3. Present(w)' /\ Present(w) /\ (Added(w)' <=> Added(w))
    BY <1>1, <1>6, <2>2 DEF Present, Added
  <2>4. w \notin vcs'
    BY <1>3
  <2>5. /\ \A s \in vcServers'[w] : parent'[s] \in vcLeaves'[w]
        /\ Added(w)' => \A s \in vcServers'[w] : HasServer(w, s)'
        /\ Added(w)' => \A l \in vcLeaves'[w] : HasLeaf(w, l)'
    BY <1>3, <1>5, <2>1, <2>3 DEF VCOK
  <2>6. /\ \A s \in Servers : HasServer(w, s)' =>
             s \in vcServers'[w] \/ \E d \in Callers : TookServer(d, s, w)'
        /\ \A l \in Leaves : HasLeaf(w, l)' =>
             l \in vcLeaves'[w] \/ \E d \in Callers : TookLeaf(d, l, w)'
    BY <1>3, <1>5, <2>1, <2>2 DEF VCOK
  <2>7. /\ \A d \in Callers, s \in Servers : TookServer(d, s, w)' => s \notin vcServers'[w]
        /\ \A d \in Callers, l \in Leaves : TookLeaf(d, l, w)' => l \notin vcLeaves'[w]
    BY <1>3, <2>1, <2>2 DEF VCOK
  <2>8. \A l \in vcLeaves'[w] :
          (\E s \in vcServers'[w] : parent'[s] = l) \/ \E d \in Callers : Leaving(d, l, w)'
    BY <1>2, <1>3, <2>1, <2>2, <2>3 DEF VCOK
  <2> QED
    BY <2>3, <2>4, <2>5, <2>6, <2>7, <2>8 DEF VCOK
<1>11. ListsOK'
  BY <1>3 DEF VCInv, ListsOK
<1> QED
  BY <1>1, <1>3, <1>4, <1>7, <1>8, <1>9, <1>10, <1>11, OneVCChanges

LEMMA UnlistVCKeepsVCs ==
  ASSUME VCInv, IInv', NEW c \in Callers, UnlistVC(c)
  PROVE  VCInv'
<1>1. PICK w \in VCIds :
        /\ pc[c] = "unlistVC" /\ K(c).op = "RemoveVC" /\ call[c] # None /\ VCCallOK(c)
        /\ w = K(c).vc /\ w \in call[c].clusters /\ w \notin vcs
  <2>1. pc[c] = "unlistVC"
    BY DEF UnlistVC, At
  <2>2. K(c).op = "RemoveVC" /\ call[c] # None /\ K(c) \in Call
    BY <2>1, InCall, OpAt DEF VCInv
  <2>3. VCCallOK(c) /\ K(c).vc \in VCIds
    BY <2>2, CallFields DEF VCInv
  <2> QED
    BY <2>1, <2>2, <2>3 DEF VCCallOK
<1>2. pc \in [Callers -> Labels] /\ call \in [Callers -> Served \cup {None}]
  BY DEF VCInv, IInv, TypeOK
<1>3. /\ RemoveFromVCLists(w, vcServers[w], vcLeaves[w])
      /\ loc' = LocalsAfter(w, vcServers[w], vcLeaves[w])
      /\ pc' = [pc EXCEPT ![c] = "idle"] /\ call' = [call EXCEPT ![c] = None]
      /\ parent' = parent /\ UNCHANGED <<vcs, vcServers, vcLeaves>>
  BY <1>1, Zenon DEF UnlistVC, Return, tree
<1>4. loc' = loc
  BY <1>1, <1>3, SlicesStay DEF LoopPlaces
<1>5. /\ ListsOK'
      /\ \A s \in Servers, v \in VCIds : HasServer(v, s)' <=> HasServer(v, s) /\ ~ (v = w /\ s \in vcServers[w])
      /\ \A l \in Leaves, v \in VCIds : HasLeaf(v, l)' <=> HasLeaf(v, l) /\ ~ (v = w /\ l \in vcLeaves[w])
  BY <1>3, RemovedFromLists
<1>6. \A d \in Callers \ {c} : call[d] # None =>
        /\ K(d).op = "FailServer" => serverVCs'[K(d).server] = serverVCs[K(d).server]
        /\ K(d).op = "FailLeaf" => leafVCs'[K(d).leaf] = leafVCs[K(d).leaf]
  BY <1>1, <1>3, ListsOfOthers
<1>7. /\ pc'[c] = "idle" /\ call'[c] = None
      /\ \A d \in Callers \ {c} : Still(d)
  BY <1>2, <1>3, <1>4 DEF Still
<1>8. /\ \A v \in VCIds \ {w} : SameStages(c, v)
      /\ \A s \in Servers : ~TookServer(c, s, w) /\ ~TookServer(c, s, w)'
      /\ \A l \in Leaves : ~TookLeaf(c, l, w) /\ ~TookLeaf(c, l, w)'
      /\ ~Adds(c, w)' /\ ~Unlists(c, w)'
  BY <1>1, <1>7 DEF SameStages, Adds, Unlists, Empties, TookServer, TookLeaf, Leaving
<1>9. \A v \in VCIds \ {w} : SameVC(v) /\ SameStages(c, v)
  BY <1>3, <1>5, <1>8 DEF SameVC
<1>10. LoopOK(c)'
  BY <1>7 DEF LoopOK
\* no other call is about the VC, which is in no list any more
<1>11. VCOK(w)'
  <2>1. VCOK(w)
    BY DEF VCInv
  <2>2. ASSUME NEW d \in Callers, d # c
        PROVE  /\ ~Unlists(d, w)'
               /\ \A s \in Servers : ~TookServer(d, s, w) /\ ~TookServer(d, s, w)'
               /\ \A l \in Leaves : ~TookLeaf(d, l, w) /\ ~TookLeaf(d, l, w)'
    <3>1. SameStages(d, w)
      BY <1>7, <2>2, StillStages
    <3>2. ~ (call[d] # None /\ w \in call[d].clusters)
      BY <1>1, <2>2, OtherClusters
    <3> QED
      BY <3>1, <3>2, ChangesItsClusters DEF SameStages
  <2>3. ~Present(w)' /\ w \notin vcs'
    BY <1>1, <1>3, <1>8, <2>2 DEF Present
  <2>4. \A d \in Callers : /\ \A s \in Servers : ~TookServer(d, s, w) /\ ~TookServer(d, s, w)'
                           /\ \A l \in Leaves : ~TookLeaf(d, l, w) /\ ~TookLeaf(d, l, w)'
    BY <1>8, <2>2
  <2>5. /\ \A s \in Servers : ~HasServer(w, s)'
        /\ \A l \in Leaves : ~HasLeaf(w, l)'
    BY <1>5, <2>1, <2>4 DEF VCOK
  <2> QED
    BY <2>3, <2>4, <2>5 DEF VCOK
<1> QED
  BY <1>1, <1>3, <1>5, <1>6, <1>7, <1>9, <1>10, <1>11, OneVCChanges

LEMMA ServeKeepsVCs ==
  ASSUME VCInv, IInv', NEW c \in Callers, Serve(c)
  PROVE  VCInv'
<1>1. CASE AppendLeaf(c) \/ StoreLeaf(c) \/ AppendServer(c) \/ LookUp(c) \/ LockTopology(c)
           \/ SetLeafLast(c) \/ Drain(c) \/ First(c) \/ LockForLeaf(c) \/ CutLeaf(c)
  BY <1>1, TreeStepKeepsVCs
<1>2. CASE NumberServer(c) \/ SliceServer(c) \/ ListVCs(c) \/ ScanSiblings(c) \/ DropServer(c)
  BY <1>2, NumberServerKeepsVCs, SliceServerKeepsVCs, ListVCsKeepsVCs, ScanSiblingsKeepsVCs, DropServerKeepsVCs
<1>3. CASE Shed(c) \/ Unlist(c) \/ DetachLeaf(c) \/ DropLeaf(c) \/ LookUpLeaf(c)
  BY <1>3, ShedKeepsVCs, UnlistKeepsVCs, DetachLeafKeepsVCs, DropLeafKeepsVCs, LookUpLeafKeepsVCs
<1>4. CASE StoreVC(c) \/ ListVC(c) \/ DeleteVC(c) \/ UnlistVC(c)
  BY <1>4, StoreVCKeepsVCs, ListVCKeepsVCs, DeleteVCKeepsVCs, UnlistVCKeepsVCs
<1> QED
  BY <1>1, <1>2, <1>3, <1>4 DEF Serve

LEMMA StutteringKeepsVCs ==
  ASSUME VCInv, IInv', UNCHANGED vars
  PROVE  VCInv'
<1>1. /\ parent' = parent /\ UNCHANGED books /\ call' = call /\ pc' = pc /\ loc' = loc
      /\ vcs' = vcs /\ vcServers' = vcServers /\ vcLeaves' = vcLeaves
      /\ serverVCs' = serverVCs /\ leafVCs' = leafVCs
  BY DEF vars, tree, books
<1>2. \A d \in Callers : Still(d)
  BY <1>1 DEF Still
<1>3. ASSUME NEW d \in Callers
      PROVE  LoopOK(d)' /\ (call'[d] # None => VCCallOK(d)')
  <2>1. /\ \A s \in Servers : HasServer(K(d).vc, s)' => HasServer(K(d).vc, s)
        /\ \A l \in Leaves : HasLeaf(K(d).vc, l)' => HasLeaf(K(d).vc, l)
    BY <1>1 DEF HasServer, HasLeaf, K
  <2>2. HasSibling(d)' <=> HasSibling(d)
    BY <1>1 DEF HasSibling, K
  <2> QED
    BY <1>1, <1>2, <2>1, <2>2, CallerKeeps
<1>4. ASSUME NEW v \in VCIds
      PROVE  VCOK(v)'
  <2>1. SameVC(v) /\ \A d \in Callers : SameStages(d, v)
    BY <1>1, <1>2, StillStages DEF SameVC, HasServer, HasLeaf
  <2>2. VCOK(v) /\ vcServers[v] \subseteq Servers /\ vcLeaves[v] \subseteq Leaves
    BY DEF VCInv, IInv, TypeOK
  <2> QED
    BY <1>1, <2>1, <2>2, VCKeeps
<1>5. \A d, e \in Callers : d # e => VCsApart(d, e)'
  BY <1>1 DEF VCInv, VCsApart, NewVCAndFail, Ops, K
<1>6. ListsOK'
  BY <1>1 DEF VCInv, ListsOK
<1> QED
  BY <1>3, <1>4, <1>5, <1>6 DEF VCInv

LEMMA NextKeepsVCs ==
  ASSUME Overlaps = {}, VCInv, [Next]_vars
  PROVE  VCInv'
<1>1. IInv'
  BY NextKeeps DEF VCInv, NoTreeRaces
<1>2. CASE Next
  BY <1>1, <1>2, CallsKeepVCs, ServeKeepsVCs DEF Next
<1>3. CASE UNCHANGED vars
  BY <1>1, <1>3, StutteringKeepsVCs
<1> QED
  BY <1>2, <1>3

LEMMA InitEstablishesVCs ==
  ASSUME Init
  PROVE  VCInv
<1>1. IInv
  BY InitEstablishes
<1>2. PICK start \in Starts :
        /\ vcs = DOMAIN start.vcs
        /\ vcServers = [v \in VCIds |-> IF v \in vcs THEN start.vcs[v] ELSE {}]
  BY DEF Init
<1>3. PICK order \in SetToSeqs(vcs) :
        /\ serverVCs = [s \in Servers |-> Listed(order, {v \in vcs : s \in vcServers[v]})]
        /\ leafVCs = [l \in Leaves |-> Listed(order, {v \in vcs : l \in vcLeaves[v]})]
  BY DEF Init
<1>4. /\ vcLeaves = [v \in VCIds |-> {parent[s] : s \in vcServers[v]}]
      /\ call = [c \in Callers |-> None] /\ pc = [c \in Callers |-> "idle"]
  BY DEF Init
<1>5. /\ IsFiniteSet(vcs) /\ vcs \in SUBSET VCIds
      /\ \A v \in vcs : vcServers[v] # {}
  BY <1>2, StartsAssumption DEF StartOK
<1>6. /\ vcServers \in [VCIds -> SUBSET Servers] /\ vcLeaves \in [VCIds -> SUBSET Leaves]
  BY <1>1 DEF IInv, TypeOK
<1>7. order \in Seq(VCIds) /\ IsInjective(order) /\ Range(order) = vcs
  BY <1>5, OrderValue
<1>8. ASSUME NEW s \in Servers
      PROVE  /\ IsInjective(serverVCs[s])
             /\ \A v : HasServer(v, s) <=> v \in vcs /\ s \in vcServers[v]
  BY <1>3, <1>7, ListedValue DEF HasServer
<1>9. ASSUME NEW l \in Leaves
      PROVE  /\ IsInjective(leafVCs[l])
             /\ \A v : HasLeaf(v, l) <=> v \in vcs /\ l \in vcLeaves[v]
  BY <1>3, <1>7, ListedValue DEF HasLeaf
<1>10. ASSUME NEW c \in Callers
       PROVE  /\ LoopOK(c) /\ call[c] = None
              /\ \A v : ~Adds(c, v) /\ ~Unlists(c, v)
              /\ \A v, s : ~TookServer(c, s, v)
              /\ \A v, l : ~TookLeaf(c, l, v)
  <2>1. pc[c] = "idle" /\ call[c] = None
    BY <1>4
  <2> QED
    BY <2>1 DEF LoopOK, Adds, Unlists, TookServer, TookLeaf
<1>11. ASSUME NEW v \in VCIds
       PROVE  VCOK(v)
  <2>1. Present(v) <=> v \in vcs
    BY <1>10 DEF Present
  <2>2. vcLeaves[v] = {parent[s] : s \in vcServers[v]}
    BY <1>4
  <2>3. vcServers[v] \subseteq Servers /\ vcLeaves[v] \subseteq Leaves
    BY <1>6
  <2> QED
    BY <1>5, <1>8, <1>9, <1>10, <2>1, <2>2, <2>3 DEF VCOK
<1>12. ListsOK
  BY <1>8, <1>9 DEF ListsOK
<1> QED
  BY <1>1, <1>10, <1>11, <1>12 DEF VCInv, VCsApart

(* However the calls overlap, the maps of the VC Manager fit together      *)
(* again when no call is in progress: a VC has servers, which exist, its   *)
(* leaves are just those they are below, and both directions of the lists  *)
(* agree.  None of the races happens: no call gets a VC that another has,  *)
(* but for failures of servers below different leaves; no server of a VC   *)
(* fails, nor its leaf, while that VC is made; and the calls at the tree   *)
(* keep to what TreeIsAlwaysWhole needs.                                   *)
THEOREM VCsAreAlwaysWhole ==
  ASSUME Overlaps = {}
  PROVE  Spec => []VCsAreWhole
<1>1. Init => VCInv
  BY InitEstablishesVCs
<1>2. VCInv /\ [Next]_vars => VCInv'
  BY NextKeepsVCs
<1>3. ASSUME VCInv
      PROVE  VCsAreWhole
  <2> SUFFICES ASSUME Quiet
               PROVE  /\ \A v \in vcs : vcServers[v] # {}
                      /\ \A v \in vcs : \A s \in vcServers[v] : parent[s] # None
                      /\ \A v \in vcs : vcLeaves[v] = {parent[s] : s \in vcServers[v]}
                      /\ \A s \in Servers : Range(serverVCs[s]) = {v \in vcs : s \in vcServers[v]}
                      /\ \A l \in Leaves : Range(leafVCs[l]) = {v \in vcs : l \in vcLeaves[v]}
    BY DEF VCsAreWhole
  <2>1. \A c \in Callers : pc[c] = "idle"
    BY <1>3 DEF Quiet, VCInv, IInv, CallerOK
  <2>2. \A v : /\ Added(v)
               /\ \A c \in Callers : ~Unlists(c, v) /\ ~Empties(c, v)
               /\ \A c \in Callers, s \in Servers : ~TookServer(c, s, v)
               /\ \A c \in Callers, l \in Leaves : ~TookLeaf(c, l, v) /\ ~Leaving(c, l, v)
    BY <2>1 DEF Added, Adds, Unlists, Empties, TookServer, TookLeaf, Leaving
  <2>3. \A v : Present(v) <=> v \in vcs
    BY <2>2 DEF Present
  <2>4. /\ vcs \subseteq VCIds
        /\ vcServers \in [VCIds -> SUBSET Servers] /\ vcLeaves \in [VCIds -> SUBSET Leaves]
    BY <1>3 DEF VCInv, IInv, TypeOK
  <2>5. ASSUME NEW v \in VCIds
        PROVE  /\ v \in vcs => vcServers[v] # {}
               /\ v \in vcs => \A s \in vcServers[v] : parent[s] \in vcLeaves[v] /\ HasServer(v, s)
               /\ v \in vcs => \A l \in vcLeaves[v] : HasLeaf(v, l) /\ \E s \in vcServers[v] : parent[s] = l
               /\ \A s \in Servers : HasServer(v, s) => v \in vcs /\ s \in vcServers[v]
               /\ \A l \in Leaves : HasLeaf(v, l) => v \in vcs /\ l \in vcLeaves[v]
    <3>1. VCOK(v) /\ vcLeaves[v] \subseteq Leaves
      BY <1>3, <2>4 DEF VCInv
    <3> QED
      BY <2>2, <2>3, <3>1 DEF VCOK
  <2>6. /\ \A s \in Servers : Range(serverVCs[s]) \subseteq VCIds
        /\ \A l \in Leaves : Range(leafVCs[l]) \subseteq VCIds
    BY <1>3, ListsType
  <2>7. \A v \in vcs : \A s \in vcServers[v] : parent[s] # None
    BY <2>4, <2>5, NoneIsNobody
  <2>8. \A v \in vcs : vcLeaves[v] = {parent[s] : s \in vcServers[v]}
    BY <2>4, <2>5
  <2>9. ASSUME NEW s \in Servers
        PROVE  Range(serverVCs[s]) = {v \in vcs : s \in vcServers[v]}
    BY <2>4, <2>5, <2>6 DEF HasServer
  <2>10. ASSUME NEW l \in Leaves
         PROVE  Range(leafVCs[l]) = {v \in vcs : l \in vcLeaves[v]}
    BY <2>4, <2>5, <2>6 DEF HasLeaf
  <2> QED
    BY <2>4, <2>5, <2>7, <2>8, <2>9, <2>10
<1> QED
  BY <1>1, <1>2, <1>3, PTL DEF Spec
=============================================================================
