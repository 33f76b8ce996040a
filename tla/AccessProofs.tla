---------------------------- MODULE AccessProofs ---------------------------
(***************************************************************************)
(* Proofs about the identity tables, for every number of accounts, groups, *)
(* runs, changes and failures; and about the access of a request, for      *)
(* every number of requests, grants, rules and edits, and whatever the     *)
(* host and fs_indexer do.                                                 *)
(***************************************************************************)
EXTENDS Access, FiniteSetTheorems, WellFoundedInduction, TLAPS

----------------------------------------------------------------------------
(* The identity tables                                                     *)

\* Every pair of a table has the names of its account and its group.
AllNamed(pairs, us, gs) == \A p \in pairs : us[p[1]] # None /\ gs[p[2]] # None

\* What stands has been stored by the transaction once its uid is done, and
\* what the transaction holds is named in it: that is what Commit publishes.
TxInv ==
    /\ standing \subseteq memberOf
    /\ \A p \in standing : account[p[1]] # None
    /\ pc = "membership" =>
         /\ \A p \in standing : p[1] \notin todo => p \in tx.membership
         /\ AllNamed(tx.membership, tx.uidName, tx.gidName)
         /\ todo \subseteq Uid

IInv == IdTypeOK /\ NeverHalfEmpty /\ MembersAreNamed /\ TxInv

\* A name that is stored stays, and storing one stores it.
LEMMA NamedKeeps ==
    ASSUME NEW S, NEW T, None \notin T, NEW f \in [S -> T \cup {None}], NEW i \in S, NEW n \in T
    PROVE  /\ Named(f, i, n) \in [S -> T \cup {None}]
           /\ Named(f, i, n)[i] # None
           /\ \A j \in S : f[j] # None => Named(f, i, n)[j] # None
BY DEF Named

\* The same for the names of a set of groups.
LEMMA GroupsNamedKeeps ==
    ASSUME IdTypeOK, NEW f \in [Gid -> GroupName \cup {None}],
           NEW gs \in SUBSET Gid
    PROVE  /\ GroupsNamed(f, gs) \in [Gid -> GroupName \cup {None}]
           /\ \A g \in gs : GroupsNamed(f, gs)[g] # None
           /\ \A g \in Gid : f[g] # None => GroupsNamed(f, gs)[g] # None
<1>1. ASSUME NEW g \in Gid
      PROVE  /\ Named(f, g, group[g])[g] \in GroupName \cup {None}
             /\ Named(f, g, group[g])[g] # None
      BY NamedKeeps, group[g] \in GroupName, IdentityAssumption DEF IdTypeOK
<1> QED BY <1>1 DEF GroupsNamed

\* Empty tables and a host whose names are its own: the invariant holds.
LEMMA InitEstablishes == IdInit => IInv
<1> SUFFICES ASSUME IdInit PROVE IInv
    OBVIOUS
<1>1. /\ account \in [Uid -> Name \cup {None}] /\ group \in [Gid -> GroupName]
      /\ memberOf \subseteq Pair
  BY DEF IdInit
<1>2. /\ uidName \in [Uid -> Name \cup {None}] /\ gidName \in [Gid -> GroupName \cup {None}]
      /\ tx \in [uidName : [Uid -> Name \cup {None}], gidName : [Gid -> GroupName \cup {None}],
                 membership : SUBSET Pair]
  BY DEF IdInit, Closed
<1>3. owners \in [uids : SUBSET Uid, gids : SUBSET Gid]
  BY DEF IdInit
<1>4. /\ membership = {} /\ standing = {} /\ sure = {} /\ todo = {} /\ pc = "idle"
      /\ fresh = FALSE /\ steady = FALSE /\ changes = 0 /\ renames = 0 /\ faults = 0
  BY DEF IdInit
<1>5. IdTypeOK
  <2>1. changes \in 0..MaxChanges /\ renames \in 0..MaxRenames /\ faults \in 0..MaxFaults
    BY <1>4, IdentityAssumption
  <2>2. fresh \in BOOLEAN /\ steady \in BOOLEAN
    BY <1>4, Zenon
  <2>3. QED
    BY <1>1, <1>2, <1>3, <1>4, <2>1, <2>2 DEF IdTypeOK
<1>6. QED
  BY <1>4, <1>5 DEF IInv, NeverHalfEmpty, MembersAreNamed, TxInv

\* A step of the host: what stands only shrinks, and never keeps what it changed.
LEMMA HostKeeps ==
    ASSUME IInv, MembershipChanges \/ Rename
    PROVE  IInv'
<1> USE DEF IInv
<1>1. CASE MembershipChanges
  <2> USE <1>1 DEF MembershipChanges, hostVars, tableVars, boundVars
  <2>1. PICK p \in Pair :
          /\ memberOf' = IF p \in memberOf THEN memberOf \ {p} ELSE memberOf \cup {p}
          /\ standing' = standing \ {p} /\ sure' = sure \ {p}
    OBVIOUS
  <2>2. IdTypeOK'
    <3>1. changes' \in 0..MaxChanges
      BY IdentityAssumption DEF IdTypeOK
    <3>2. memberOf' \subseteq Pair /\ standing' \subseteq Pair /\ sure' \subseteq Pair
      BY <2>1 DEF IdTypeOK
    <3>3. fresh' \in BOOLEAN /\ steady' \in BOOLEAN
      OBVIOUS
    <3>4. QED
      BY <3>1, <3>2, <3>3 DEF IdTypeOK
  <2>3. NeverHalfEmpty'
    BY <2>1 DEF NeverHalfEmpty
  <2>4. MembersAreNamed'
    BY DEF MembersAreNamed
  <2>5. TxInv'
    BY <2>1 DEF TxInv, AllNamed
  <2>6. QED
    BY <2>2, <2>3, <2>4, <2>5
<1>2. CASE Rename
  <2> USE DEF Rename, hostVars, tableVars, boundVars
  <2>1. IdTypeOK'
    <3>1. account' \in [Uid -> Name \cup {None}] /\ group' \in [Gid -> GroupName]
      BY <1>2 DEF IdTypeOK
    <3>2. standing' \subseteq standing /\ sure' \subseteq sure
      BY <1>2
    <3>3. renames' \in 0..MaxRenames
      BY <1>2, IdentityAssumption DEF IdTypeOK
    <3>4. fresh' \in BOOLEAN /\ steady' \in BOOLEAN
      BY <1>2
    <3>5. QED
      BY <1>2, <3>1, <3>2, <3>3, <3>4 DEF IdTypeOK
  <2>2. NeverHalfEmpty'
    BY <1>2 DEF NeverHalfEmpty
  <2>3. MembersAreNamed'
    BY <1>2 DEF MembersAreNamed
  <2>4. ASSUME NEW q \in standing'
        PROVE  q \in standing /\ account'[q[1]] # None
    BY <1>2, <2>4 DEF IdTypeOK, TxInv, Pair
  <2>5. TxInv'
    BY <1>2, <2>4 DEF TxInv, AllNamed
  <2>6. QED
    BY <2>1, <2>2, <2>3, <2>5
<1>3. QED
  BY <1>1, <1>2

\* A run begins with an empty membership in its transaction and every uid to do.
LEMMA BeginKeeps ==
    ASSUME IInv, Begin
    PROVE  IInv'
<1> USE DEF IInv, Begin, hostVars, tableVars, boundVars
<1>1. IdTypeOK'
  <2>1. owners' \in [uids : SUBSET Uid, gids : SUBSET Gid] /\ todo' \subseteq Uid
    OBVIOUS
  <2>2. tx' \in [uidName : [Uid -> Name \cup {None}], gidName : [Gid -> GroupName \cup {None}],
                 membership : SUBSET Pair]
    BY DEF IdTypeOK
  <2>3. standing' \subseteq memberOf /\ sure' \subseteq sure
    OBVIOUS
  <2>4. QED
    BY <2>1, <2>2, <2>3 DEF IdTypeOK
<1>2. NeverHalfEmpty' /\ MembersAreNamed'
  BY DEF NeverHalfEmpty, MembersAreNamed
<1>3. TxInv'
  BY DEF TxInv, AllNamed
<1>4. QED
  BY <1>1, <1>2, <1>3

\* The account is named before its memberships, and the groups with them.
LEMMA ResolveUidKeeps ==
    ASSUME IInv, NEW u \in Uid, ResolveUid(u)
    PROVE  IInv'
<1> USE DEF IInv, hostVars, tableVars, boundVars
<1>1. /\ pc = "membership" /\ u \in todo /\ todo' = todo \ {u} /\ pc' = pc
      /\ UNCHANGED <<account, group, memberOf, owners, uidName, gidName, membership,
                     standing, sure, fresh, steady, changes, renames, faults>>
  BY DEF ResolveUid
<1>2. CASE account[u] = None
  <2>1. tx' = tx
    BY <1>2 DEF ResolveUid
  <2>2. IdTypeOK' /\ NeverHalfEmpty' /\ MembersAreNamed'
    BY <1>1, <2>1 DEF IdTypeOK, NeverHalfEmpty, MembersAreNamed
  <2>3. \A p \in standing : p[1] # u
    BY <1>2 DEF TxInv
  <2>4. TxInv'
    BY <1>1, <2>1, <2>3 DEF TxInv, AllNamed
  <2>5. QED
    BY <2>2, <2>4
<1>3. CASE account[u] # None
  <2> DEFINE us == Named(tx.uidName, u, account[u])
             gs == GroupsNamed(tx.gidName, GroupsOf(u))
             ms == tx.membership \cup {<<u, g>> : g \in GroupsOf(u)}
  <2>1. tx' = [uidName |-> us, gidName |-> gs, membership |-> ms]
    BY <1>3 DEF ResolveUid
  <2>2. GroupsOf(u) \in SUBSET Gid
    BY DEF GroupsOf
  <2>3. /\ us \in [Uid -> Name \cup {None}] /\ us[u] # None
        /\ \A v \in Uid : tx.uidName[v] # None => us[v] # None
    <3>1. account[u] \in Name /\ None \notin Name /\ tx.uidName \in [Uid -> Name \cup {None}]
      BY <1>3, IdentityAssumption DEF IdTypeOK
    <3>2. PICK f, a : f = tx.uidName /\ a = account[u]
      OBVIOUS
    <3>3. f \in [Uid -> Name \cup {None}] /\ a \in Name
      BY <3>1, <3>2
    <3>4. /\ Named(f, u, a) \in [Uid -> Name \cup {None}]
          /\ Named(f, u, a)[u] # None
          /\ \A v \in Uid : f[v] # None => Named(f, u, a)[v] # None
      BY <3>1, <3>3, NamedKeeps
    <3>5. QED
      BY <3>2, <3>4
  <2>4. /\ gs \in [Gid -> GroupName \cup {None}]
        /\ \A g \in GroupsOf(u) : gs[g] # None
        /\ \A g \in Gid : tx.gidName[g] # None => gs[g] # None
    <3>1. tx.gidName \in [Gid -> GroupName \cup {None}]
      BY DEF IdTypeOK
    <3>2. QED
      BY <2>2, <3>1, GroupsNamedKeeps
  <2>5. ms \subseteq Pair /\ tx.membership \subseteq Pair
    BY <2>2 DEF IdTypeOK, Pair
  <2> HIDE DEF us, gs, ms
  <2>6. IdTypeOK'
    BY <1>1, <2>1, <2>3, <2>4, <2>5 DEF IdTypeOK
  <2>7. NeverHalfEmpty' /\ MembersAreNamed'
    BY <1>1 DEF NeverHalfEmpty, MembersAreNamed
  <2>8. AllNamed(ms, us, gs)
    <3> SUFFICES ASSUME NEW p \in ms PROVE us[p[1]] # None /\ gs[p[2]] # None
      BY DEF AllNamed
    <3>1. CASE p \in tx.membership
      <4>1. tx.uidName[p[1]] # None /\ tx.gidName[p[2]] # None /\ p[1] \in Uid /\ p[2] \in Gid
        BY <1>1, <2>5, <3>1 DEF TxInv, AllNamed, Pair
      <4>2. QED
        BY <4>1, <2>3, <2>4
    <3>2. CASE p \notin tx.membership
      <4>1. PICK g \in GroupsOf(u) : p = <<u, g>>
        BY <3>2 DEF ms
      <4>2. QED
        BY <4>1, <2>3, <2>4
    <3>3. QED
      BY <3>1, <3>2
  <2>9. ASSUME NEW p \in standing, p[1] \notin todo \ {u}
        PROVE  p \in ms
    <3>1. CASE p[1] = u
      <4>1. p \in memberOf /\ p \in Pair
        BY DEF TxInv, IdTypeOK
      <4>2. p = <<u, p[2]>> /\ p[2] \in GroupsOf(u)
        BY <3>1, <4>1 DEF Pair, GroupsOf
      <4>3. QED
        BY <4>2 DEF ms
    <3>2. CASE p[1] # u
      BY <1>1, <2>9, <3>2 DEF TxInv, ms
    <3>3. QED
      BY <3>1, <3>2
  <2>10. TxInv'
    BY <1>1, <2>1, <2>8, <2>9 DEF TxInv
  <2>11. QED
    BY <2>6, <2>7, <2>10
<1>4. QED
  BY <1>2, <1>3

\* A lookup that fails: nothing stands for that account any more.
LEMMA LookupFailsKeeps ==
    ASSUME IInv, NEW u \in Uid, LookupFails(u)
    PROVE  IInv'
<1> USE DEF IInv, hostVars, tableVars, boundVars
<1>1. /\ pc = "membership" /\ u \in todo /\ todo' = todo \ {u} /\ pc' = pc
      /\ faults < MaxFaults /\ faults' = faults + 1
      /\ standing' = {p \in standing : p[1] # u} /\ sure' = {p \in sure : p[1] # u}
      /\ steady' = FALSE /\ fresh' = FALSE
      /\ UNCHANGED <<account, group, memberOf, owners, uidName, gidName, membership,
                     changes, renames>>
  BY DEF LookupFails
<1>2. /\ tx' \in [uidName : [Uid -> Name \cup {None}], gidName : [Gid -> GroupName \cup {None}],
                  membership : SUBSET Pair]
      /\ tx'.membership = tx.membership /\ tx'.gidName = tx.gidName
      /\ \A v \in Uid : tx.uidName[v] # None => tx'.uidName[v] # None
  <2>1. CASE tx' = tx
    BY <2>1 DEF IdTypeOK
  <2>2. CASE account[u] # None /\ tx' = [tx EXCEPT !.uidName = Named(tx.uidName, u, account[u])]
    <3>1. account[u] \in Name \cup {None} /\ tx.uidName \in [Uid -> Name \cup {None}]
      BY DEF IdTypeOK
    <3>2. account[u] # None
      BY <2>2
    <3>3. account[u] \in Name /\ None \notin Name
      BY <3>1, <3>2, IdentityAssumption
    <3>4. /\ Named(tx.uidName, u, account[u]) \in [Uid -> Name \cup {None}]
          /\ \A v \in Uid : tx.uidName[v] # None => Named(tx.uidName, u, account[u])[v] # None
      BY <3>1, <3>3, NamedKeeps
    <3>5. tx.gidName \in [Gid -> GroupName \cup {None}] /\ tx.membership \in SUBSET Pair
      BY DEF IdTypeOK
    <3>6. tx' = [uidName |-> Named(tx.uidName, u, account[u]),
                 gidName |-> tx.gidName, membership |-> tx.membership]
      BY <2>2 DEF IdTypeOK
    <3>7. QED
      BY <3>4, <3>5, <3>6
  <2>3. QED
    BY <2>1, <2>2 DEF LookupFails
<1>3. IdTypeOK'
  <2>1. faults' \in 0..MaxFaults
    BY <1>1, IdentityAssumption DEF IdTypeOK
  <2>2. fresh' \in BOOLEAN /\ steady' \in BOOLEAN
    BY <1>1
  <2>3. standing' \subseteq Pair /\ sure' \subseteq Pair /\ todo' \subseteq Uid \cup Gid
    BY <1>1 DEF IdTypeOK
  <2>4. QED
    BY <1>1, <1>2, <2>1, <2>2, <2>3 DEF IdTypeOK
<1>4. NeverHalfEmpty' /\ MembersAreNamed'
  BY <1>1 DEF NeverHalfEmpty, MembersAreNamed
<1>5. tx.membership \subseteq Uid \X Gid
  BY DEF IdTypeOK, Pair
<1>6. AllNamed(tx'.membership, tx'.uidName, tx'.gidName)
  BY <1>1, <1>2, <1>5 DEF TxInv, AllNamed
<1>7. TxInv'
  BY <1>1, <1>2, <1>6 DEF TxInv
<1>8. QED
  BY <1>3, <1>4, <1>7

\* Commit publishes what stands, named.
LEMMA CommitKeeps ==
    ASSUME IInv, Commit
    PROVE  IInv'
<1> USE DEF IInv, Commit, hostVars, tableVars, boundVars
<1>1. tx' \in [uidName : [Uid -> Name \cup {None}], gidName : [Gid -> GroupName \cup {None}],
               membership : SUBSET Pair]
  BY DEF Closed
<1>2. IdTypeOK'
  BY <1>1 DEF IdTypeOK
<1>3. NeverHalfEmpty'
  BY DEF NeverHalfEmpty, TxInv
<1>4. MembersAreNamed'
  BY DEF MembersAreNamed, TxInv, AllNamed
<1>5. TxInv'
  BY DEF TxInv
<1>6. QED
  BY <1>2, <1>3, <1>4, <1>5

\* The names of the groups that own files come after, one by one.
LEMMA ResolveGidKeeps ==
    ASSUME IInv, NEW g \in Gid, ResolveGid(g)
    PROVE  IInv'
<1> USE DEF IInv, ResolveGid, hostVars, tableVars, boundVars
<1>1. group[g] \in GroupName /\ None \notin GroupName /\ gidName \in [Gid -> GroupName \cup {None}]
  BY IdentityAssumption DEF IdTypeOK
<1>2. /\ gidName' \in [Gid -> GroupName \cup {None}]
      /\ \A h \in Gid : gidName[h] # None => gidName'[h] # None
  BY <1>1, NamedKeeps
<1>3. IdTypeOK'
  BY <1>2 DEF IdTypeOK
<1>4. NeverHalfEmpty'
  BY DEF NeverHalfEmpty
<1>5. MembersAreNamed'
  <2>1. membership \subseteq Uid \X Gid
    BY DEF IdTypeOK, Pair
  <2>2. QED
    BY <1>2, <2>1 DEF MembersAreNamed
<1>6. TxInv'
  BY DEF TxInv
<1>7. QED
  BY <1>3, <1>4, <1>5, <1>6

\* The end of a run, good or bad, leaves the committed tables alone.
LEMMA EndKeeps ==
    ASSUME IInv, Finish \/ RunFails
    PROVE  IInv'
<1> USE DEF IInv, hostVars, tableVars, boundVars
<1>1. CASE Finish
  BY <1>1 DEF Finish, IdTypeOK, NeverHalfEmpty, MembersAreNamed, TxInv
<1>2. CASE RunFails
  <2>1. tx' \in [uidName : [Uid -> Name \cup {None}], gidName : [Gid -> GroupName \cup {None}],
                 membership : SUBSET Pair]
    BY <1>2 DEF RunFails, Closed
  <2>2. IdTypeOK'
    BY <1>2, <2>1, IdentityAssumption DEF RunFails, IdTypeOK
  <2>3. NeverHalfEmpty' /\ MembersAreNamed' /\ TxInv'
    BY <1>2 DEF RunFails, NeverHalfEmpty, MembersAreNamed, TxInv
  <2>4. QED
    BY <2>2, <2>3
<1>3. QED
  BY <1>1, <1>2

\* A step that changes nothing.
LEMMA StutterKeeps == ASSUME IInv, UNCHANGED idVars PROVE IInv'
BY DEF idVars, IInv, IdTypeOK, NeverHalfEmpty, MembersAreNamed, TxInv, AllNamed

\* The invariant of the identity tables, for any host and any number of runs,
\* changes, renames and failures.
THEOREM Inductive == IdSpec => []IInv
<1>1. IdInit => IInv
  BY InitEstablishes
<1>2. IInv /\ [IdNext]_idVars => IInv'
  <2> SUFFICES ASSUME IInv, [IdNext]_idVars PROVE IInv'
    OBVIOUS
  <2>1. CASE MembershipChanges \/ Rename
    BY <2>1, HostKeeps
  <2>2. CASE Begin
    BY <2>2, BeginKeeps
  <2>3. CASE Commit
    BY <2>3, CommitKeeps
  <2>4. CASE Finish \/ RunFails
    BY <2>4, EndKeeps
  <2>5. ASSUME NEW u \in Uid, ResolveUid(u) \/ LookupFails(u)
        PROVE  IInv'
    BY <2>5, ResolveUidKeeps, LookupFailsKeeps
  <2>6. ASSUME NEW g \in Gid, ResolveGid(g)
        PROVE  IInv'
    BY <2>6, ResolveGidKeeps
  <2>7. CASE UNCHANGED idVars
    BY <2>7, StutterKeeps
  <2>8. QED
    BY <2>1, <2>2, <2>3, <2>4, <2>5, <2>6, <2>7 DEF IdNext, Indexer
<1>3. QED
  BY <1>1, <1>2, PTL DEF IdSpec

\* The identity tables keep their types.
THEOREM TypeCorrect == IdSpec => []IdTypeOK
BY Inductive, PTL DEF IInv

\* fs_api never sees the memberships half-empty: whatever a run has begun,
\* failed at or been killed in, what has stood since a run that stored it is
\* there.
THEOREM MembershipsAreWhole == IdSpec => []NeverHalfEmpty
BY Inductive, PTL DEF IInv

\* Every membership fs_api sees can be matched by name.
THEOREM MembershipsAreNamed == IdSpec => []MembersAreNamed
BY Inductive, PTL DEF IInv

----------------------------------------------------------------------------
(***************************************************************************)
(* What a run brings up to date.                                           *)
(***************************************************************************)

\* What is stored of the names is what the host says, or nothing.
Current(us, gs) ==
    /\ \A u \in Uid : us[u] \in {None, account[u]}
    /\ \A g \in Gid : gs[g] \in {None, group[g]}

\* As long as nothing was renamed, the tables and the transaction are current.
NamesInv ==
    renames = 0 =>
        /\ NamesDiffer(account)
        /\ Current(uidName, gidName)
        /\ Current(tx.uidName, tx.gidName)

\* A table of memberships that has what the host has: nothing else, and all of
\* it for these uids.
Exact(pairs, uids) ==
    /\ pairs \subseteq memberOf
    /\ \A u \in uids : account[u] # None => \A g \in GroupsOf(u) : <<u, g>> \in pairs

\* The committed table is exact while nothing has changed since the last run
\* began, the one of the transaction, for the uids it has done, while nothing
\* has changed since this run began.
FreshInv ==
    /\ fresh => Exact(membership, owners.uids)
    /\ steady /\ pc = "membership" => Exact(tx.membership, owners.uids \ todo)

FInv == NamesInv /\ FreshInv

\* The name the host gives now is a current one.
LEMMA NamedIsCurrent ==
    ASSUME NEW S, NEW T, NEW f \in [S -> T \cup {None}], NEW h \in [S -> T \cup {None}],
           NEW i \in S, \A j \in S : f[j] \in {None, h[j]}
    PROVE  \A j \in S : Named(f, i, h[i])[j] \in {None, h[j]}
BY DEF Named

\* The same for the names of a set of groups.
LEMMA GroupsNamedIsCurrent ==
    ASSUME IdTypeOK, NEW f \in [Gid -> GroupName \cup {None}], NEW gs \in SUBSET Gid,
           \A g \in Gid : f[g] \in {None, group[g]}
    PROVE  \A g \in Gid : GroupsNamed(f, gs)[g] \in {None, group[g]}
<1> SUFFICES ASSUME NEW g \in Gid PROVE GroupsNamed(f, gs)[g] \in {None, group[g]}
    OBVIOUS
<1>1. group \in [Gid -> GroupName \cup {None}]
  BY DEF IdTypeOK
<1>2. Named(f, g, group[g])[g] \in {None, group[g]}
  BY <1>1, NamedIsCurrent
<1>3. QED
  BY <1>2 DEF GroupsNamed

\* One more uid, resolved.
LEMMA ResolveUidFresh ==
    ASSUME IInv, FInv, NEW u \in Uid, ResolveUid(u)
    PROVE  FInv'
<1> USE DEF IInv, FInv, hostVars, tableVars, boundVars
<1>1. /\ pc = "membership" /\ u \in todo /\ todo' = todo \ {u} /\ pc' = pc
      /\ UNCHANGED <<account, group, memberOf, owners, uidName, gidName, membership,
                     standing, sure, fresh, steady, changes, renames, faults>>
  BY DEF ResolveUid
<1>2. CASE account[u] = None
  <2>1. tx' = tx
    BY <1>2 DEF ResolveUid
  <2>2. NamesInv'
    BY <1>1, <2>1 DEF NamesInv, Current
  <2>3. FreshInv'
    BY <1>1, <1>2, <2>1 DEF FreshInv, Exact, GroupsOf
  <2>4. QED
    BY <2>2, <2>3
<1>3. CASE account[u] # None
  <2> DEFINE us == Named(tx.uidName, u, account[u])
             gs == GroupsNamed(tx.gidName, GroupsOf(u))
             ms == tx.membership \cup {<<u, g>> : g \in GroupsOf(u)}
  <2>1. tx' = [uidName |-> us, gidName |-> gs, membership |-> ms]
    BY <1>3 DEF ResolveUid
  <2>2. /\ GroupsOf(u) \in SUBSET Gid /\ account \in [Uid -> Name \cup {None}]
        /\ tx.uidName \in [Uid -> Name \cup {None}] /\ tx.gidName \in [Gid -> GroupName \cup {None}]
    BY DEF GroupsOf, IdTypeOK
  <2>3. ASSUME renames = 0, Current(tx.uidName, tx.gidName)
        PROVE  Current(us, gs)
    <3>1. \A v \in Uid : us[v] \in {None, account[v]}
      BY <2>2, <2>3, NamedIsCurrent DEF Current
    <3>2. \A g \in Gid : gs[g] \in {None, group[g]}
      BY <2>2, <2>3, GroupsNamedIsCurrent DEF Current
    <3>3. QED
      BY <3>1, <3>2 DEF Current
  <2>4. ASSUME Exact(tx.membership, owners.uids \ todo)
        PROVE  Exact(ms, owners.uids \ (todo \ {u}))
    BY <2>4 DEF Exact, GroupsOf
  <2> HIDE DEF us, gs, ms
  <2>5. NamesInv'
    BY <1>1, <2>1, <2>3 DEF NamesInv, Current
  <2>6. FreshInv'
    BY <1>1, <2>1, <2>4 DEF FreshInv, Exact, GroupsOf
  <2>7. QED
    BY <2>5, <2>6
<1>4. QED
  BY <1>2, <1>3

\* The other steps of a run.
LEMMA RunFresh ==
    ASSUME IInv, FInv,
           Begin \/ Commit \/ Finish \/ RunFails \/ (\E u \in Uid : LookupFails(u))
               \/ (\E g \in Gid : ResolveGid(g))
    PROVE  FInv'
<1> USE DEF IInv, FInv, hostVars, tableVars, boundVars
<1>1. CASE Begin
  BY <1>1 DEF Begin, NamesInv, Current, FreshInv, Exact, GroupsOf
<1>2. CASE Commit
  <2>1. Current(tx.uidName, tx.gidName) => Current(uidName, gidName)'
    BY <1>2 DEF Commit, Current
  <2>2. Current(tx.uidName, tx.gidName)'
    BY <1>2 DEF Commit, Current, Closed
  <2>3. NamesInv'
    BY <1>2, <2>1, <2>2 DEF Commit, NamesInv
  <2>4. FreshInv'
    BY <1>2 DEF Commit, FreshInv, Exact, GroupsOf
  <2>5. QED
    BY <2>3, <2>4
<1>3. CASE Finish
  BY <1>3 DEF Finish, NamesInv, Current, FreshInv, Exact, GroupsOf
<1>4. CASE RunFails
  <2>1. Current(tx.uidName, tx.gidName)'
    BY <1>4 DEF RunFails, Current, Closed
  <2>2. NamesInv'
    BY <1>4, <2>1 DEF RunFails, NamesInv, Current
  <2>3. FreshInv'
    BY <1>4 DEF RunFails, FreshInv, Exact, GroupsOf
  <2>4. QED
    BY <2>2, <2>3
<1>5. CASE \E u \in Uid : LookupFails(u)
  <2>1. PICK u \in Uid : LookupFails(u)
    BY <1>5
  <2>2. ~fresh' /\ ~steady'
        /\ UNCHANGED <<account, group, uidName, gidName, renames>>
    BY <2>1 DEF LookupFails
  <2>3. account \in [Uid -> Name \cup {None}] /\ tx.uidName \in [Uid -> Name \cup {None}]
    BY DEF IdTypeOK
  <2>4. ASSUME Current(tx.uidName, tx.gidName)
        PROVE  Current(tx.uidName, tx.gidName)'
    <3>1. CASE tx' = tx
      BY <2>2, <2>4, <3>1 DEF Current
    <3>2. CASE tx' = [tx EXCEPT !.uidName = Named(tx.uidName, u, account[u])]
      <4>1. tx'.uidName = Named(tx.uidName, u, account[u]) /\ tx'.gidName = tx.gidName
        BY <3>2 DEF IdTypeOK
      <4>2. \A v \in Uid : Named(tx.uidName, u, account[u])[v] \in {None, account[v]}
        BY <2>3, <2>4, NamedIsCurrent DEF Current
      <4>3. QED
        BY <2>2, <2>4, <4>1, <4>2 DEF Current
    <3>3. QED
      BY <2>1, <3>1, <3>2 DEF LookupFails
  <2>5. NamesInv'
    BY <2>2, <2>4 DEF NamesInv, Current
  <2>6. FreshInv'
    BY <2>2 DEF FreshInv
  <2>7. QED
    BY <2>5, <2>6
<1>6. CASE \E g \in Gid : ResolveGid(g)
  <2>1. PICK g \in Gid : ResolveGid(g)
    BY <1>6
  <2>2. group \in [Gid -> GroupName \cup {None}] /\ gidName \in [Gid -> GroupName \cup {None}]
    BY DEF IdTypeOK
  <2>3. ASSUME Current(uidName, gidName)
        PROVE  Current(uidName, gidName)'
    <3>1. \A h \in Gid : Named(gidName, g, group[g])[h] \in {None, group[h]}
      BY <2>2, <2>3, NamedIsCurrent DEF Current
    <3>2. QED
      BY <2>1, <2>3, <3>1 DEF ResolveGid, Current
  <2>4. NamesInv'
    BY <2>1, <2>3 DEF ResolveGid, NamesInv, Current
  <2>5. FreshInv'
    BY <2>1 DEF ResolveGid, FreshInv, Exact, GroupsOf
  <2>6. QED
    BY <2>4, <2>5
<1>7. QED
  BY <1>1, <1>2, <1>3, <1>4, <1>5, <1>6

\* A change on the host: a membership leaves the names alone, a name is counted.
LEMMA HostFresh ==
    ASSUME IInv, FInv, MembershipChanges \/ Rename
    PROVE  FInv'
<1> USE DEF IInv, FInv, hostVars, tableVars, boundVars
<1>1. CASE MembershipChanges
  BY <1>1 DEF MembershipChanges, NamesInv, Current, FreshInv
<1>2. CASE Rename
  <2>1. renames' # 0
    BY <1>2 DEF Rename, IdTypeOK
  <2>2. QED
    BY <1>2, <2>1 DEF Rename, NamesInv, FreshInv
<1>3. QED
  BY <1>1, <1>2

\* Every step keeps both invariants.
LEMMA StepFresh ==
    ASSUME IInv, FInv, [IdNext]_idVars
    PROVE  FInv'
<1>1. CASE \E u \in Uid : ResolveUid(u)
  BY <1>1, ResolveUidFresh
<1>2. CASE Begin \/ Commit \/ Finish \/ RunFails \/ (\E u \in Uid : LookupFails(u))
               \/ (\E g \in Gid : ResolveGid(g))
  BY <1>2, RunFresh
<1>3. CASE MembershipChanges \/ Rename
  BY <1>3, HostFresh
<1>4. CASE UNCHANGED idVars
  BY <1>4 DEF idVars, FInv, NamesInv, Current, FreshInv, Exact, GroupsOf
<1>5. QED
  BY <1>1, <1>2, <1>3, <1>4 DEF IdNext, Indexer

\* Nothing is stored in the beginning.
LEMMA InitFresh == IdInit => FInv
BY DEF IdInit, FInv, NamesInv, Current, FreshInv, Closed

\* The second invariant of the identity tables: unrenamed names are current,
\* and a run after which nothing changed left the memberships of the host.
THEOREM InductiveFresh == IdSpec => []FInv
<1>1. IInv /\ FInv /\ [IdNext]_idVars => FInv'
  BY StepFresh
<1>2. QED
  BY <1>1, InitFresh, Inductive, PTL DEF IdSpec

\* A user of a fresh run has in fs_api exactly the Unix groups of the host:
\* the rows of a name are those of the one account that has it.
THEOREM RunsRefresh == IdSpec => []RefreshedByRun
<1>1. ASSUME IInv, FInv PROVE RefreshedByRun
  <2> SUFFICES ASSUME fresh, renames = 0, NEW u \in owners.uids, account[u] # None
               PROVE  UnixGroups(account[u]) = {group[g] : g \in GroupsOf(u)}
    BY DEF RefreshedByRun
  <2> USE <1>1 DEF IInv, FInv
  <2>1. /\ u \in Uid /\ account \in [Uid -> Name \cup {None}] /\ membership \subseteq Pair
        /\ group \in [Gid -> GroupName] /\ memberOf \subseteq Pair
    BY DEF IdTypeOK
  <2>2. /\ NamesDiffer(account) /\ Current(uidName, gidName) /\ Exact(membership, owners.uids)
    BY DEF NamesInv, FreshInv
  <2>3. ASSUME NEW n \in UnixGroups(account[u])
        PROVE  n \in {group[g] : g \in GroupsOf(u)}
    <3>1. PICK p \in membership : uidName[p[1]] = account[u] /\ gidName[p[2]] = n /\ n # None
      BY <2>3 DEF UnixGroups
    <3>2. p[1] \in Uid /\ p[2] \in Gid /\ p = <<p[1], p[2]>>
      BY <2>1 DEF Pair
    <3>3. account[p[1]] = account[u] /\ group[p[2]] = n
      BY <2>2, <3>1, <3>2 DEF Current
    <3>4. p[1] = u
      BY <2>1, <2>2, <3>2, <3>3 DEF NamesDiffer
    <3>5. p[2] \in GroupsOf(u)
      BY <2>2, <3>2, <3>4 DEF Exact, GroupsOf
    <3>6. QED
      BY <3>3, <3>5
  <2>4. ASSUME NEW g \in GroupsOf(u)
        PROVE  group[g] \in UnixGroups(account[u])
    <3>1. g \in Gid /\ <<u, g>> \in membership
      BY <2>2 DEF Exact, GroupsOf
    <3>2. uidName[u] # None /\ gidName[g] # None
      BY <3>1 DEF MembersAreNamed
    <3>3. uidName[u] = account[u] /\ gidName[g] = group[g]
      BY <2>1, <2>2, <3>1, <3>2 DEF Current
    <3>4. QED
      BY <3>1, <3>2, <3>3 DEF UnixGroups
  <2>5. QED
    BY <2>3, <2>4
<1>2. QED
  BY <1>1, Inductive, InductiveFresh, PTL

----------------------------------------------------------------------------
(* Access                                                                  *)

Req ==
    [pc : {"rules", "grants", "handler", "served", "refused", "failed"}, path : Path,
     groups : SUBSET IdpGroup, role : {"admin", "viewer", "restricted"},
     name : Name \cup {None}, prefixes : SUBSET Path]

TablesOK ==
    /\ grants \subseteq Grant
    /\ DOMAIN rules \subseteq Suffix /\ IsFiniteSet(DOMAIN rules)
    /\ \A s \in DOMAIN rules : rules[s] \in Name
    /\ edits \in 0..MaxEdits

\* Only restricted requests look anything up, and such a one has its name once
\* the rules are read.
RequestsOK ==
    /\ request \in [Request -> Req \cup {Idle}]
    /\ \A r \in Request : request[r].pc \in {"rules", "grants"} => Restricted(r)
    /\ \A r \in Request :
         Restricted(r) /\ request[r].pc \notin {"rules", "failed"} => request[r].name \in Name

\* What stands now, a request under way has seen; and what it has kept, stands.
Seen(r) ==
    /\ grants \subseteq seenGrants[r]
    /\ mapIdentity(rules) \in seenNames[r]
    /\ \A n \in seenNames[r] : UnixGroups(n) \subseteq seenUnix[r]
    /\ kept[r] \subseteq Ways(grants, rules, request[r].groups, sure, account, group)

\* A grant seen for these groups covers the prefix, for a name that was seen.
Granted(pre, groups, gs, ns, us) ==
    \E g \in gs, n \in ns :
        /\ g.type = "idp" => g.group \in groups \cup {Everyone}
        /\ g.type = "unix" => g.group \in us
        /\ g.path = UserHome => n \notin Unsafe
        /\ pre = IF g.path = UserHome THEN Home[n] ELSE g.path

\* The name and the prefixes of a request come from what it has seen.
Within(r) ==
    /\ request[r].pc \notin {"rules", "failed"} => request[r].name \in seenNames[r]
    /\ request[r].pc \in {"handler", "served", "refused"} =>
         \A pre \in request[r].prefixes :
             Granted(pre, request[r].groups, seenGrants[r], seenNames[r], seenUnix[r])
    /\ request[r].pc = "served" => allows(request[r], request[r].path)

\* The name of a request is the one of the pairs it has kept, and its prefixes
\* are at least theirs.
Standing(r) ==
    /\ request[r].pc \notin {"rules", "failed"} => \A w \in kept[r] : w[2] = request[r].name
    /\ renames = 0 /\ request[r].pc \in {"handler", "served", "refused"} =>
         \A w \in kept[r] : Expand(w[1], w[2]) \subseteq request[r].prefixes
    /\ request[r].pc = "refused" => ~allows(request[r], request[r].path)

SeenInv   == \A r \in Request : request[r] # Idle => Seen(r)
ClaimsInv == \A r \in Request : Restricted(r) => Within(r) /\ Standing(r)

AInv == TablesOK /\ RequestsOK /\ SeenInv /\ ClaimsInv

----------------------------------------------------------------------------
(***************************************************************************)
(* Finite sets, and the longest suffix of the identity rules.              *)
(***************************************************************************)

\* A set of sets with one that contains no other of them.
HasMinimal(T) == \E x \in T : \A y \in T : y \subseteq x => y = x

\* Among subsets of a finite set there is one that contains no other.
LEMMA MinimalSubset ==
    ASSUME NEW S, IsFiniteSet(S), NEW T, T \subseteq SUBSET S, T # {}
    PROVE  HasMinimal(T)
<1>1. IsWellFoundedOn(StrictSubsetOrdering(S), SUBSET S)
  BY FS_StrictSubsetOrderingWellFounded, FS_FiniteSubsetsOfFinite
<1>2. \E x \in T : \A y \in T : <<y, x>> \notin StrictSubsetOrdering(S)
  BY <1>1, WFMin
<1>3. QED
  BY <1>2 DEF StrictSubsetOrdering, HasMinimal

\* A finite set of numbers has its greatest element.
LEMMA MaxIsThere ==
    ASSUME NEW S \in SUBSET Nat, IsFiniteSet(S), S # {}
    PROVE  Max(S) \in S
<1>1. PICK above : above = [x \in S |-> {y \in S : y >= x}]
  OBVIOUS
<1>2. PICK T : T = {above[x] : x \in S}
  OBVIOUS
<1>3. T \subseteq SUBSET S /\ T # {}
  BY <1>1, <1>2
<1>4. PICK a \in T : \A b \in T : b \subseteq a => b = a
  <2>1. HasMinimal(T)
    BY <1>3, MinimalSubset
  <2>2. QED
    BY <2>1 DEF HasMinimal
<1>5. PICK x \in S : a = above[x]
  BY <1>2
<1>6. \A y \in S : x >= y
  <2> SUFFICES ASSUME NEW y \in S, ~(x >= y) PROVE FALSE
    OBVIOUS
  <2>1. x \in Nat /\ y \in Nat /\ y > x
    OBVIOUS
  <2>2. above[y] \subseteq above[x]
    <3> SUFFICES ASSUME NEW z \in S, z >= y PROVE z >= x
      BY <1>1
    <3>1. z \in Nat
      OBVIOUS
    <3>2. QED
      BY <2>1, <3>1
  <2>3. x \in above[x] /\ x \notin above[y]
    BY <1>1, <2>1
  <2>4. QED
    BY <1>2, <1>4, <1>5, <2>2, <2>3
<1>7. QED
  BY <1>6 DEF Max

\* The identity always has a Unix name.
LEMMA IdentityHasName ==
    ASSUME TablesOK
    PROVE  mapIdentity(rules) \in Name
<1>1. CASE DOMAIN rules = {}
  BY <1>1, AccessAssumption DEF mapIdentity
<1>2. CASE DOMAIN rules # {}
  <2>1. Max(DOMAIN rules) \in DOMAIN rules
    BY <1>2, MaxIsThere, AccessAssumption DEF TablesOK
  <2>2. QED
    BY <1>2, <2>1 DEF mapIdentity, TablesOK
<1>3. QED
  BY <1>1, <1>2

----------------------------------------------------------------------------
(***************************************************************************)
(* The identity tables run as module Identities says, whatever fs_api does.*)
(***************************************************************************)

\* Every step is one of the identity tables, or leaves them alone.
LEMMA IdentityStep == [Next]_vars => [IdNext]_idVars
BY DEF Next, vars, IdNext

\* The tables of the composition are those of module Identities.
THEOREM IdentitiesAsSpecified == Spec => IdSpec
<1>1. Init => IdInit
  BY DEF Init
<1>2. QED
  BY <1>1, IdentityStep, PTL DEF Spec, IdSpec

\* A rename is never forgotten.
LEMMA RenamesCount ==
    ASSUME IdTypeOK, [Next]_vars, renames' = 0
    PROVE  renames = 0
<1>1. CASE UNCHANGED idVars
  BY <1>1 DEF idVars
<1>2. CASE IdNext
  <2>1. CASE Rename
    BY <2>1 DEF Rename, IdTypeOK
  <2>2. CASE MembershipChanges
    BY <2>2 DEF MembershipChanges
  <2>3. CASE Indexer
    BY <2>3 DEF Indexer, Begin, Commit, Finish, RunFails, ResolveUid, LookupFails, ResolveGid,
                boundVars
  <2>4. QED
    BY <1>2, <2>1, <2>2, <2>3 DEF IdNext
<1>3. QED
  BY <1>1, <1>2, IdentityStep

\* A Unix-group grant that holds by what the host has been sure of is found by
\* the query, as long as nothing was renamed: the membership is stored, with
\* the names of now.
LEMMA SureIsFound ==
    ASSUME IInv, FInv, renames = 0, NEW n \in Name,
           NEW m \in sure, account[m[1]] = n
    PROVE  group[m[2]] \in UnixGroups(n)
<1>1. m \in membership /\ m[1] \in Uid /\ m[2] \in Gid
  BY DEF IInv, NeverHalfEmpty, IdTypeOK, Pair
<1>2. uidName[m[1]] # None /\ gidName[m[2]] # None
  BY <1>1 DEF IInv, MembersAreNamed
<1>3. uidName[m[1]] = account[m[1]] /\ gidName[m[2]] = group[m[2]]
  BY <1>1, <1>2 DEF FInv, NamesInv, Current
<1>4. QED
  BY <1>1, <1>2, <1>3 DEF UnixGroups

----------------------------------------------------------------------------
(***************************************************************************)
(* What every step leaves of a request it does not move.                   *)
(***************************************************************************)

\* The history of a request under way: it grows by what stands now, except for
\* what has held throughout, which shrinks.
LEMMA WatchSees ==
    ASSUME Watch, NEW r \in Request, request'[r] # Idle
    PROVE  /\ Seen(r)'
           /\ seenGrants[r] \subseteq seenGrants'[r] /\ seenNames[r] \subseteq seenNames'[r]
           /\ seenUnix[r] \subseteq seenUnix'[r]
           /\ request[r] # Idle => kept'[r] \subseteq kept[r]
<1>1. /\ seenGrants'[r] = seenGrants[r] \cup grants'
      /\ seenNames'[r] = seenNames[r] \cup {mapIdentity(rules')}
      /\ seenUnix'[r] = seenUnix[r] \cup UNION {UnixGroups(n)' : n \in seenNames'[r]}
  BY DEF Watch
<1>2. PICK now : now = Ways(grants', rules', request'[r].groups, sure', account', group')
  OBVIOUS
<1>3. kept'[r] = IF request[r] = Idle THEN now ELSE kept[r] \cap now
  BY <1>2 DEF Watch
<1>4. kept[r]' \subseteq Ways(grants, rules, request[r].groups, sure, account, group)'
  BY <1>2, <1>3 DEF Ways, mapIdentity
<1>5. mapIdentity(rules)' \in seenNames[r]' /\ grants' \subseteq seenGrants[r]'
  BY <1>1 DEF mapIdentity
<1>6. (\A n \in seenNames[r] : UnixGroups(n) \subseteq seenUnix[r])'
  BY <1>1
<1>7. Seen(r)'
  BY <1>4, <1>5, <1>6 DEF Seen
<1>8. QED
  BY <1>1, <1>3, <1>7

\* So every step of the specification keeps SeenInv.
LEMMA SeenKeeps ==
    ASSUME SeenInv, [Next]_vars
    PROVE  SeenInv'
<1>1. CASE Watch
  BY <1>1, WatchSees DEF SeenInv
<1>2. CASE UNCHANGED vars
  BY <1>2 DEF SeenInv, Seen, vars, accessVars, idVars, UnixGroups, Ways, mapIdentity
<1>3. QED
  BY <1>1, <1>2 DEF Next

\* What was granted by what a request has seen, still is when it has seen more.
LEMMA GrantedGrows ==
    ASSUME NEW pre, NEW groups, NEW gs, NEW ns, NEW us, NEW hs, NEW ms, NEW vs,
           gs \subseteq hs, ns \subseteq ms, us \subseteq vs, Granted(pre, groups, gs, ns, us)
    PROVE  Granted(pre, groups, hs, ms, vs)
<1>1. PICK g \in gs, n \in ns :
        /\ g.type = "idp" => g.group \in groups \cup {Everyone}
        /\ g.type = "unix" => g.group \in us
        /\ g.path = UserHome => n \notin Unsafe
        /\ pre = IF g.path = UserHome THEN Home[n] ELSE g.path
  BY DEF Granted
<1>2. g \in hs /\ n \in ms /\ (g.type = "unix" => g.group \in vs)
  BY <1>1
<1>3. QED
  BY <1>1, <1>2 DEF Granted

\* A request that a step does not move keeps its claims.
LEMMA RequestStays ==
    ASSUME Watch, renames' = 0 => renames = 0,
           NEW r \in Request, request'[r] = request[r],
           Restricted(r) => Within(r) /\ Standing(r)
    PROVE  Restricted(r)' => Within(r)' /\ Standing(r)'
<1> SUFFICES ASSUME Restricted(r)' PROVE Within(r)' /\ Standing(r)'
    OBVIOUS
<1>1. Restricted(r) /\ request'[r] # Idle /\ request[r] # Idle
  BY DEF Restricted
<1>2. /\ seenGrants[r] \subseteq seenGrants'[r] /\ seenNames[r] \subseteq seenNames'[r]
      /\ seenUnix[r] \subseteq seenUnix'[r] /\ kept'[r] \subseteq kept[r]
  BY <1>1, WatchSees
<1>3. Within(r)'
  <2>1. request[r].pc \in {"handler", "served", "refused"} =>
          \A pre \in request[r].prefixes :
            Granted(pre, request[r].groups, seenGrants'[r], seenNames'[r], seenUnix'[r])
    BY <1>1, <1>2, GrantedGrows DEF Within
  <2>2. (request[r].pc \in {"handler", "served", "refused"} =>
          \A pre \in request[r].prefixes :
            Granted(pre, request[r].groups, seenGrants[r], seenNames[r], seenUnix[r]))'
    BY <2>1
  <2>3. QED
    BY <1>1, <1>2, <2>2 DEF Within, allows
<1>4. Standing(r)'
  BY <1>1, <1>2 DEF Standing, allows, Expand
<1>5. QED
  BY <1>3, <1>4

----------------------------------------------------------------------------
(***************************************************************************)
(* The steps of a request.                                                 *)
(***************************************************************************)

\* A step of one goroutine keeps the claims of all if it keeps its own.
LEMMA MoveKeeps ==
    ASSUME AInv, Watch, UNCHANGED idVars, NEW r \in Request, NEW q \in Req \cup {Idle},
           request' = [request EXCEPT ![r] = q],
           q.pc \in {"rules", "grants"} => q.role = "restricted",
           Restricted(r)' /\ q.pc \notin {"rules", "failed"} => q.name \in Name,
           Restricted(r)' => Within(r)' /\ Standing(r)'
    PROVE  RequestsOK' /\ ClaimsInv'
<1>1. request' \in [Request -> Req \cup {Idle}] /\ request'[r] = q
  BY DEF AInv, RequestsOK
<1>2. \A s \in Request \ {r} : request'[s] = request[s]
  BY DEF AInv, RequestsOK
<1>3. q.pc \in {"rules", "grants"} => Restricted(r)'
  BY <1>1 DEF Restricted, Idle
<1>4. RequestsOK'
  BY <1>1, <1>2, <1>3 DEF AInv, RequestsOK, Restricted
<1>5. renames' = 0 => renames = 0
  BY DEF idVars
<1>6. \A s \in Request \ {r} : Restricted(s)' => Within(s)' /\ Standing(s)'
  BY <1>2, <1>5, RequestStays DEF AInv, ClaimsInv
<1>7. ClaimsInv'
  BY <1>6 DEF ClaimsInv
<1>8. QED
  BY <1>4, <1>7

\* A request that arrives has no prefixes yet; one that needs none is not
\* restricted.
LEMMA ArriveKeeps ==
    ASSUME AInv, Watch, UNCHANGED idVars, NEW r \in Request, Arrive(r)
    PROVE  RequestsOK' /\ ClaimsInv'
<1>1. PICK p \in Path, groups \in SUBSET IdpGroup :
         request' = [request EXCEPT ![r] =
             [pc |-> IF roleFor(groups) = "restricted" THEN "rules" ELSE "handler",
              path |-> p, groups |-> groups, role |-> roleFor(groups),
              name |-> None, prefixes |-> {}]]
  BY DEF Arrive
<1>2. PICK q : q = [pc |-> IF roleFor(groups) = "restricted" THEN "rules" ELSE "handler",
              path |-> p, groups |-> groups, role |-> roleFor(groups),
              name |-> None, prefixes |-> {}]
  OBVIOUS
<1>3. q \in Req
  BY <1>2 DEF Req, roleFor
<1>4. request' = [request EXCEPT ![r] = q] /\ request'[r] = q
  BY <1>1, <1>2 DEF AInv, RequestsOK
<1>5. /\ q.role = "restricted" => q.pc = "rules"
      /\ q.pc \in {"rules", "grants"} => q.role = "restricted"
  BY <1>2
<1>6. Restricted(r)' => q.pc = "rules"
  BY <1>4, <1>5 DEF Restricted
<1>7. Restricted(r)' => Within(r)' /\ Standing(r)'
  BY <1>4, <1>6 DEF Within, Standing
<1>8. QED
  BY <1>3, <1>4, <1>5, <1>6, <1>7, MoveKeeps

\* Once the rules are read the request has the name of now.
LEMMA LoadRulesKeeps ==
    ASSUME AInv, Watch, UNCHANGED idVars, NEW r \in Request, LoadRules(r)
    PROVE  RequestsOK' /\ ClaimsInv'
<1>1. PICK q : q = [request[r] EXCEPT !.pc = "grants", !.name = mapIdentity(rules)]
  OBVIOUS
<1>2. request[r] \in Req /\ request[r].role = "restricted" /\ mapIdentity(rules) \in Name
  BY IdentityHasName DEF LoadRules, AInv, RequestsOK, Restricted, Idle
<1>3. q \in Req /\ q.pc = "grants" /\ q.name = mapIdentity(rules) /\ q.role = "restricted"
  BY <1>1, <1>2 DEF Req
<1>4. request' = [request EXCEPT ![r] = q] /\ request'[r] = q /\ rules' = rules
  BY <1>1 DEF LoadRules, AInv, RequestsOK
<1>5. request'[r] # Idle
  BY <1>3, <1>4 DEF Idle
<1>6. Seen(r)'
  BY <1>5, WatchSees
<1>7. Within(r)'
  BY <1>3, <1>4, <1>6 DEF Within, Seen
<1>8. \A w \in kept'[r] : w[2] = q.name
  BY <1>3, <1>4, <1>6 DEF Seen, Ways
<1>9. Standing(r)'
  BY <1>3, <1>4, <1>8 DEF Standing
<1>10. QED
  BY <1>2, <1>3, <1>4, <1>7, <1>9, MoveKeeps

\* The prefixes: each of a grant that stands, and at least those of the pairs
\* that have held.
LEMMA LoadGrantsKeeps ==
    ASSUME IInv, FInv, AInv, Watch, UNCHANGED idVars, NEW r \in Request, LoadGrants(r)
    PROVE  RequestsOK' /\ ClaimsInv'
<1>1. PICK old : old = request[r]
  OBVIOUS
<1>2. old \in Req /\ old.pc = "grants" /\ request[r] # Idle
  BY <1>1 DEF LoadGrants, AInv, RequestsOK, Idle
<1>3. PICK matching : matching = {g \in grants : Matches(g, old.groups, old.name)}
  OBVIOUS
<1>4. PICK pres : pres = UNION {Expand(g, old.name) : g \in matching}
  OBVIOUS
<1>5. PICK q : q = [old EXCEPT !.pc = "handler", !.prefixes = pres]
  OBVIOUS
<1>6. request' = [request EXCEPT ![r].pc = "handler", ![r].prefixes = pres]
      /\ UNCHANGED <<grants, rules, edits>>
  BY <1>1, <1>3, <1>4 DEF LoadGrants
<1>7. request' = [request EXCEPT ![r] = q] /\ request'[r] = q
  BY <1>1, <1>5, <1>6 DEF AInv, RequestsOK
<1>8. /\ old.role = "restricted" /\ old.name \in Name /\ Within(r) /\ Standing(r)
      /\ IdTypeOK /\ grants \subseteq Grant
  BY <1>1, <1>2 DEF AInv, RequestsOK, ClaimsInv, Restricted, IInv, TablesOK
<1>9. pres \subseteq Path
  <2> SUFFICES ASSUME NEW g \in matching PROVE Expand(g, old.name) \subseteq Path
    BY <1>4
  <2>1. g \in Grant
    BY <1>3, <1>8
  <2>2. g.path \in Path \cup {UserHome}
    BY <2>1 DEF Grant
  <2>3. QED
    BY <1>8, <2>2, AccessAssumption DEF Expand
<1>10. /\ q \in Req /\ q.pc = "handler" /\ q.prefixes = pres
       /\ q.name = old.name /\ q.groups = old.groups /\ q.role = old.role
  BY <1>2, <1>5, <1>9 DEF Req
<1>11. request'[r] # Idle
  BY <1>7, <1>10 DEF Idle
<1>12. /\ Seen(r)' /\ seenNames[r] \subseteq seenNames'[r] /\ kept'[r] \subseteq kept[r]
  BY <1>2, <1>11, WatchSees
<1>13. old.name \in seenNames'[r] /\ \A w \in kept'[r] : w[2] = old.name
  BY <1>1, <1>2, <1>8, <1>12 DEF Within, Standing
<1>14. \A pre \in pres : Granted(pre, old.groups, seenGrants'[r], seenNames'[r], seenUnix'[r])
  <2> SUFFICES ASSUME NEW g \in matching, NEW pre \in Expand(g, old.name)
               PROVE  Granted(pre, old.groups, seenGrants'[r], seenNames'[r], seenUnix'[r])
    BY <1>4
  <2>1. g \in seenGrants'[r] /\ Matches(g, old.groups, old.name)
    BY <1>3, <1>6, <1>12 DEF Seen
  <2>2. UnixGroups(old.name) \subseteq seenUnix'[r]
    <3>1. UnixGroups(old.name)' = UnixGroups(old.name)
      BY DEF UnixGroups, idVars
    <3>2. QED
      BY <1>12, <1>13, <3>1 DEF Seen
  <2>3. /\ g.path = UserHome => old.name \notin Unsafe
        /\ pre = IF g.path = UserHome THEN Home[old.name] ELSE g.path
    BY DEF Expand
  <2>4. /\ g.type = "idp" => g.group \in old.groups \cup {Everyone}
        /\ g.type = "unix" => g.group \in seenUnix'[r]
    BY <2>1, <2>2 DEF Matches
  <2>5. QED
    BY <1>13, <2>1, <2>3, <2>4 DEF Granted
<1>15. ASSUME renames = 0, NEW w \in kept'[r]
       PROVE  Expand(w[1], w[2]) \subseteq pres
  <2>1. w \in Ways(grants, rules, old.groups, sure, account, group)
    <3>1. kept'[r] \subseteq Ways(grants', rules', request'[r].groups, sure', account', group')
      BY <1>12 DEF Seen
    <3>2. QED
      BY <1>6, <1>7, <1>10, <1>15, <3>1 DEF idVars
  <2>2. PICK g \in grants :
          /\ w = <<g, mapIdentity(rules)>>
          /\ \/ g.type = "idp"  /\ g.group \in old.groups \cup {Everyone}
             \/ g.type = "unix" /\ \E m \in sure : account[m[1]] = mapIdentity(rules)
                                                     /\ group[m[2]] = g.group
    BY <2>1 DEF Ways
  <2>3. w[1] = g /\ w[2] = old.name /\ mapIdentity(rules) = old.name
    BY <1>13, <1>15, <2>2
  <2>4. Matches(g, old.groups, old.name)
    <3>1. CASE g.type = "idp"
      BY <2>2, <3>1 DEF Matches
    <3>2. CASE g.type = "unix"
      <4>1. PICK m \in sure : account[m[1]] = old.name /\ group[m[2]] = g.group
        BY <2>2, <2>3, <3>2
      <4>2. g.group \in UnixGroups(old.name)
        BY <1>8, <1>15, <4>1, SureIsFound
      <4>3. QED
        BY <3>2, <4>2 DEF Matches
    <3>3. QED
      BY <2>2, <3>1, <3>2
  <2>5. QED
    BY <1>3, <1>4, <2>3, <2>4
<1>16. Within(r)'
  BY <1>7, <1>10, <1>13, <1>14 DEF Within
<1>17. Standing(r)'
  BY <1>7, <1>10, <1>13, <1>15 DEF Standing, idVars
<1>18. QED
  BY <1>7, <1>8, <1>10, <1>16, <1>17, MoveKeeps

\* The other steps only change how far a request is: it is served or refused by
\* the prefixes it has.
LEMMA ProgressKeeps ==
    ASSUME AInv, Watch, UNCHANGED idVars, NEW r \in Request, LookupError(r) \/ Read(r)
    PROVE  RequestsOK' /\ ClaimsInv'
<1>1. PICK q : q = request'[r]
  OBVIOUS
<1>2. request[r] \in Req /\ request[r] # Idle
  BY DEF LookupError, Read, AInv, RequestsOK, Idle
<1>3. PICK at \in {"failed", "served", "refused"} :
        /\ request' = [request EXCEPT ![r].pc = at]
        /\ at = "served" => request[r].pc = "handler" /\ allows(request[r], request[r].path)
        /\ at = "refused" => request[r].pc = "handler" /\ ~allows(request[r], request[r].path)
  <2>1. CASE LookupError(r)
    BY <2>1 DEF LookupError
  <2>2. CASE Read(r)
    <3>1. CASE allows(request[r], request[r].path)
      BY <2>2, <3>1 DEF Read
    <3>2. CASE ~allows(request[r], request[r].path)
      BY <2>2, <3>2 DEF Read
    <3>3. QED
      BY <3>1, <3>2
  <2>3. QED
    BY <2>1, <2>2
<1>4. /\ q = [request[r] EXCEPT !.pc = at] /\ request' = [request EXCEPT ![r] = q]
  BY <1>1, <1>3 DEF AInv, RequestsOK
<1>5. /\ q \in Req /\ q.pc = at /\ q.path = request[r].path /\ q.groups = request[r].groups
      /\ q.role = request[r].role /\ q.name = request[r].name /\ q.prefixes = request[r].prefixes
  BY <1>2, <1>3, <1>4 DEF Req
<1>6. /\ q # Idle /\ request'[r] = q
  BY <1>1, <1>3, <1>5 DEF Idle
<1>7. /\ seenGrants[r] \subseteq seenGrants'[r] /\ seenNames[r] \subseteq seenNames'[r]
      /\ seenUnix[r] \subseteq seenUnix'[r] /\ kept'[r] \subseteq kept[r]
  BY <1>1, <1>2, <1>6, WatchSees
<1>8. ASSUME Restricted(r)', at # "failed"
      PROVE  Within(r) /\ Standing(r) /\ request[r].pc = "handler" /\ request[r].name \in Name
  BY <1>2, <1>3, <1>5, <1>6, <1>8 DEF AInv, RequestsOK, ClaimsInv, Restricted
<1>9. ASSUME Restricted(r)' PROVE Within(r)' /\ Standing(r)'
  <2>1. CASE at = "failed"
    BY <1>5, <1>6, <2>1 DEF Within, Standing
  <2>2. CASE at # "failed"
    <3>1. /\ request[r].name \in seenNames'[r]
          /\ \A w \in kept'[r] : w[2] = request[r].name
          /\ renames = 0 =>
               \A w \in kept'[r] : Expand(w[1], w[2]) \subseteq request[r].prefixes
      BY <1>7, <1>8, <1>9, <2>2 DEF Within, Standing
    <3>2. \A pre \in request[r].prefixes :
            Granted(pre, request[r].groups, seenGrants'[r], seenNames'[r], seenUnix'[r])
      BY <1>7, <1>8, <1>9, <2>2, GrantedGrows DEF Within
    <3>3. /\ at = "served" => allows(q, q.path)
          /\ at = "refused" => ~allows(q, q.path)
      BY <1>3, <1>5 DEF allows
    <3>4. Within(r)'
      BY <1>5, <1>6, <3>1, <3>2, <3>3 DEF Within, allows
    <3>5. Standing(r)'
      BY <1>5, <1>6, <3>1, <3>3 DEF Standing, allows, idVars
    <3>6. QED
      BY <3>4, <3>5
  <2>3. QED
    BY <2>1, <2>2
<1>10. /\ q.pc \notin {"rules", "grants"}
       /\ Restricted(r)' /\ q.pc \notin {"rules", "failed"} => q.name \in Name
  BY <1>3, <1>5, <1>8
<1>11. QED
  BY <1>4, <1>5, <1>9, <1>10, MoveKeeps

\* A request that is over claims nothing.
LEMMA LeaveKeeps ==
    ASSUME AInv, Watch, UNCHANGED idVars, NEW r \in Request, Leave(r)
    PROVE  RequestsOK' /\ ClaimsInv'
<1>1. request' = [request EXCEPT ![r] = Idle] /\ request'[r] = Idle
  BY DEF Leave, AInv, RequestsOK
<1>2. ~Restricted(r)'
  BY <1>1 DEF Restricted
<1>3. Idle \in Req \cup {Idle} /\ Idle.pc \notin {"rules", "grants"}
  BY DEF Idle
<1>4. QED
  BY <1>1, <1>2, <1>3, MoveKeeps

----------------------------------------------------------------------------
(***************************************************************************)
(* The edits of admins and the steps of the indexer, and the invariant.    *)
(***************************************************************************)

\* The tables of an admin's edit: grants as they may be entered, and one name
\* for a suffix.
LEMMA EditKeepsTables ==
    ASSUME TablesOK, AdminEdit
    PROVE  TablesOK'
<1>1. edits' \in 0..MaxEdits
  BY AccessAssumption DEF AdminEdit, TablesOK
<1>2. CASE \E g \in Grant \cap Entered : AddGrant(g) \/ DeleteGrant(g)
  BY <1>1, <1>2 DEF AddGrant, DeleteGrant, TablesOK
<1>3. CASE \E ir \in Rule \cap Entered : AddRule(ir)
  <2>1. PICK ir \in Rule : AddRule(ir)
    BY <1>3
  <2>2. /\ DOMAIN rules' = DOMAIN rules \cup {ir.suffix} /\ grants' = grants
        /\ \A s \in DOMAIN rules' : rules'[s] = IF s = ir.suffix THEN ir.name ELSE rules[s]
    BY <2>1 DEF AddRule
  <2>3. IsFiniteSet(DOMAIN rules')
    BY <2>2, FS_AddElement DEF TablesOK
  <2>4. ir.suffix \in Suffix /\ ir.name \in Name
    BY DEF Rule
  <2>5. QED
    BY <1>1, <2>2, <2>3, <2>4 DEF TablesOK
<1>4. CASE \E s \in Suffix : DeleteRule(s)
  <2>1. PICK s \in Suffix : DeleteRule(s)
    BY <1>4
  <2>2. /\ DOMAIN rules' = DOMAIN rules \ {s} /\ grants' = grants
        /\ \A t \in DOMAIN rules' : rules'[t] = rules[t]
    BY <2>1 DEF DeleteRule
  <2>3. IsFiniteSet(DOMAIN rules')
    BY <2>2, FS_RemoveElement DEF TablesOK
  <2>4. QED
    BY <1>1, <2>2, <2>3 DEF TablesOK
<1>5. QED
  BY <1>2, <1>3, <1>4 DEF AdminEdit

\* A step that moves no request.
LEMMA OthersKeep ==
    ASSUME IdTypeOK, AInv, [Next]_vars, Watch, request' = request
    PROVE  RequestsOK' /\ ClaimsInv'
<1>1. RequestsOK'
  BY DEF AInv, RequestsOK, Restricted
<1>2. renames' = 0 => renames = 0
  BY RenamesCount
<1>3. ClaimsInv'
  BY <1>2, RequestStays DEF AInv, ClaimsInv
<1>4. QED
  BY <1>1, <1>3

\* Nothing is claimed in the beginning.
LEMMA InitClaims == Init => AInv
<1> SUFFICES ASSUME Init PROVE AInv
    OBVIOUS
<1>1. DOMAIN rules = {}
  BY DEF Init
<1>2. TablesOK
  BY <1>1, FS_EmptySet, AccessAssumption DEF Init, TablesOK
<1>3. \A r \in Request : request[r] = Idle /\ ~Restricted(r)
  BY DEF Init, Restricted
<1>4. RequestsOK
  BY <1>3 DEF Init, RequestsOK, Idle
<1>5. SeenInv /\ ClaimsInv
  BY <1>3 DEF SeenInv, ClaimsInv
<1>6. QED
  BY <1>2, <1>4, <1>5 DEF AInv

\* Every step keeps the invariant, given those of the identity tables.
LEMMA StepClaims ==
    ASSUME IInv, FInv, AInv, [Next]_vars
    PROVE  AInv'
<1>1. SeenInv'
  BY SeenKeeps DEF AInv
<1>2. CASE UNCHANGED vars
  <2>1. TablesOK' /\ RequestsOK'
    BY <1>2 DEF vars, accessVars, AInv, TablesOK, RequestsOK, Restricted
  <2>2. ClaimsInv'
    BY <1>2 DEF vars, accessVars, idVars, AInv, ClaimsInv, Restricted, Within, Standing
  <2>3. QED
    BY <1>1, <2>1, <2>2 DEF AInv
<1>3. CASE AdminEdit /\ UNCHANGED idVars /\ Watch
  <2>1. TablesOK'
    BY <1>3, EditKeepsTables DEF AInv
  <2>2. RequestsOK' /\ ClaimsInv'
    BY <1>3, OthersKeep DEF AdminEdit, IInv
  <2>3. QED
    BY <1>1, <2>1, <2>2 DEF AInv
<1>4. CASE IdNext /\ UNCHANGED <<grants, rules, request, edits>> /\ Watch
  <2>1. TablesOK'
    BY <1>4 DEF AInv, TablesOK
  <2>2. RequestsOK' /\ ClaimsInv'
    BY <1>4, OthersKeep DEF IInv
  <2>3. QED
    BY <1>1, <2>1, <2>2 DEF AInv
<1>5. ASSUME NEW r \in Request, ApiStep(r), UNCHANGED idVars, Watch
      PROVE  AInv'
  <2>1. TablesOK'
    BY <1>5 DEF ApiStep, Arrive, LoadRules, LoadGrants, LookupError, Read, Leave, AInv, TablesOK
  <2>2. RequestsOK' /\ ClaimsInv'
    BY <1>5, ArriveKeeps, LoadRulesKeeps, LoadGrantsKeeps, ProgressKeeps, LeaveKeeps DEF ApiStep
  <2>3. QED
    BY <1>1, <2>1, <2>2 DEF AInv
<1>6. QED
  BY <1>2, <1>3, <1>4, <1>5 DEF Next

\* The inductive invariant of access: what a request has seen bounds what it is
\* given from above, and what has held throughout bounds it from below.
THEOREM AccessInductive == Spec => []AInv
<1>1. Init => AInv
  BY InitClaims
<1>2. IInv /\ FInv /\ AInv /\ [Next]_vars => AInv'
  BY StepClaims
<1>3. Spec => [](IInv /\ FInv)
  BY IdentitiesAsSpecified, Inductive, InductiveFresh, PTL
<1>4. QED
  BY <1>1, <1>2, <1>3, PTL DEF Spec

\* Every variable of the composition keeps its type.
THEOREM AccessTypeCorrect == Spec => []TypeOK
<1>1. IInv /\ AInv => TypeOK
  BY DEF IInv, AInv, TablesOK, RequestsOK, Req, TypeOK
<1>2. QED
  BY <1>1, IdentitiesAsSpecified, Inductive, AccessInductive, PTL

\* A restricted user is served only what a grant covers that stood during the
\* request, for a name the identity had during it.
THEOREM ServedByGrants == Spec => []ServedWithinGrants
<1>1. ASSUME AInv PROVE ServedWithinGrants
  <2> SUFFICES ASSUME NEW r \in Request, Restricted(r), request[r].pc = "served"
               PROVE  \E g \in seenGrants[r], n \in seenNames[r] :
                        /\ g.type = "idp" => g.group \in request[r].groups \cup {Everyone}
                        /\ g.type = "unix" => g.group \in seenUnix[r]
                        /\ g.path = UserHome => n \notin Unsafe
                        /\ request[r].path \in
                             Inside[IF g.path = UserHome THEN Home[n] ELSE g.path]
    BY DEF ServedWithinGrants
  <2>1. Within(r)
    BY <1>1 DEF AInv, ClaimsInv
  <2>2. PICK pre \in request[r].prefixes : request[r].path \in Inside[pre]
    BY <2>1 DEF Within, allows, Restricted
  <2>3. Granted(pre, request[r].groups, seenGrants[r], seenNames[r], seenUnix[r])
    BY <2>1 DEF Within
  <2>4. QED
    BY <2>2, <2>3 DEF Granted
<1>2. QED
  BY <1>1, AccessInductive, PTL

\* A grant that held throughout a request serves it: the request has its name
\* by the rules, the query finds the grant, and its prefix is among those
\* compared.
THEOREM StandingGrantsServe == Spec => []StandingGrantServes
<1>1. ASSUME AInv PROVE StandingGrantServes
  <2> SUFFICES ASSUME renames = 0, NEW r \in Request, Restricted(r), request[r].pc = "refused",
                      NEW w \in kept[r]
               PROVE  ~Covers(w, request[r].path)
    BY DEF StandingGrantServes
  <2>1. Standing(r)
    BY <1>1 DEF AInv, ClaimsInv
  <2>2. Expand(w[1], w[2]) \subseteq request[r].prefixes /\ ~allows(request[r], request[r].path)
    BY <2>1 DEF Standing
  <2>3. QED
    BY <2>2 DEF allows, Covers
<1>2. QED
  BY <1>1, AccessInductive, PTL
=============================================================================
