----------------------------- MODULE Identities ----------------------------
(***************************************************************************)
(* The tables identity_map and identity_membership: who owns what on the   *)
(* indexed host, and who is in which group.  fs_indexer rewrites them at   *)
(* the end of a run (resolve_identities) from the host's name service,     *)
(* while the accounts and groups of the host change and fs_api reads.      *)
(***************************************************************************)
EXTENDS Naturals, FiniteSets

CONSTANTS
    Uid, Gid,
    Name, GroupName,
    None,             \* no such account, group or row
    MaxChanges,       \* bound: memberships changed on the host
    MaxRenames,       \* bound: accounts and groups given another name
    MaxFaults         \* bound: lookups that fail, runs that end in an error

ASSUME IdentityAssumption ==
    /\ None \notin Name \cup GroupName
    /\ MaxChanges \in Nat /\ MaxRenames \in Nat /\ MaxFaults \in Nat

VARIABLES
    \* The host.
    account,          \* [Uid -> Name or None]
    group,            \* [Gid -> GroupName]
    memberOf,         \* its groups, pairs of an uid and a gid
    \* The database, as committed.
    owners,           \* the uids and gids that own an indexed file
    uidName, gidName, \* identity_map
    membership,       \* identity_membership
    \* fs_indexer in resolve_identities.
    pc, todo,
    tx,               \* the tables as its transaction sees them
    \* History and bounds.
    standing,         \* memberships the host has had since the run began
    sure,             \* those that have stood since a run that committed
    fresh,            \* nothing has changed since the last run that committed began
    steady,           \* nothing has changed since this run began
    changes, renames, faults

hostVars  == <<account, group, memberOf>>
tableVars == <<uidName, gidName, membership>>
boundVars == <<changes, renames, faults>>
idVars == <<account, group, memberOf, owners, uidName, gidName, membership, pc, todo, tx,
            standing, sure, fresh, steady, changes, renames, faults>>

Pair == Uid \X Gid

IdTypeOK ==
    /\ account \in [Uid -> Name \cup {None}] /\ group \in [Gid -> GroupName]
    /\ owners \in [uids : SUBSET Uid, gids : SUBSET Gid]
    /\ uidName \in [Uid -> Name \cup {None}] /\ gidName \in [Gid -> GroupName \cup {None}]
    /\ memberOf \subseteq Pair /\ membership \subseteq Pair
    /\ standing \subseteq Pair /\ sure \subseteq Pair
    /\ pc \in {"idle", "membership", "groups"}
    /\ todo \subseteq Uid \cup Gid
    /\ tx \in [uidName : [Uid -> Name \cup {None}], gidName : [Gid -> GroupName \cup {None}],
               membership : SUBSET Pair]
    /\ fresh \in BOOLEAN /\ steady \in BOOLEAN
    /\ changes \in 0..MaxChanges /\ renames \in 0..MaxRenames /\ faults \in 0..MaxFaults

GroupsOf(u) == {g \in Gid : <<u, g>> \in memberOf}
NamesDiffer(f) == \A a, b \in DOMAIN f : f[a] = f[b] /\ f[a] # None => a = b

\* No transaction is open.
Closed == [uidName |-> [u \in Uid |-> None], gidName |-> [g \in Gid |-> None], membership |-> {}]

IdInit ==
    /\ account \in {f \in [Uid -> Name] : NamesDiffer(f)}
    /\ group \in {f \in [Gid -> GroupName] : NamesDiffer(f)}
    /\ memberOf \in SUBSET Pair
    /\ owners = [uids |-> {}, gids |-> {}]
    /\ uidName = [u \in Uid |-> None] /\ gidName = [g \in Gid |-> None] /\ membership = {}
    /\ pc = "idle" /\ todo = {}
    /\ tx = Closed
    /\ standing = {} /\ sure = {} /\ fresh = FALSE /\ steady = FALSE
    /\ changes = 0 /\ renames = 0 /\ faults = 0

\* Someone joins or leaves a group.
MembershipChanges ==
    /\ changes < MaxChanges /\ changes' = changes + 1
    /\ \E p \in Pair :
         /\ memberOf' = IF p \in memberOf THEN memberOf \ {p} ELSE memberOf \cup {p}
         /\ standing' = standing \ {p} /\ sure' = sure \ {p}
    /\ fresh' = FALSE /\ steady' = FALSE
    /\ UNCHANGED <<account, group, owners, tableVars, pc, todo, tx, renames, faults>>

\* An account is renamed, removed, or its uid given to someone else; a group is
\* renamed.
Rename ==
    /\ renames < MaxRenames /\ renames' = renames + 1
    /\ \/ \E u \in Uid, n \in Name \cup {None} :
            /\ account' = [account EXCEPT ![u] = n] /\ NamesDiffer(account')
            /\ standing' = {p \in standing : p[1] # u} /\ sure' = {p \in sure : p[1] # u}
            /\ UNCHANGED group
       \/ \E g \in Gid, n \in GroupName :
            /\ group' = [group EXCEPT ![g] = n] /\ NamesDiffer(group')
            /\ standing' = {p \in standing : p[2] # g} /\ sure' = {p \in sure : p[2] # g}
            /\ UNCHANGED account
    /\ fresh' = FALSE /\ steady' = FALSE
    /\ UNCHANGED <<memberOf, owners, tableVars, pc, todo, tx, changes, faults>>

\* Mutation: the rows are deleted outside the transaction.
BeginDeleted ==
    /\ pc = "idle" /\ pc' = "membership"
    /\ owners' \in [uids : SUBSET Uid, gids : SUBSET Gid]
    /\ todo' = owners'.uids
    /\ membership' = {}
    /\ tx' = [uidName |-> uidName, gidName |-> gidName, membership |-> {}]
    /\ standing' = {p \in memberOf : p[1] \in owners'.uids /\ account[p[1]] # None}
    /\ sure' = {p \in sure : p[1] \in owners'.uids}
    /\ steady' = TRUE /\ fresh' = (fresh /\ owners' = owners)
    /\ UNCHANGED <<hostVars, uidName, gidName, boundVars>>

\* Mutation: the rows of an earlier run are kept.
BeginKept ==
    /\ pc = "idle" /\ pc' = "membership"
    /\ owners' \in [uids : SUBSET Uid, gids : SUBSET Gid]
    /\ todo' = owners'.uids
    /\ tx' = [uidName |-> uidName, gidName |-> gidName, membership |-> membership]
    /\ standing' = {p \in memberOf : p[1] \in owners'.uids /\ account[p[1]] # None}
    /\ sure' = {p \in sure : p[1] \in owners'.uids}
    /\ steady' = TRUE /\ fresh' = (fresh /\ owners' = owners)
    /\ UNCHANGED <<hostVars, tableVars, boundVars>>

\* The scan of a run has stored its files and not yet deleted those that are
\* gone: owners is any set.  SELECT DISTINCT uid, then a transaction that
\* deletes every membership.
Begin ==
    /\ pc = "idle" /\ pc' = "membership"
    /\ owners' \in [uids : SUBSET Uid, gids : SUBSET Gid]
    /\ todo' = owners'.uids
    /\ tx' = [uidName |-> uidName, gidName |-> gidName, membership |-> {}]
    /\ standing' = {p \in memberOf : p[1] \in owners'.uids /\ account[p[1]] # None}
    /\ sure' = {p \in sure : p[1] \in owners'.uids}
    /\ steady' = TRUE /\ fresh' = (fresh /\ owners' = owners)
    /\ UNCHANGED <<hostVars, tableVars, boundVars>>

\* INSERT ... ON CONFLICT DO NOTHING: a name, once stored, stays.
Named(names, id, n) == IF names[id] = None THEN [names EXCEPT ![id] = n] ELSE names

GroupsNamed(names, gs) ==
    [g \in Gid |-> IF g \in gs THEN Named(names, g, group[g])[g] ELSE names[g]]

\* One uid: its account, then the groups of the account.
ResolveUid(u) ==
    /\ pc = "membership" /\ u \in todo /\ todo' = todo \ {u}
    /\ tx' = IF account[u] = None THEN tx
             ELSE [uidName    |-> Named(tx.uidName, u, account[u]),
                   gidName    |-> GroupsNamed(tx.gidName, GroupsOf(u)),
                   membership |-> tx.membership \cup {<<u, g>> : g \in GroupsOf(u)}]
    /\ UNCHANGED <<hostVars, owners, tableVars, pc, standing, sure, fresh, steady, boundVars>>

\* The name service does not answer: for the account, which is then skipped,
\* or for its groups, which are then taken to be none (unwrap_or_default).
LookupFails(u) ==
    /\ pc = "membership" /\ u \in todo /\ todo' = todo \ {u}
    /\ faults < MaxFaults /\ faults' = faults + 1
    /\ \/ tx' = tx
       \/ /\ account[u] # None
          /\ tx' = [tx EXCEPT !.uidName = Named(tx.uidName, u, account[u])]
    /\ standing' = {p \in standing : p[1] # u} /\ sure' = {p \in sure : p[1] # u}
    /\ steady' = FALSE /\ fresh' = FALSE
    /\ UNCHANGED <<hostVars, owners, tableVars, pc, changes, renames>>

Commit ==
    /\ pc = "membership" /\ todo = {}
    /\ uidName' = tx.uidName /\ gidName' = tx.gidName /\ membership' = tx.membership
    /\ pc' = "groups" /\ todo' = owners.gids
    /\ tx' = Closed /\ standing' = {}
    /\ sure' = standing /\ fresh' = steady
    /\ UNCHANGED <<hostVars, owners, steady, boundVars>>

\* The gids that own files, each in a statement of its own.
ResolveGid(g) ==
    /\ pc = "groups" /\ g \in todo /\ todo' = todo \ {g}
    /\ gidName' = Named(gidName, g, group[g])
    /\ UNCHANGED <<hostVars, owners, uidName, membership, pc, tx, standing, sure, fresh,
                   steady, boundVars>>

Finish ==
    /\ pc = "groups" /\ todo = {} /\ pc' = "idle"
    /\ UNCHANGED <<hostVars, owners, tableVars, todo, tx, standing, sure, fresh, steady, boundVars>>

\* A statement fails or the process ends: an open transaction is rolled back.
RunFails ==
    /\ pc # "idle" /\ pc' = "idle" /\ todo' = {} /\ tx' = Closed /\ standing' = {}
    /\ faults < MaxFaults /\ faults' = faults + 1
    /\ UNCHANGED <<hostVars, owners, tableVars, sure, fresh, steady, changes, renames>>

Indexer ==
    \/ Begin \/ Commit \/ Finish \/ RunFails
    \/ \E u \in Uid : ResolveUid(u) \/ LookupFails(u)
    \/ \E g \in Gid : ResolveGid(g)

IdNext == Indexer \/ MembershipChanges \/ Rename

IdSpec == IdInit /\ [][IdNext]_idVars

\* The Unix groups fs_api finds for a Unix name: the subquery of matchingGrants.
UnixGroups(n) ==
    {gidName[p[2]] : p \in {q \in membership : uidName[q[1]] = n}} \ {None}

----------------------------------------------------------------------------
(***************************************************************************)
(* Properties.                                                             *)
(***************************************************************************)

\* The tables are never seen half-empty: a membership that has stood on the
\* host since a run that stored it began, of an account that owns files and
\* whose lookups were answered, is there whatever runs have done since: begun,
\* failed half-way, or been killed.
NeverHalfEmpty == sure \subseteq membership

\* Unix-group grants are matched by name, so every membership fs_api sees is
\* of an account and a group with names, also when the group owns no file.
MembersAreNamed ==
    \A p \in membership : uidName[p[1]] # None /\ gidName[p[2]] # None

\* After a run during and since which nothing changed on the host, a user who
\* owns files has in fs_api exactly the Unix groups the host gives the account
\* of that name: those left are gone, those joined are there.  Not so once an
\* account or a group has had another name: a name is stored once and never
\* updated, so fs_api goes on matching the old one.
RefreshedByRun ==
    fresh /\ renames = 0 =>
        \A u \in owners.uids :
            account[u] # None => UnixGroups(account[u]) = {group[g] : g \in GroupsOf(u)}
=============================================================================
