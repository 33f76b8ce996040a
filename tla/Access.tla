------------------------------- MODULE Access ------------------------------
(***************************************************************************)
(* What a signed-in user may see: fs_api resolves it anew for every        *)
(* request from the groups of the session, the identity rules, the grants  *)
(* and the identity tables, in two statements of their own, while admins   *)
(* edit the rules and the grants and fs_indexer rewrites the tables        *)
(* (module Identities).                                                    *)
(*                                                                         *)
(* One restricted identity: a rule is a suffix of it and the Unix name     *)
(* that rewriting the suffix makes of it.  Paths are compared as wholes;   *)
(* what is inside what is the constant Inside.                             *)
(***************************************************************************)
EXTENDS Identities, FiniteSetsExt

CONSTANTS
    Request,          \* goroutines of fs_api
    IdpGroup,         \* what the groups claim may hold
    AdminGroup, ViewerGroup,       \* auth.oidc.admin_groups, .viewer_groups
    Everyone,         \* "*"
    Suffix,           \* lengths of the suffixes of the identity rules may name
    DefaultName,      \* the identity without its @domain
    Path, Home,       \* [Name -> Path]: /home/{user} with the name filled in
    Inside,           \* [Path -> SUBSET Path]
    UserHome,         \* /home/{user} itself
    Entered,          \* the grants and rules admins enter
    Unsafe,           \* names that cannot be one segment of a path: grantUser
    MaxEdits          \* bound: edits by admins

ASSUME AccessAssumption ==
    /\ AdminGroup \subseteq IdpGroup /\ ViewerGroup \subseteq IdpGroup
    /\ Everyone \notin IdpGroup \cup GroupName
    /\ Suffix \subseteq Nat /\ DefaultName \in Name /\ Unsafe \subseteq Name
    /\ Home \in [Name -> Path] /\ Inside \in [Path -> SUBSET Path]
    /\ UserHome \notin Path /\ None \notin Path
    /\ MaxEdits \in Nat

VARIABLES
    grants, rules,    \* access_grants; identity_rules: suffix -> Unix name
    request,          \* what each goroutine holds
    \* History and bounds.  Of every request since it arrived:
    seenGrants,       \* the grants that stood at some moment
    seenNames,        \* the Unix names the identity mapped to
    seenUnix,         \* the Unix groups that were stored for those names
    kept,             \* the pairs of a grant and a name that held throughout
    edits

accessVars == <<grants, rules, request, seenGrants, seenNames, seenUnix, kept, edits>>
vars == <<idVars, accessVars>>

Grant ==
    [type : {"idp"}, group : IdpGroup \cup {Everyone}, path : Path \cup {UserHome}]
    \cup [type : {"unix"}, group : GroupName \cup {Everyone}, path : Path \cup {UserHome}]

Rule == [suffix : Suffix, name : Name]
Idle == [pc |-> "idle"]

TypeOK ==
    /\ IdTypeOK
    /\ grants \subseteq Grant
    /\ DOMAIN rules \subseteq Suffix /\ \A s \in DOMAIN rules : rules[s] \in Name
    /\ \A r \in Request :
         LET q == request[r] IN
         q # Idle => /\ q.pc \in {"rules", "grants", "handler", "served", "refused", "failed"}
                     /\ q.groups \subseteq IdpGroup /\ q.name \in Name \cup {None}
                     /\ q.prefixes \subseteq Path /\ q.path \in Path
    /\ edits \in 0..MaxEdits

Init ==
    /\ IdInit
    /\ grants = {} /\ rules = <<>>
    /\ request = [r \in Request |-> Idle]
    /\ seenGrants = [r \in Request |-> {}] /\ seenNames = [r \in Request |-> {}]
    /\ seenUnix = [r \in Request |-> {}] /\ kept = [r \in Request |-> {}]
    /\ edits = 0

----------------------------------------------------------------------------

\* The longest matching suffix wins; without one the domain is dropped.
mapIdentity(rs) == IF DOMAIN rs = {} THEN DefaultName ELSE rs[Max(DOMAIN rs)]

roleFor(groups) ==
    IF groups \cap AdminGroup # {} THEN "admin"
    ELSE IF groups \cap ViewerGroup # {} THEN "viewer" ELSE "restricted"

\* Mutation: the type of a grant is not looked at.
AnyTypeMatches(g, groups, name) == g.group \in groups \cup {Everyone} \cup UnixGroups(name)

\* The WHERE clause of matchingGrants.
Matches(g, groups, name) ==
    \/ g.type = "idp"  /\ g.group \in groups \cup {Everyone}
    \/ g.type = "unix" /\ g.group \in UnixGroups(name)

\* Mutation: a name is filled in whatever it is.
ExpandAny(g, name) == IF g.path = UserHome THEN {Home[name]} ELSE {g.path}

\* {user} filled in; no path at all if the name is not safe to fill in.
Expand(g, name) ==
    IF g.path # UserHome THEN {g.path}
    ELSE IF name \in Unsafe THEN {} ELSE {Home[name]}

allows(q, p) == q.role # "restricted" \/ \E pre \in q.prefixes : p \in Inside[pre]

\* What the documentation promises a request, told without the tables of the
\* indexer: the pairs of a grant and a Unix name that hold at this moment.
Ways(gs, rs, groups, members, accounts, names) ==
    {<<g, mapIdentity(rs)>> : g \in {h \in gs :
        \/ h.type = "idp"  /\ h.group \in groups \cup {Everyone}
        \/ h.type = "unix" /\ \E m \in members : accounts[m[1]] = mapIdentity(rs)
                                                /\ names[m[2]] = h.group}}

Covers(w, p) == \E pre \in Expand(w[1], w[2]) : p \in Inside[pre]

\* History: every step updates it for the requests under way.
Watch ==
    /\ seenGrants' = [r \in Request |-> IF request'[r] = Idle THEN {} ELSE seenGrants[r] \cup grants']
    /\ seenNames'  = [r \in Request |-> IF request'[r] = Idle THEN {}
                                        ELSE seenNames[r] \cup {mapIdentity(rules')}]
    /\ seenUnix' = [r \in Request |-> IF request'[r] = Idle THEN {} ELSE seenUnix[r] \cup UNION {UnixGroups(n)' : n \in seenNames'[r]}]
    /\ kept' = [r \in Request |->
                  IF request'[r] = Idle THEN {}
                  ELSE LET now == Ways(grants', rules', request'[r].groups, sure', account', group')
                       IN IF request[r] = Idle THEN now ELSE kept[r] \cap now]

----------------------------------------------------------------------------

\* loadSession has found the session; resolveAccess takes its groups.  Admins
\* and viewers need no lookup.
Arrive(r) ==
    /\ request[r] = Idle
    /\ \E p \in Path, groups \in SUBSET IdpGroup :
         request' = [request EXCEPT ![r] =
             [pc |-> IF roleFor(groups) = "restricted" THEN "rules" ELSE "handler",
              path |-> p, groups |-> groups, role |-> roleFor(groups),
              name |-> None, prefixes |-> {}]]
    /\ UNCHANGED <<grants, rules, edits>>

\* Mutation: {user} is the identity itself, without the rules.
LoadNoRules(r) ==
    /\ request[r].pc = "rules"
    /\ request' = [request EXCEPT ![r].pc = "grants", ![r].name = DefaultName]
    /\ UNCHANGED <<grants, rules, edits>>

\* loadIdentityRules, and mapIdentity.
LoadRules(r) ==
    /\ request[r].pc = "rules"
    /\ request' = [request EXCEPT ![r].pc = "grants", ![r].name = mapIdentity(rules)]
    /\ UNCHANGED <<grants, rules, edits>>

\* matchingGrants, one statement, and the prefixes of what it returns.
LoadGrants(r) ==
    /\ request[r].pc = "grants"
    /\ LET q == request[r]
           matching == {g \in grants : Matches(g, q.groups, q.name)}
       IN request' = [request EXCEPT ![r].pc = "handler",
                        ![r].prefixes = UNION {Expand(g, q.name) : g \in matching}]
    /\ UNCHANGED <<grants, rules, edits>>

\* A statement of resolveAccess fails: 500.
LookupError(r) ==
    /\ request[r].pc \in {"rules", "grants"}
    /\ request' = [request EXCEPT ![r].pc = "failed"]
    /\ UNCHANGED <<grants, rules, edits>>

\* A handler that reads a path: inside the prefixes, or 403.
Read(r) ==
    /\ request[r].pc = "handler"
    /\ request' = [request EXCEPT ![r].pc =
                     IF allows(request[r], request[r].path) THEN "served" ELSE "refused"]
    /\ UNCHANGED <<grants, rules, edits>>

Leave(r) ==
    /\ request[r].pc \in {"served", "refused", "failed"}
    /\ request' = [request EXCEPT ![r] = Idle]
    /\ UNCHANGED <<grants, rules, edits>>

ApiStep(r) ==
    Arrive(r) \/ LoadRules(r) \/ LoadGrants(r) \/ LookupError(r) \/ Read(r) \/ Leave(r)

----------------------------------------------------------------------------
(***************************************************************************)
(* The edits of an admin: a request whose role needs no lookup, and that   *)
(* changes the tables in one statement.                                    *)
(***************************************************************************)

\* AdminGrants, POST: "*" is refused for Unix groups, and what is there
\* already by the unique key.
AddGrant(g) ==
    /\ g \notin grants
    /\ ~(g.type = "unix" /\ g.group = Everyone)
    /\ grants' = grants \cup {g}
    /\ UNCHANGED rules

\* AdminGrants, DELETE.
DeleteGrant(g) ==
    /\ g \in grants
    /\ grants' = grants \ {g}
    /\ UNCHANGED rules

\* AdminIdentityRules, POST: one rule for a suffix.
AddRule(ir) ==
    /\ ir.suffix \notin DOMAIN rules
    /\ rules' = [s \in DOMAIN rules \cup {ir.suffix} |->
                   IF s = ir.suffix THEN ir.name ELSE rules[s]]
    /\ UNCHANGED grants

\* AdminIdentityRules, DELETE.
DeleteRule(s) ==
    /\ s \in DOMAIN rules
    /\ rules' = [t \in DOMAIN rules \ {s} |-> rules[t]]
    /\ UNCHANGED grants

AdminEdit ==
    /\ edits < MaxEdits /\ edits' = edits + 1
    /\ \/ \E g \in Grant \cap Entered : AddGrant(g) \/ DeleteGrant(g)
       \/ \E ir \in Rule \cap Entered : AddRule(ir)
       \/ \E s \in Suffix : DeleteRule(s)
    /\ UNCHANGED request

Next ==
    \/ (AdminEdit \/ \E r \in Request : ApiStep(r)) /\ UNCHANGED idVars /\ Watch
    \/ IdNext /\ UNCHANGED <<grants, rules, request, edits>> /\ Watch

Spec == Init /\ [][Next]_vars

----------------------------------------------------------------------------
(***************************************************************************)
(* Properties.                                                             *)
(***************************************************************************)
Restricted(r) == request[r] # Idle /\ request[r].role = "restricted"

\* "Grant changes apply on the user's next request": what a restricted user
\* is served, a grant covered that stood at some moment of this very request,
\* of a group that the request holds and for a name its identity then had,
\* and never a home directory of an unsafe name.
ServedWithinGrants ==
    \A r \in Request : Restricted(r) /\ request[r].pc = "served" =>
        \E g \in seenGrants[r], n \in seenNames[r] :
            /\ g.type = "idp" => g.group \in request[r].groups \cup {Everyone}
            /\ g.type = "unix" => g.group \in seenUnix[r]
            /\ g.path = UserHome => n \notin Unsafe
            /\ request[r].path \in Inside[IF g.path = UserHome THEN Home[n] ELSE g.path]

\* A grant that stood throughout a request serves it, whatever else admins
\* edited meanwhile and although fs_indexer was rewriting the identity tables:
\* a Unix-group grant holds for memberships stored by a run and unchanged since.
\* Not so once an account or a group has had another name (RefreshedByRun).
StandingGrantServes ==
    renames = 0 =>
        \A r \in Request : Restricted(r) /\ request[r].pc = "refused" =>
            \A w \in kept[r] : ~Covers(w, request[r].path)
=============================================================================
