---------------------------- MODULE GrantScope -----------------------------
(***************************************************************************)
(* What a restricted user's grants let through, as strings.  Listings and  *)
(* details test the requested path in Go (access.allows); searches are     *)
(* limited in SQL, by a LIKE pattern made of the same prefix               *)
(* (scopeClause).  Who holds which grants, and when, is in Access.         *)
(***************************************************************************)
EXTENDS Paths, FiniteSets

CONSTANTS
    RawPrefix,        \* what an admin may enter for path_prefix
    UnixName,         \* what mapIdentity may make of an identity
    Indexed,          \* paths of entries in the index: lists of components
    Request,          \* what a client may ask for
    MaxGrants         \* bound: grants the user holds

\* The placeholder {user} is one character here.
User == "U"
Backslash == "\\"

ASSUME GrantAssumption ==
    /\ RawPrefix \cup UnixName \cup Request \subseteq Seq(STRING)
    /\ \A raw \in RawPrefix : IsAbsolute(raw)
    /\ \A text \in RawPrefix \cup UnixName : ~ Contains(text, Invalid)
    /\ Indexed \subseteq Seq(EntryName)
    /\ MaxGrants \in Nat

VARIABLES
    grants,           \* the path prefixes of the grants that match the user
    name              \* the user's mapped name

grantVars == <<grants, name>>

\* Mutation: an empty name is let through.
grantUserEmpty(n) == n \notin {Dot, Dots} /\ ~ Contains(n, Slash)

\* Whether a name may stand for {user}.
grantUser(n) == n \notin {<<>>, Dot, Dots} /\ ~ Contains(n, Slash)

\* strings.ReplaceAll(prefix, "{user}", name)
Substituted(prefix, n) ==
    FlattenSeq([i \in DOMAIN prefix |-> IF prefix[i] = User THEN n ELSE <<prefix[i]>>])

\* access.Prefixes, made by matchingGrants: a {user} grant is skipped for a name that
\* may not stand there.
Opened == {Substituted(g, name) : g \in {h \in grants : Contains(h, User) => grantUser(name)}}

\* Mutation: the path is not compared with its canonical form.
allows_uncleaned(p) ==
    IsAbsolute(p) /\ \E pre \in Opened : pre = Root \/ p = pre \/ IsPrefix(pre \o Root, p)

allows(p) ==
    /\ IsAbsolute(p) /\ Clean(p) = p
    /\ \E pre \in Opened : pre = Root \/ p = pre \/ IsPrefix(pre \o Root, p)

\* Mutation: "_" is left alone.
escapeLike_percent(s) ==
    FlattenSeq([i \in DOMAIN s |-> IF s[i] \in {"%", Backslash} THEN <<Backslash, s[i]>> ELSE <<s[i]>>])

escapeLike(s) ==
    FlattenSeq([i \in DOMAIN s |->
                   IF s[i] \in {Backslash, "%", "_"} THEN <<Backslash, s[i]>> ELSE <<s[i]>>])

\* One step of PostgreSQL's LIKE: whether what is left of the text from i matches
\* what is left of the pattern from j, by match of what is left after it.
Cell(match, text, pattern, i, j) ==
    LET N == Len(text)
        M == Len(pattern)
    IN  IF j > M THEN i > N
        ELSE \/ pattern[j] = "%" /\ (match[<<i, j + 1>>] \/ (i <= N /\ match[<<i + 1, j>>]))
             \/ pattern[j] = "_" /\ i <= N /\ match[<<i + 1, j + 1>>]
             \/ /\ pattern[j] = Backslash
                /\ i <= N /\ j < M /\ text[i] = pattern[j + 1] /\ match[<<i + 1, j + 2>>]
             \/ /\ pattern[j] \notin {"%", "_", Backslash}
                /\ i <= N /\ text[i] = pattern[j] /\ match[<<i + 1, j + 1>>]

Like(text, pattern) ==
    LET match[c \in (1..Len(text) + 1) \X (1..Len(pattern) + 1)] ==
            Cell(match, text, pattern, c[1], c[2])
    IN  match[<<1, 1>>]

\* The rows a search may return, by the path as it was rendered for display.
scopeClause(row) ==
    \E pre \in Opened :
        pre = Root \/ row.path = pre \/ Like(row.path, escapeLike(pre) \o <<Slash, "%">>)

\* underPrefix of Header.tsx.
underPrefix(path, prefix) ==
    path = prefix \/ IsPrefix(IF Last(prefix) = Slash THEN prefix ELSE prefix \o Root, path)

\* The breadcrumbs of a directory, made from its path, and those of them that
\* are not inert for a restricted user.
Crumbs(path) == LET segments == Without(Split(path), {<<>>})
                IN  {Join(SubSeq(segments, 1, n)) : n \in 0..Len(segments)}
crumbActive(crumb) == \E pre \in Opened : underPrefix(crumb, pre)

GrantInit == grants = {} /\ name \in UnixName

\* Mutation: the prefix is stored as it was entered.
AddGrantAsWritten ==
    /\ \E raw \in RawPrefix : grants' = grants \cup {raw}
    /\ Cardinality(grants') <= MaxGrants /\ UNCHANGED name

\* AdminGrants stores the canonical form.
AddGrant ==
    /\ \E raw \in RawPrefix : grants' = grants \cup {Clean(raw)}
    /\ Cardinality(grants') <= MaxGrants /\ UNCHANGED name

DeleteGrant == /\ \E g \in grants : grants' = grants \ {g}
               /\ UNCHANGED name

\* Another identity, or other identity rules.
SignIn == name' \in UnixName /\ UNCHANGED grants

GrantNext == AddGrant \/ DeleteGrant \/ SignIn
GrantSpec == GrantInit /\ [][GrantNext]_grantVars

-----------------------------------------------------------------------------
\* The reference: the subtrees the grants name, component by component.
Granted(names) == \E pre \in Opened : Below(names, Components(pre))

Legible(names) == ~ Contains(Join(names), Invalid)

\* What a request is let through to is inside a granted subtree, however the
\* request spells it; and every indexed entry there can be asked for under the
\* string it is stored by.  (Here and below: without grants nothing is opened.)
ListedWithinGrants ==
    grants # {} =>
        /\ \A p \in Request : allows(p) => Granted(Components(p))
        /\ \A names \in Indexed : Granted(names) => allows(Join(names))

\* What a search finds and what the breadcrumbs offer is what a listing would
\* show: no row outside the grants, none inside them missed, not even one whose
\* name is not UTF-8; and no crumb that answers 403, none left inert that would
\* open.
ViewsAgree ==
    grants # {} =>
        \A names \in Indexed :
            /\ allows(Join(names)) => scopeClause(RowOf(Join(names)))
            /\ Legible(names) => (scopeClause(RowOf(Join(names))) => allows(Join(names)))
            /\ \A crumb \in Crumbs(Join(names)) : crumbActive(crumb) <=> allows(crumb)

\* Where {user} is a directory of its own, the grant opens the directory of
\* that very name: nothing above it, nothing beside it, and nothing below the
\* directory of another user.
UserOpensOwnDirectory ==
    \A g \in grants : \A i \in DOMAIN Components(g) :
        grants = {g} /\ Components(g)[i] = <<User>> =>
            \A names \in Indexed :
                allows(Join(names)) => Len(names) >= i /\ names[i] = name
=============================================================================
