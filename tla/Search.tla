------------------------------- MODULE Search ------------------------------
(***************************************************************************)
(* POST /api/search (SearchFiles, buildSearchWhere, attachDirAggregates):  *)
(* rules become one SQL condition, under SQL's logic of three values; the  *)
(* aggregates of the rows in the result are joined in the same statement,  *)
(* or looked up for its directories by a second one, while fs_aggregator   *)
(* publishes new ones.                                                     *)
(***************************************************************************)
EXTENDS Naturals, FiniteSets, SeqFilter

CONSTANTS
    Row,              \* rows of filesystem_index
    IsDir,            \* those of directories
    Owner,            \* names in identity_map
    Counts,           \* file counts fs_aggregator may publish (BIGINT)
    MaxInt32,         \* what sql.NullInt32 holds
    MaxLimit, DefaultLimit,
    PathMatch,        \* sets of rows a rule on the path may match
    Limits,           \* limits a client may ask for
    MaxRules,         \* bound: rules in a request
    MaxPublished      \* bound: times new stats are published

ASSUME SearchAssumption ==
    /\ IsFiniteSet(Row) /\ IsDir \subseteq Row /\ Counts \subseteq Nat /\ MaxInt32 \in Nat
    /\ MaxLimit \in Nat /\ DefaultLimit \in 1..MaxLimit
    /\ PathMatch \subseteq SUBSET Row /\ Limits \subseteq Nat

\* No such row of identity_map or dir_stats: NULL after the LEFT JOIN.
NULL == "NULL"

VARIABLES
    owner,            \* [Row -> the name of its owner, or NULL]
    stats,            \* [Row -> file_count in dir_stats, or {} for no row]
    scope,            \* the rows below a restricted user's prefixes
    pc,               \* "idle", "query", "attach", "answered"
    req,              \* the request's rules and limit, and whether it sorts by a dir_* column
    files,            \* the result: rows and their aggregates
    answer,           \* "200", "400" or "500"
    published,
    found,            \* history: the rows the statement found, in their order
    during,           \* history: the stats that stood from the statement to the answer
    failed            \* history: the lookup of the aggregates failed

searchVars == <<owner, stats, scope, pc, req, files, answer, published, found, during, failed>>
requestVars == <<found, during, failed>>

\* A rule on f.path, u.name or s.file_count: the rows or the value it matches.
Rule ==
    [field : {"path"}, match : PathMatch, negate : BOOLEAN, connector : {"AND", "OR"}]
    \cup [field : {"user"}, match : {{n} : n \in Owner}, negate : BOOLEAN, connector : {"AND", "OR"}]
    \cup [field : {"dir_file_count"}, match : {{c} : c \in Counts}, negate : BOOLEAN,
          connector : {"AND", "OR"}]
    \cup [field : {"unknown"}, match : {{}}, negate : {FALSE}, connector : {"AND"}]

-----------------------------------------------------------------------------
\* SQL: a condition is TRUE, FALSE or NULL; a row is returned when it is TRUE.
Cond(rule, row) ==
    CASE rule.field = "path" -> IF row \in rule.match THEN "T" ELSE "F"
      [] rule.field = "user" ->
             IF owner[row] = NULL THEN NULL ELSE IF owner[row] \in rule.match THEN "T" ELSE "F"
      [] rule.field = "dir_file_count" ->
             IF stats[row] = {} THEN NULL ELSE IF stats[row] = rule.match THEN "T" ELSE "F"

Not3(c) == CASE c = "T" -> "F" [] c = "F" -> "T" [] OTHER -> NULL
And3(c, d) == IF "F" \in {c, d} THEN "F" ELSE IF NULL \in {c, d} THEN NULL ELSE "T"
Or3(c, d) == IF "T" \in {c, d} THEN "T" ELSE IF NULL \in {c, d} THEN NULL ELSE "F"

\* Mutation: a bare NOT.
PredicateBareNot(rule, row) == IF rule.negate THEN Not3(Cond(rule, row)) ELSE Cond(rule, row)

\* One rule of buildSearchWhere: (NOT COALESCE(cond, FALSE)) when it is negated.
Predicate(rule, row) ==
    IF rule.negate THEN IF Cond(rule, row) = "T" THEN "F" ELSE "T" ELSE Cond(rule, row)

\* The flat clause, as PostgreSQL reads it: AND binds before OR.  The first
\* rule's connector is not written.
Clause(rules, row) ==
    LET Next(acc, rule) ==
            IF rule.connector = "OR"
            THEN [either |-> Or3(acc.either, acc.all), all |-> Predicate(rule, row)]
            ELSE [acc EXCEPT !.all = And3(@, Predicate(rule, row))]
        whole == FoldLeft(Next, [either |-> "F", all |-> Predicate(rules[1], row)], Tail(rules))
    IN  Or3(whole.either, whole.all)

\* Mutation: the clause is not parenthesised before the scope is added.
MatchesLoose(rules, row) ==
    Clause(rules \o <<[field |-> "path", match |-> scope, negate |-> FALSE, connector |-> "AND"]>>, row)
        = "T"

\* (clause) AND scope.
Matches(rules, row) == Clause(rules, row) = "T" /\ row \in scope

NeedsDirStats(r) == r.byDir \/ \E i \in DOMAIN r.rules : r.rules[i].field = "dir_file_count"
Limit(r) == IF r.limit = 0 \/ r.limit > MaxLimit THEN DefaultLimit ELSE r.limit

\* A file_count too large for NullInt32 fails the scan of the row, which is
\* logged and left out.
Scanned(row) == \A c \in stats[row] : c <= MaxInt32

\* What the joined statement answers, and the other one before aggregates are
\* attached, for the rows in the order the database returns them.  The join asks
\* for a row of dir_stats whatever the type of the file.
Joined(rows) ==
    LET kept == Without(rows, {row \in Row : ~ Scanned(row)})
    IN  [i \in DOMAIN kept |-> [row |-> kept[i], aggregates |-> stats[kept[i]]]]
Plain(rows) == [i \in DOMAIN rows |-> [row |-> rows[i], aggregates |-> {}]]

\* Mutation: the index into the directories' hashes is taken for the index
\* into the result.
AttachedByHash(fs) ==
    LET dirs == SelectSeq(fs, LAMBDA f : f.row \in IsDir)
    IN  [i \in DOMAIN fs |-> IF i <= Len(dirs)
                             THEN [fs[i] EXCEPT !.aggregates = stats[dirs[i].row]]
                             ELSE fs[i]]

\* attachDirAggregates: the directories' hashes are looked up, and each answer
\* goes to the place its hash was taken from.
Attached(fs) ==
    [i \in DOMAIN fs |-> IF fs[i].row \in IsDir
                         THEN [fs[i] EXCEPT !.aggregates = stats[fs[i].row]]
                         ELSE fs[i]]

-----------------------------------------------------------------------------
\* dir_stats has a row for each path that was above another when the index was
\* last aggregated.  Not all of them need be of directories: a path may have become
\* another type of file since, or rows below it may have been left unpruned.
Stats == [Row -> {{}} \cup {{c} : c \in Counts}]

SearchInit ==
    /\ owner \in [Row -> Owner \cup {NULL}]
    /\ stats \in Stats /\ scope \in {Row, IsDir}
    /\ pc = "idle" /\ req = [rules |-> <<>>, limit |-> 0, byDir |-> FALSE]
    /\ files = <<>> /\ answer = "200" /\ published = 0
    /\ found = <<>> /\ during = {} /\ failed = FALSE

Receive ==
    /\ pc = "idle"
    /\ \E rules \in BoundedSeq(Rule, MaxRules), limit \in Limits, byDir \in BOOLEAN :
         /\ req' = [rules |-> rules, limit |-> limit, byDir |-> byDir]
         /\ \/ /\ rules = <<>> \/ \E i \in DOMAIN rules : rules[i].field = "unknown"
               /\ pc' = "answered" /\ answer' = "400"
            \/ /\ rules # <<>> /\ \A i \in DOMAIN rules : rules[i].field # "unknown"
               /\ pc' = "query" /\ UNCHANGED answer
    /\ UNCHANGED <<owner, stats, scope, files, published, requestVars>>

Query ==
    /\ pc = "query"
    /\ \E order \in SetToSeqs({row \in Row : Matches(req.rules, row)}) :
         LET page == SubSeq(order, 1, IF Limit(req) < Len(order) THEN Limit(req) ELSE Len(order))
         IN  /\ files' = IF NeedsDirStats(req) THEN Joined(page) ELSE Plain(page)
             /\ pc' = IF NeedsDirStats(req) \/ \A i \in DOMAIN page : page[i] \notin IsDir
                      THEN "answered" ELSE "attach"
             /\ found' = page
    /\ answer' = "200" /\ during' = {stats}
    /\ UNCHANGED <<owner, stats, scope, req, published, failed>>

\* An error of the statement, or in the middle of its rows.
QueryFails ==
    /\ pc = "query" /\ pc' = "answered" /\ answer' = "500" /\ files' = <<>>
    /\ UNCHANGED <<owner, stats, scope, req, published, requestVars>>

Attach ==
    /\ pc = "attach" /\ pc' = "answered"
    /\ files' = Attached(files)
    /\ UNCHANGED <<owner, stats, scope, req, answer, published, requestVars>>

\* A failure here only loses the decoration, of all directories or of those
\* whose rows were still to come.
AttachFails ==
    /\ pc = "attach" /\ pc' = "answered"
    /\ \E lost \in SUBSET DOMAIN files :
         files' = [i \in DOMAIN files |-> IF i \in lost THEN files[i] ELSE Attached(files)[i]]
    /\ failed' = TRUE
    /\ UNCHANGED <<owner, stats, scope, req, answer, published, found, during>>

\* fs_aggregator commits, fs_indexer resolves a name.
Publish ==
    /\ published < MaxPublished /\ published' = published + 1
    /\ \/ stats' \in Stats /\ UNCHANGED owner
       \/ (\E row \in Row, n \in Owner : owner' = [owner EXCEPT ![row] = n]) /\ UNCHANGED stats
    /\ during' = IF pc = "attach" THEN during \cup {stats'} ELSE during
    /\ UNCHANGED <<scope, pc, req, files, answer, found, failed>>

\* The next request.
Done ==
    /\ pc = "answered" /\ pc' = "idle"
    /\ req' = [rules |-> <<>>, limit |-> 0, byDir |-> FALSE]
    /\ files' = <<>> /\ answer' = "200"
    /\ found' = <<>> /\ during' = {} /\ failed' = FALSE
    /\ UNCHANGED <<owner, stats, scope, published>>

SearchNext == Receive \/ Query \/ QueryFails \/ Attach \/ AttachFails \/ Publish \/ Done
SearchSpec == SearchInit /\ [][SearchNext]_searchVars

-----------------------------------------------------------------------------
Results == {files[i].row : i \in DOMAIN files}

\* Whatever the rules and their connectors, a restricted user is answered with
\* rows of the granted subtrees only.
SearchStaysInScope == Results \subseteq scope

\* NOT turns the answer to a rule into its complement: rows whose owner has no
\* name, and rows without stats, are found by one of the two.
NotIsComplement ==
    pc = "query" /\ Len(req.rules) = 1 =>
        LET rule == req.rules[1]
            Found(negate) == {row \in scope : Matches(<<[rule EXCEPT !.negate = negate]>>, row)}
        IN  Found(TRUE) = scope \ Found(FALSE)

\* The answer is what the statement found, decorated with the stats s: joined,
\* less the rows whose count cannot be scanned, or looked up for the directories,
\* where a lookup that fails decorates none or some of them.
TooLarge(s) == {row \in Row : \E c \in s[row] : c > MaxInt32}
DecoratedWith(s) ==
    LET kept == IF NeedsDirStats(req) THEN Without(found, TooLarge(s)) ELSE found
    IN  /\ Len(files) = Len(kept)
        /\ \A i \in DOMAIN kept :
             /\ files[i].row = kept[i]
             /\ \/ files[i].aggregates = s[kept[i]]
                \/ files[i].aggregates = {} /\ ~ NeedsDirStats(req) /\ (failed \/ kept[i] \notin IsDir)

\* Every row of the statement is answered, in its order, with the aggregates of
\* one publication that stood between the statement and the answer, wherever the
\* lookup fails and whatever is published meanwhile.
DecoratedAsOfOneMoment ==
    pc = "answered" /\ answer = "200" => \E s \in during : DecoratedWith(s)

\* What the comment on the join promises: a result whose aggregates were
\* attached afterwards is the response the join would have given, when the lookup
\* did not fail and no stats were published meanwhile.
SameResponse ==
    pc = "answered" /\ answer = "200" /\ during = {stats} /\ ~ failed => files = Joined(found)
=============================================================================
