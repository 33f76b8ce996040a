----------------------------- MODULE SearchForm -----------------------------
(***************************************************************************)
(* The query builder of the search page as functions: which operators a    *)
(* field has, what the edits do to a list of conditions, which request a   *)
(* form sends, and how a query is written as text and read back.           *)
(*                                                                         *)
(* A form is [rules, sortBy, order, limit, columns].  A text is the JSON   *)
(* value it holds; one that is not JSON, or has no "rules" list, has       *)
(* rules = <<>>.  Capitals and the order of columns, which is always that  *)
(* of COLUMNS, are left out.                                               *)
(***************************************************************************)
EXTENDS Integers, SeqFilter

CONSTANT Blank        \* values of which trim() leaves nothing

-----------------------------------------------------------------------------
\* What can be asked about.
TextFields == {"path", "user", "group"}
OwnTimes   == {"mtime", "atime", "ctime"}
DirTimes   == {"dir_mtime_first", "dir_mtime_last", "dir_atime_first", "dir_atime_last",
               "dir_ctime_first", "dir_ctime_last"}
OtherNumbers == {"uid", "gid", "size_bytes", "dir_total_size", "dir_file_count"}
FIELDS == TextFields \cup OwnTimes \cup DirTimes \cup OtherNumbers \cup {"file_type"}

fieldKind(field) ==
    CASE field \in OwnTimes \cup DirTimes -> "timestamp"
      [] field \in OtherNumbers -> "number"
      [] field = "file_type" -> "fileType"
      [] OTHER -> "text"

operatorsFor(field) ==
    CASE fieldKind(field) = "text" ->
             <<"contains", "equals", "starts_with", "ends_with", "regex", "regex_i">>
      [] fieldKind(field) = "timestamp" -> <<"gt", "lt", "equals">>
      [] fieldKind(field) = "fileType"  -> <<"equals">>
      [] OTHER -> <<"equals", "gt", "lt">>

FILE_TYPES == {"0", "1", "2", "3"}

\* The columns of the table, and the sort_by value of each that has one.
SORT_OPTIONS == FIELDS \ {"user", "group"}
COLUMNS == FIELDS \cup {"permissions"}
sortKey(col) ==
    CASE col = "user" -> "uid" [] col = "group" -> "gid" [] OTHER -> col
DEFAULT_COLUMNS == {"path", "file_type", "size_bytes", "user"}

MAX_LIMIT == 10000
DEFAULT_LIMIT == 400

\* Mutation: a number larger than the server takes is let through.
clampBelow(n, fallback) == IF n < 1 THEN fallback ELSE n

\* An empty box is 0.
clampLimit(n, fallback) ==
    IF n < 1 THEN fallback ELSE IF n > MAX_LIMIT THEN MAX_LIMIT ELSE n

-----------------------------------------------------------------------------
\* The conditions and what the builder does to them.

newRule ==
    [field |-> "path", operator |-> "contains", value |-> "", connector |-> "AND",
     negate |-> FALSE]

FirstForm ==
    [rules |-> <<newRule>>, sortBy |-> "path", order |-> "ASC", limit |-> DEFAULT_LIMIT,
     columns |-> DEFAULT_COLUMNS]

\* A link with ?path= seeds one exact match.
linkRule(path) == [newRule EXCEPT !.operator = "equals", !.value = path]

\* Mutation: the operator of the field before is kept.
changeFieldOnly(rule, field) ==
    [rule EXCEPT !.field = field, !.value = IF fieldKind(field) = "fileType" THEN "2" ELSE ""]

changeField(rule, field) ==
    [rule EXCEPT !.field = field,
                 !.operator = operatorsFor(field)[1],
                 !.value = IF fieldKind(field) = "fileType" THEN "2" ELSE ""]

addRule(rules) == Append(rules, newRule)

\* The last condition cannot be removed.
removeRule(rules, i) == IF Len(rules) = 1 THEN rules ELSE RemoveAt(rules, i)

\* A column is ticked or not; one stays.
applyColumnKeys(columns, keys) ==
    IF keys \cap COLUMNS = {} THEN columns ELSE keys \cap COLUMNS

-----------------------------------------------------------------------------
\* What is sent: the conditions that have a value, dates as seconds.

Idle(r) == fieldKind(r.field) # "fileType" /\ r.value \in Blank
activeRules(rules) == Without(rules, {r \in ToSet(rules) : Idle(r)})

Request(form) ==
    [rules |-> activeRules(form.rules), sort_by |-> form.sortBy, order |-> form.order,
     limit |-> form.limit]

\* What fs_api takes as it is: it answers an unknown operator with an error,
\* and puts the path for an unknown sort column and 200 for a limit outside
\* its bounds without a word.
searchMaxLimit == 10000
Numeric(field) == field \notin TextFields
ServerTakes(request) ==
    /\ request.rules # <<>>
    /\ \A i \in DOMAIN request.rules :
         request.rules[i].operator \in
             IF Numeric(request.rules[i].field) THEN {"equals", "not_equals", "gt", "lt"}
             ELSE {"contains", "equals", "starts_with", "ends_with", "regex", "regex_i"}
    /\ request.sort_by \in SORT_OPTIONS
    /\ request.limit \in 1..searchMaxLimit

-----------------------------------------------------------------------------
\* The text of a query.

\* Mutation: the writer leaves out a flag that the reader takes for not set.
serializePositive(form) ==
    [rules   |-> [i \in DOMAIN form.rules |-> [form.rules[i] EXCEPT !.negate = FALSE]],
     sort_by |-> form.sortBy, order |-> form.order, limit |-> form.limit,
     columns |-> form.columns]

serializeQuery(form) ==
    [rules   |-> [i \in DOMAIN form.rules |->
                    [field     |-> form.rules[i].field,
                     operator  |-> form.rules[i].operator,
                     value     |-> form.rules[i].value,
                     connector |-> form.rules[i].connector,
                     negate    |-> form.rules[i].negate]],
     sort_by |-> form.sortBy, order |-> form.order, limit |-> form.limit,
     columns |-> form.columns]

\* Structure is rejected, values are clamped.
Readable(text) ==
    /\ text.rules # <<>>
    /\ \A i \in DOMAIN text.rules : text.rules[i].field \in FIELDS

parseRule(r) ==
    [r EXCEPT !.operator = IF r.operator \in ToSet(operatorsFor(r.field)) THEN r.operator
                           ELSE operatorsFor(r.field)[1],
              !.connector = IF r.connector = "OR" THEN "OR" ELSE "AND"]

parseQuery(text) ==
    [rules   |-> [i \in DOMAIN text.rules |-> parseRule(text.rules[i])],
     sortBy  |-> IF text.sort_by \in SORT_OPTIONS THEN text.sort_by ELSE "path",
     order   |-> IF text.order = "DESC" THEN "DESC" ELSE "ASC",
     limit   |-> clampLimit(text.limit, DEFAULT_LIMIT),
     columns |-> text.columns \cap COLUMNS]
=============================================================================
