---------------------------- MODULE SearchPage -----------------------------
(***************************************************************************)
(* The search page of the UI: the query builder, the text of a query that  *)
(* can be copied and pasted back, the requests and the results.  Unlike    *)
(* the file browser it keeps no AbortController: it relies on its buttons  *)
(* being inert while a query is in flight.                                 *)
(***************************************************************************)
EXTENDS SearchForm

CONSTANTS
    Field,            \* bound: the fields the user asks about
    Operator,         \* bound: and the operators,
    Value,            \* the values typed into conditions,
    SortChoice,       \* the columns to sort by,
    TypedLimit,       \* the numbers typed as a limit
    ColumnChoice,     \* and the columns switched on and off
    Stored,           \* columns localStorage may hold when the page is opened; {} for none
    Pasted,           \* texts pasted
    Linked,           \* paths links to the page are made of
    MaxEdits,         \* bound: edits of the form and the text on one visit of the page
    MaxQueries        \* bound: requests under way at a time

VARIABLES
    form,             \* rules, sortBy, order, limit, columns
    shown, text,      \* "Show text", and what is in its box
    results,          \* whose answer is shown: of the "last" query, an "old" one, or "none"
    isLoading,
    error,            \* BOOLEAN: a message is shown
    opened,           \* the effect on ?path= has run
    calls,            \* requests under way: the last one, and how many before it
    \* History and bounds.
    typed,            \* the text was edited since it was written
    overtaken,        \* Load or Enter sent a query while another was under way
    edits

page == <<results, isLoading, error, calls, overtaken>>
box == <<shown, text, typed>>
vars == <<form, box, page, opened, edits>>

\* What a text may hold: JSON of the fields of a query, with any names and
\* numbers in them.
NoText == [rules |-> <<>>]
TextRule == [field : STRING, operator : STRING, value : STRING, connector : STRING,
             negate : BOOLEAN]
Text == [rules : Seq(TextRule), sort_by : STRING, order : STRING, limit : Int,
         columns : SUBSET STRING]

\* What the module that instantiates this one assumes.
SearchPageAssumption ==
    /\ Field \subseteq FIELDS /\ SortChoice \subseteq SORT_OPTIONS /\ ColumnChoice \subseteq COLUMNS
    /\ "" \in Blank /\ Linked \cap Blank = {} /\ Value \cup Linked \subseteq STRING
    /\ Pasted \subseteq Text \cup {NoText}
    /\ TypedLimit \subseteq Nat /\ MaxEdits \in Nat /\ MaxQueries \in Nat

IsRule(r) ==
    /\ r.field \in FIELDS /\ r.operator \in ToSet(operatorsFor(r.field))
    /\ r.connector \in {"AND", "OR"} /\ r.negate \in BOOLEAN

TypeOK ==
    /\ form.rules # <<>> /\ \A i \in DOMAIN form.rules : IsRule(form.rules[i])
    /\ form.sortBy \in SORT_OPTIONS /\ form.order \in {"ASC", "DESC"}
    /\ form.limit \in 1..MAX_LIMIT
    /\ form.columns \subseteq COLUMNS /\ form.columns # {}
    /\ {shown, isLoading, error, opened, typed, overtaken} \subseteq BOOLEAN
    /\ results \in {"last", "old", "none"}
    /\ calls \in [last : BOOLEAN, old : 0..MaxQueries - 1]
    /\ edits \in 0..MaxEdits

\* What is stored is any of Stored, by this tab or another; columns that no
\* longer exist are ignored.
loadColumns(s) == IF s \cap COLUMNS = {} THEN DEFAULT_COLUMNS ELSE s \cap COLUMNS

Init ==
    /\ form = FirstForm
    /\ shown = FALSE /\ text = NoText /\ typed = FALSE
    /\ results = "none" /\ isLoading = FALSE /\ error = FALSE /\ opened = FALSE
    /\ calls = [last |-> FALSE, old |-> 0] /\ overtaken = FALSE /\ edits = 0

\* The effect that keeps the text in the box that of the builder.
Tracked ==
    /\ text' = IF shown' THEN serializeQuery(form') ELSE text
    /\ typed' = FALSE

UnderWay == calls.last \/ calls.old > 0

\* The part of executeSearch before its await: a query without a single value
\* is refused on the spot.
executeSearch(q) ==
    \/ /\ activeRules(q.rules) = <<>>
       /\ error' = TRUE
       /\ UNCHANGED <<results, isLoading, calls>>
    \/ /\ activeRules(q.rules) # <<>>
       /\ calls.old + (IF calls.last THEN 1 ELSE 0) < MaxQueries
       /\ isLoading' = TRUE /\ error' = FALSE
       /\ calls' = [last |-> TRUE, old |-> calls.old + IF calls.last THEN 1 ELSE 0]
       /\ results' = IF results = "last" THEN "old" ELSE results

\* History: a query was sent by what is inert while loading, or by what is not.
Inert    == overtaken' = IF calls' = calls THEN overtaken ELSE overtaken /\ UnderWay
NotInert == overtaken' = IF calls' = calls THEN overtaken ELSE UnderWay

\* The effect on mount: a link with ?path= seeds a condition and searches.
Open ==
    /\ ~opened /\ opened' = TRUE
    /\ \/ UNCHANGED <<form, page>>
       \/ \E p \in Linked :
            /\ form' = [form EXCEPT !.rules = <<linkRule(p)>>]
            /\ executeSearch(form') /\ Inert
    /\ UNCHANGED <<box, edits>>

-----------------------------------------------------------------------------
\* The query builder, the selects and the columns: they change the form and
\* search nothing.

Edited == opened /\ edits < MaxEdits /\ edits' = edits + 1

WithRules(rules) == form' = [form EXCEPT !.rules = rules]

updateRule(i) ==
    \/ \E f \in Field :
         WithRules([form.rules EXCEPT ![i] = changeField(form.rules[i], f)])
    \/ \E o \in Operator \cap ToSet(operatorsFor(form.rules[i].field)) :
         WithRules([form.rules EXCEPT ![i].operator = o])
    \/ \E v \in IF form.rules[i].field = "file_type" THEN FILE_TYPES ELSE Value :
         WithRules([form.rules EXCEPT ![i].value = v])
    \/ i > 1 /\ \E c \in {"AND", "OR"} : WithRules([form.rules EXCEPT ![i].connector = c])
    \/ WithRules([form.rules EXCEPT ![i].negate = ~form.rules[i].negate])

toggleColumn(col) ==
    LET keys == IF col \in form.columns THEN form.columns \ {col} ELSE form.columns \cup {col}
    IN  form' = [form EXCEPT !.columns = applyColumnKeys(form.columns, keys)]

Edit ==
    /\ Edited
    /\ \/ \E i \in DOMAIN form.rules : updateRule(i) \/ WithRules(removeRule(form.rules, i))
       \/ WithRules(addRule(form.rules))
       \/ \E c \in SortChoice : form' = [form EXCEPT !.sortBy = c]
       \/ \E o \in {"ASC", "DESC"} : form' = [form EXCEPT !.order = o]
       \/ \E n \in TypedLimit :
            form' = [form EXCEPT !.limit = clampLimit(n, 1)]
       \/ \E col \in ColumnChoice : toggleColumn(col)
    /\ UNCHANGED <<shown, page, opened>>
    /\ Tracked

ShowText ==
    /\ opened
    /\ shown' = ~shown
    /\ UNCHANGED <<form, page, opened, edits>>
    /\ IF shown' THEN Tracked ELSE UNCHANGED <<text, typed>>

Paste ==
    /\ Edited /\ shown
    /\ text' \in Pasted /\ typed' = TRUE
    /\ UNCHANGED <<form, shown, page, opened>>

-----------------------------------------------------------------------------
\* What sends a query.

\* Mutation: the button is not disabled.
RunSearchAlways ==
    /\ opened
    /\ executeSearch(form) /\ Inert
    /\ UNCHANGED <<form, box, opened, edits>>

RunSearch ==
    /\ opened /\ ~isLoading
    /\ executeSearch(form) /\ Inert
    /\ UNCHANGED <<form, box, opened, edits>>

\* Enter in the value of a condition, which is not inert while loading.
EnterSearch ==
    /\ opened /\ \E i \in DOMAIN form.rules : form.rules[i].field # "file_type"
    /\ executeSearch(form) /\ NotInert
    /\ UNCHANGED <<form, box, opened, edits>>

\* A column header: the other order if it is sorted by that column already.
sortByColumn(col) ==
    /\ opened /\ ~isLoading /\ col # "permissions"
    /\ form' = [form EXCEPT
                  !.sortBy = sortKey(col),
                  !.order = IF form.sortBy = sortKey(col) /\ form.order = "ASC" THEN "DESC" ELSE "ASC"]
    /\ UNCHANGED <<shown, opened, edits>>
    /\ Tracked
    /\ executeSearch(form') /\ Inert

\* "Load": the text becomes the form and runs at once, unless it is no query.
loadQueryText ==
    /\ opened /\ shown /\ Readable(text)
    /\ form' = [parseQuery(text) EXCEPT !.columns = applyColumnKeys(form.columns, @)]
    /\ UNCHANGED <<shown, opened, edits>>
    /\ Tracked
    /\ executeSearch(form') /\ NotInert

Answered(whose) == results' = whose /\ UNCHANGED error
Failed == results' = "none" /\ error' = TRUE

\* The part of executeSearch after its await.
Reply ==
    /\ \/ /\ calls.last /\ calls' = [calls EXCEPT !.last = FALSE]
          /\ Answered("last") \/ Failed
       \/ /\ calls.old > 0 /\ calls' = [calls EXCEPT !.old = @ - 1]
          /\ Answered("old") \/ Failed
    /\ isLoading' = FALSE
    /\ UNCHANGED <<form, box, opened, overtaken, edits>>

\* The page as React creates it, with what is stored, and leaves nothing of:
\* what is under way will set no state of any other page.
Reset(s) ==
    /\ form' = [FirstForm EXCEPT !.columns = loadColumns(s)]
    /\ shown' = FALSE /\ text' = NoText /\ typed' = FALSE
    /\ results' = "none" /\ isLoading' = FALSE /\ error' = FALSE /\ opened' = FALSE
    /\ calls' = [last |-> FALSE, old |-> 0] /\ overtaken' = FALSE /\ edits' = 0

Enter == \E s \in Stored : Reset(s)
Leave == Reset({})

Next ==
    \/ Open \/ Edit \/ ShowText \/ Paste
    \/ RunSearch \/ EnterSearch \/ loadQueryText \/ Reply
    \/ \E col \in ColumnChoice \cap form.columns : sortByColumn(col)

Spec == Init /\ [][Next]_vars

----------------------------------------------------------------------------
(***************************************************************************)
(* Properties.                                                             *)
(***************************************************************************)

\* What the comment on the inert button promises: whichever response lands
\* last does not win over the query it does not answer.  When nothing is
\* shown as loading, the table holds the answer to the query sent last, or
\* nothing if that failed.  Not so while queries overlap all the same: "Load"
\* and Enter in a condition are not inert.
AnswersLastAsked == ~isLoading /\ ~overtaken => results # "old"

\* "This has to round-trip exactly": the text in the box is the builder's
\* query until the user edits it, and loading it back gives the same form.
TextIsTheForm ==
    /\ shown /\ ~typed => text = serializeQuery(form)
    /\ Readable(serializeQuery(form)) /\ parseQuery(serializeQuery(form)) = form

\* Whatever was edited, pasted and loaded, the request is one fs_api takes as
\* it is: it never replaces the limit or the sort column behind the user's
\* back, and refuses no operator the builder offers.
ServerTakesQuery ==
    activeRules(form.rules) # <<>> => ServerTakes(Request(form))
=============================================================================
