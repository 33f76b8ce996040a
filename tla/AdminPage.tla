----------------------------- MODULE AdminPage -----------------------------
(***************************************************************************)
(* The admin page of the UI: two sections, the access grants and the       *)
(* identity rules, with a form, a table and a Delete button per row, and   *)
(* below the rules the box that tests what an identity would get.  A       *)
(* change is sent, carried out by fs_api, answered, and only then is the   *)
(* table loaded again; no button is inert meanwhile, and replies arrive in *)
(* any order.                                                              *)
(*                                                                         *)
(* The sections are two React components that share nothing, so a          *)
(* behaviour is about one of them.                                         *)
(***************************************************************************)
EXTENDS Naturals, FiniteSets

CONSTANTS
    Name,             \* what grants and rules are told apart by
    None,
    MaxRows,          \* bound: rows ever added
    MaxCalls          \* bound: requests under way at a time

Row == [name : Name, id : 1..MaxRows]

VARIABLES
    section,          \* "grant" or "rule"
    server,           \* the rows of access_grants or identity_rules
    nextId,           \* the id of the row added next
    list,             \* the rows the table shows
    error, formError, \* BOOLEAN: a message is shown, above or below the form
    preview,          \* what the tested identity gets, as of these rows, or None
    calls,            \* [op, row, twin, reply]; twin tells equal calls apart
    opened,           \* the effect on mount has run
    \* History.
    overlapped,       \* the table was loaded while a load was under way
    mixed             \* a test was under way together with a change

shown == <<list, error, formError, preview>>
history == <<overlapped, mixed>>
vars == <<section, server, nextId, shown, calls, opened, history>>

\* What the module that instantiates this one assumes.
AdminPageAssumption == MaxRows \in Nat \ {0} /\ MaxCalls \in Nat \ {0} /\ None \notin Name

NoRow == [name |-> None, id |-> 0]

Call ==
    [op : {"load", "add", "delete", "test"},
     row : Row \cup {NoRow} \cup [name : Name, id : {0}], twin : 1..MaxCalls,
     reply : {None} \cup [ok : BOOLEAN, got : SUBSET Row]]

TypeOK ==
    /\ section \in {"grant", "rule"}
    /\ {server, list} \subseteq SUBSET Row /\ nextId \in 1..MaxRows + 1
    /\ {error, formError, opened, overlapped, mixed} \subseteq BOOLEAN
    /\ preview \in (SUBSET Row) \cup {None}
    /\ calls \subseteq Call /\ Cardinality(calls) <= MaxCalls

\* Nothing is loaded yet; another admin may have added a row.
Init ==
    /\ section \in {"grant", "rule"}
    /\ server \in {{}} \cup {{[name |-> n, id |-> 1]} : n \in Name}
    /\ nextId = 1 + Cardinality(server)
    /\ list = {} /\ error = FALSE /\ formError = FALSE /\ preview = None
    /\ calls = {} /\ opened = FALSE
    /\ overlapped = FALSE /\ mixed = FALSE

-----------------------------------------------------------------------------
Of(ops) == {c \in calls : c.op \in ops}

Sent(others, op, row) ==
    others \cup {[op |-> op, row |-> row, reply |-> None,
                  twin |-> CHOOSE n \in 1..MaxCalls :
                             \A c \in others : c.op = op /\ c.row = row => c.twin # n]}

Send(op, row) ==
    /\ opened /\ Cardinality(calls) < MaxCalls
    /\ calls' = Sent(calls, op, row)
    /\ mixed' = IF op = "test"
                THEN Of({"add", "delete"}) # {} \/ (mixed /\ Of({"test"}) # {})
                ELSE mixed \/ Of({"test"}) # {}
    /\ UNCHANGED <<section, server, nextId, list, preview, opened, overlapped>>

\* The effect on mount loads the table.
Open ==
    /\ ~opened /\ opened' = TRUE
    /\ calls' = Sent(calls, "load", NoRow)
    /\ UNCHANGED <<section, server, nextId, shown, history>>

\* addGrant of the grants, whose two fields must be filled in, and add of the
\* rules.
Add ==
    \/ /\ opened /\ section = "grant"
       /\ formError' = TRUE
       /\ UNCHANGED <<section, server, nextId, list, error, preview, calls, opened, history>>
    \/ /\ \E n \in Name : Send("add", [name |-> n, id |-> 0])
       /\ formError' = FALSE
       /\ error' = (error /\ section = "grant")

\* deleteGrant and remove, once the admin has confirmed.
Delete ==
    /\ \E r \in list : Send("delete", r)
    /\ UNCHANGED <<error, formError>>

\* test: there is an identity to test.
Test ==
    /\ section = "rule" /\ Send("test", NoRow)
    /\ UNCHANGED <<error, formError>>

-----------------------------------------------------------------------------
\* fs_api carries a request out: names are unique, and deleting what is gone
\* is no error.
Accepted(c) == c.op = "add" => \A r \in server : r.name # c.row.name

Serve ==
    \E c \in calls :
        /\ c.reply = None
        /\ c.op = "add" => nextId <= MaxRows
        /\ server' = CASE c.op = "delete" -> server \ {c.row}
                       [] c.op = "add" /\ Accepted(c) ->
                              server \cup {[name |-> c.row.name, id |-> nextId]}
                       [] OTHER -> server
        /\ nextId' = IF c.op = "add" THEN nextId + 1 ELSE nextId
        /\ calls' = (calls \ {c}) \cup
                    {[c EXCEPT !.reply = [ok |-> Accepted(c),
                                          got |-> IF c.op \in {"load", "test"} THEN server ELSE {}]]}
        /\ UNCHANGED <<section, shown, opened, history>>

\* load(), in the handler of the reply to c.  Loading the grants clears their
\* error, loading the rules does not.
load(c) ==
    /\ calls' = Sent(calls \ {c}, "load", NoRow)
    /\ overlapped' = (Of({"load"}) # {})
    /\ error' = (error /\ section = "rule")

\* Mutation: the table is not loaded again.
DoneQuietly(c) ==
    /\ preview' = None
    /\ calls' = calls \ {c}
    /\ UNCHANGED <<list, formError, error, overlapped>>

\* Mutation: the preview of before the change stays.
DonePreviewing(c) ==
    /\ load(c)
    /\ UNCHANGED <<list, formError, preview>>

\* A change was carried out: the table is loaded again, and what was tested
\* under other rules is not shown any more.
Done(c) ==
    /\ preview' = None
    /\ load(c)
    /\ UNCHANGED <<list, formError>>

\* The data of a load or a test.
Show(c) ==
    /\ list' = IF c.op = "load" THEN c.reply.got ELSE list
    /\ preview' = IF c.op = "test" THEN c.reply.got ELSE preview
    /\ calls' = calls \ {c}
    /\ UNCHANGED <<error, formError, overlapped>>

Fails(c) ==
    /\ IF c.op = "add" /\ section = "grant"
       THEN formError' = TRUE /\ UNCHANGED error
       ELSE error' = TRUE /\ UNCHANGED formError
    /\ calls' = calls \ {c}
    /\ UNCHANGED <<list, preview, overlapped>>

\* A call is answered, or it fails: before fs_api saw it, or after it had
\* carried it out.
Land ==
    \E c \in calls :
        /\ \/ /\ c.reply # None /\ c.reply.ok
              /\ IF c.op \in {"add", "delete"} THEN Done(c) ELSE Show(c)
           \/ Fails(c)
        /\ UNCHANGED <<section, server, nextId, opened, mixed>>

\* The page as React creates it, and leaves nothing of.
Reset(k, rows) ==
    /\ section' = k /\ server' = rows /\ nextId' = 1 + Cardinality(rows)
    /\ list' = {} /\ error' = FALSE /\ formError' = FALSE /\ preview' = None
    /\ calls' = {} /\ opened' = FALSE
    /\ overlapped' = FALSE /\ mixed' = FALSE

Enter ==
    \E k \in {"grant", "rule"}, rows \in {{}} \cup {{[name |-> n, id |-> 1]} : n \in Name} :
        Reset(k, rows)
Leave == Reset("grant", {})

Next == Open \/ Add \/ Delete \/ Test \/ Serve \/ Land

Spec == Init /\ [][Next]_vars

-----------------------------------------------------------------------------
(***************************************************************************)
(* Properties.                                                             *)
(***************************************************************************)

\* When nothing is under way and no error is shown, the table shows the rows
\* that count now: a change that was carried out is never missing from it,
\* whatever was added, deleted, lost or answered late.  Not so when two loads
\* of the table overlapped: the older answer may have come last.
ListIsServers ==
    opened /\ calls = {} /\ ~error /\ ~formError /\ ~overlapped => list = server

\* What a test showed is taken away when a rule changes: it never tells under
\* which name an identity was known before.  Not so when the test and the
\* change overlapped.
PreviewIsCurrent ==
    preview # None /\ calls = {} /\ ~mixed /\ ~error => preview = server
=============================================================================
