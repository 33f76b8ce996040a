--------------------------------- MODULE Ui ---------------------------------
(***************************************************************************)
(* The pages of the UI that keep state of their own, and the ways between  *)
(* them.  The router mounts one page at a time; a page that is left loses  *)
(* its state, and its variables stand still until it is opened again.      *)
(***************************************************************************)
EXTENDS FileBrowser

CONSTANTS
    \* Of the search page and the admin page: see there.
    Blank, Field, Operator, Value, SortChoice, TypedLimit, ColumnChoice, Stored, Pasted,
    Linked, MaxEdits, MaxQueries, Name, MaxRows

VARIABLES
    route,            \* "browser", "search" or "admin"
    \* Of the search page.
    form, shown, text, results, searching, searchError, searchOpened, queries, typed,
    overtaken, edits,
    \* Of the admin page.
    section, server, nextId, list, adminError, formError, preview, adminCalls,
    adminOpened, overlapped, mixed

searchVars == <<form, shown, text, results, searching, searchError, searchOpened, queries,
                typed, overtaken, edits>>
adminVars == <<section, server, nextId, list, adminError, formError, preview, adminCalls,
               adminOpened, overlapped, mixed>>
uiVars == <<route, vars, searchVars, adminVars>>

Search == INSTANCE SearchPage WITH isLoading <- searching, error <- searchError,
                                   opened <- searchOpened, calls <- queries
Admin == INSTANCE AdminPage WITH error <- adminError, opened <- adminOpened,
                                 calls <- adminCalls

ASSUME UiAssumption == Search!SearchPageAssumption /\ Admin!AdminPageAssumption

\* A signed-in user starts in the file browser.
UiInit ==
    /\ route = "browser" /\ Init
    /\ Search!Init
    /\ Admin!Init /\ section = "grant" /\ server = {}

BrowserStep ==
    /\ route = "browser"
    /\ Ask \/ Render \/ CloseDetail \/ PanelEffect \/ Settle
    /\ UNCHANGED <<route, searchVars, adminVars>>

SearchStep ==
    /\ route = "search" /\ Search!Next
    /\ UNCHANGED <<route, vars, adminVars>>

AdminStep ==
    /\ route = "admin" /\ Admin!Next
    /\ UNCHANGED <<route, vars, searchVars>>

\* The navigation bar, "View in Search", "Open in Browser", Back and Forward.
GoTo(r) ==
    /\ route # r /\ route' = r
    /\ IF r = "browser" THEN \E p \in Path : Mount(p)
       ELSE IF route = "browser" THEN Unmount ELSE UNCHANGED vars
    /\ IF r = "search" THEN Search!Enter ELSE Search!Leave
    /\ IF r = "admin" THEN Admin!Enter ELSE Admin!Leave

UiNext == BrowserStep \/ SearchStep \/ AdminStep \/ \E r \in {"browser", "search", "admin"} : GoTo(r)

\* Every request of the browser is answered, or fails, in the end.
UiSpec ==
    /\ UiInit /\ [][UiNext]_uiVars
    /\ WF_uiVars(Settle /\ UNCHANGED <<route, searchVars, adminVars>>)

----------------------------------------------------------------------------
\* One page at a time, each within its types.
UiTypeOK ==
    /\ TypeOK /\ mounted = (route = "browser")
    /\ Search!TypeOK /\ Admin!TypeOK

\* The properties of the two other pages, for the configuration file to name:
\* the table answers the query sent last (SearchPage!AnswersLastAsked), ...
AnswersLastAsked == Search!AnswersLastAsked
\* ... the text of a query is the query (SearchPage!TextIsTheForm), ...
TextIsTheForm == Search!TextIsTheForm
\* ... fs_api takes what is sent as it is (SearchPage!ServerTakesQuery), ...
ServerTakesQuery == Search!ServerTakesQuery
\* ... a table of the admin page shows the rows that count (AdminPage!ListIsServers), ...
ListIsServers == Admin!ListIsServers
\* ... and so does what was tested (AdminPage!PreviewIsCurrent).
PreviewIsCurrent == Admin!PreviewIsCurrent
=============================================================================
