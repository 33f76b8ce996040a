------------------------------ MODULE UiProofs ------------------------------
(***************************************************************************)
(* Proofs about the pages of the UI, for any index, any names, texts and   *)
(* values, and any number of requests, whatever the user does and however  *)
(* the replies arrive; and about the rows the search page draws, for any   *)
(* heights of rows, any window and any results.                            *)
(***************************************************************************)
EXTENDS Ui, WindowedRows, SequenceLemmas, FiniteSetTheorems, TLAPS

----------------------------------------------------------------------------
(* Inductive invariants, one per page                                      *)

\* The call of a kind is the last of its kind, and what it is for is what the
\* page shows, or will show: an abort leaves nobody behind.
CallsOK ==
    /\ \A c, d \in calls : c.kind = d.kind => c = d
    /\ \A c \in calls :
         /\ c.held
         /\ c.kind = "list" => c.path = currentPath
         /\ c.kind = "detail" => c.path = clicked
         /\ c.kind = "children" => c.path = panelFor

Asking(kind) == \E c \in calls : c.kind = kind

\* What is shown is what was asked for last, unless that is still on its way.
ShownOK ==
    /\ Asking("list") \/ entries \in {currentPath, None}
    /\ Asking("detail") \/ selectedItem \in {clicked, None}
    /\ children \in {panelFor, None, Unlisted}
    /\ currentPath \in Missing /\ navigated # None =>
           Asking("list") \/ (entries = None /\ (error # None \/ since))

BrowserInv == TypeOK /\ IsFiniteSet(calls) /\ CallsOK /\ ShownOK

Changes == {c \in adminCalls : c.op \in {"add", "delete"}}
Loads   == {c \in adminCalls : c.op = "load"}
Tests   == {c \in adminCalls : c.op = "test"}

\* The reply to c is not there yet, or tells what counts now.
Fresh(c) == c.reply = None \/ (c.reply.ok /\ c.reply.got = server)

\* No change is under way, and none has failed: then the table that is shown,
\* or else the one that is being loaded, is that of fs_api.
ListOK ==
    adminOpened /\ Changes = {} /\ ~adminError /\ ~formError /\ ~overlapped =>
        /\ \A c \in Loads : Fresh(c)
        /\ Loads = {} => list = server

\* A test that nothing overlaps tells what counts now, and so does the preview
\* it leaves behind, until the next test or change is under way.
PreviewOK ==
    /\ ~mixed /\ Tests # {} => Changes = {} /\ \A c \in Tests : Fresh(c)
    /\ ~mixed /\ ~adminError /\ Changes = {} /\ Tests = {} /\ preview # None => preview = server

AdminInv ==
    /\ Admin!TypeOK /\ IsFiniteSet(adminCalls)
    /\ ~adminOpened => adminCalls = {}
    /\ \A c \in adminCalls : c.op = "add" => c.row.name \in Name
    /\ section = "grant" => preview = None /\ Tests = {}
    /\ ListOK /\ PreviewOK

\* Queries overlap only when Load or Enter made them.
SearchInv ==
    /\ queries \in [last : BOOLEAN, old : Nat]
    /\ ~searchOpened => ~queries.last /\ queries.old = 0 /\ results # "old"
    /\ ~overtaken => /\ queries.old = 0
                     /\ queries.last => searching
                     /\ ~searching => results # "old"

IInv ==
    /\ mounted = (route = "browser")
    /\ BrowserInv /\ AdminInv /\ SearchInv

----------------------------------------------------------------------------
(* The file browser                                                        *)

\* A call of a kind takes the place of the one before.
LEMMA AskedOK ==
  ASSUME BrowserInv, NEW kind \in {"list", "detail", "children"},
         NEW p, NEW paths \in SUBSET {p}, paths \subseteq Path, Asked(kind, paths)
  PROVE  LET new == [kind |-> kind, path |-> p, held |-> TRUE] IN
         /\ calls' \subseteq Call /\ IsFiniteSet(calls') /\ Cardinality(calls') <= MaxCalls
         /\ \A c \in calls' : (c \in calls /\ c.kind # kind) \/ (paths = {p} /\ c = new)
         /\ paths = {p} => new \in calls'
         /\ \A c \in calls : c.kind # kind => c \in calls'
<1> DEFINE new == [kind |-> kind, path |-> p, held |-> TRUE]
<1>1. calls \subseteq Call /\ IsFiniteSet(calls)
  BY DEF BrowserInv, TypeOK
<1>2. calls' = Superseded(kind) \cup {[kind |-> kind, path |-> x, held |-> TRUE] : x \in paths}
      /\ Cardinality(calls') <= MaxCalls
  BY DEF Asked
<1>3. IsFiniteSet(Superseded(kind)) /\ Superseded(kind) \subseteq calls
  BY <1>1, FS_Subset DEF Superseded
<1>4. paths = {} \/ paths = {p}
  OBVIOUS
<1>5. CASE paths = {}
  <2>1. calls' = Superseded(kind)
    BY <1>2, <1>5
  <2>2. QED
    BY <1>1, <1>2, <1>3, <1>5, <2>1 DEF Superseded
<1>6. CASE paths = {p}
  <2>1. calls' = Superseded(kind) \cup {new}
    BY <1>2, <1>6
  <2>2. IsFiniteSet(calls')
    BY <1>3, <2>1, FS_AddElement
  <2>3. new \in Call
    BY <1>6 DEF Call
  <2>4. QED
    <3> HIDE DEF new
    <3> QED
      BY <1>1, <1>2, <1>3, <1>6, <2>1, <2>2, <2>3 DEF Superseded, new
<1>7. QED
  BY <1>4, <1>5, <1>6

\* A listing is asked for: what is shown is that of the directory before until
\* the answer comes, and the selection is gone.
LEMMA NavigateKeeps ==
  ASSUME BrowserInv, NEW p \in Path, navigateTo(p), navigated' \in Path \cup {None}
  PROVE  BrowserInv'
<1> DEFINE new == [kind |-> "list", path |-> p, held |-> TRUE]
<1>1. TypeOK /\ CallsOK /\ ShownOK
  BY DEF BrowserInv
<1>2. /\ calls' \subseteq Call /\ IsFiniteSet(calls') /\ Cardinality(calls') <= MaxCalls
      /\ \A c \in calls' : (c \in calls /\ c.kind # "list") \/ c = new
      /\ new \in calls'
      /\ \A c \in calls : c.kind # "list" => c \in calls'
  <2>1. Asked("list", {p}) /\ {p} \in SUBSET {p} /\ {p} \subseteq Path
    BY DEF navigateTo
  <2>2. QED
    BY <2>1, AskedOK
<1>3. new.kind = "list" /\ new.path = p /\ new.held
  OBVIOUS
<1> HIDE DEF new
<1>4. /\ currentPath' = p /\ selectedItem' = None /\ error' = None /\ isLoading' = TRUE
      /\ since' = FALSE
      /\ UNCHANGED <<url, entries, panel, rendered, mounted, clicked>>
  BY DEF navigateTo
<1>5. TypeOK'
  BY <1>1, <1>2, <1>4 DEF TypeOK, panel
<1>6. CallsOK'
  BY <1>1, <1>2, <1>3, <1>4 DEF CallsOK, panel
<1>7. ShownOK'
  BY <1>1, <1>2, <1>3, <1>4 DEF ShownOK, Asking, panel
<1>8. QED
  BY <1>2, <1>5, <1>6, <1>7 DEF BrowserInv

\* An entry is looked up.
LEMMA SelectKeeps ==
  ASSUME BrowserInv, NEW e \in Path, selectItem(e)
  PROVE  BrowserInv'
<1> DEFINE new == [kind |-> "detail", path |-> e, held |-> TRUE]
<1>1. TypeOK /\ CallsOK /\ ShownOK
  BY DEF BrowserInv
<1>2. /\ calls' \subseteq Call /\ IsFiniteSet(calls') /\ Cardinality(calls') <= MaxCalls
      /\ \A c \in calls' : (c \in calls /\ c.kind # "detail") \/ c = new
      /\ new \in calls'
      /\ \A c \in calls : c.kind # "detail" => c \in calls'
  <2>1. Asked("detail", {e}) /\ {e} \in SUBSET {e} /\ {e} \subseteq Path
    BY DEF selectItem
  <2>2. QED
    BY <2>1, AskedOK
<1>3. new.kind = "detail" /\ new.path = e /\ new.held
  OBVIOUS
<1> HIDE DEF new
<1>4. /\ error' = None /\ isLoading' = TRUE /\ clicked' = e /\ since' = TRUE
      /\ UNCHANGED <<url, currentPath, entries, selectedItem, panel, rendered,
                     navigated, mounted>>
  BY DEF selectItem
<1>5. TypeOK'
  BY <1>1, <1>2, <1>4 DEF TypeOK, panel
<1>6. CallsOK'
  BY <1>1, <1>2, <1>3, <1>4 DEF CallsOK, panel
<1>7. ShownOK'
  BY <1>1, <1>2, <1>3, <1>4 DEF ShownOK, Asking, panel
<1>8. QED
  BY <1>2, <1>5, <1>6, <1>7 DEF BrowserInv

\* The panel turns to another entry: the listing of the one before goes at
\* once, and so does the call for it.
LEMMA PanelKeeps ==
  ASSUME BrowserInv, PanelEffect
  PROVE  BrowserInv'
<1> DEFINE p == rendered.selected
           new == [kind |-> "children", path |-> p, held |-> TRUE]
<1>1. TypeOK /\ CallsOK /\ ShownOK /\ p \in Path \cup {None}
  BY DEF BrowserInv, TypeOK
<1>2. /\ calls' \subseteq Call /\ IsFiniteSet(calls') /\ Cardinality(calls') <= MaxCalls
      /\ \A c \in calls' : (c \in calls /\ c.kind # "children") \/ c = new
      /\ \A c \in calls : c.kind # "children" => c \in calls'
  <2>1. /\ Asked("children", {p} \cap IsDir)
        /\ {p} \cap IsDir \in SUBSET {p} /\ {p} \cap IsDir \subseteq Path
    BY BrowserAssumption DEF PanelEffect
  <2> HIDE DEF p
  <2>2. QED
    BY <2>1, AskedOK
<1>3. new.kind = "children" /\ new.path = p /\ new.held
  OBVIOUS
<1>4. /\ panelFor' = p /\ children' = Unlisted
      /\ UNCHANGED <<url, hook, rendered, navigated, mounted, clicked, since>>
  BY DEF PanelEffect
<1> HIDE DEF new, p
<1>5. TypeOK'
  BY <1>1, <1>2, <1>4 DEF TypeOK, hook
<1>6. CallsOK'
  BY <1>1, <1>2, <1>3, <1>4 DEF CallsOK, hook
<1>7. ShownOK'
  <2>1. \A kind \in {"list", "detail"} : Asking(kind)' <=> Asking(kind)
    BY <1>2, <1>3 DEF Asking
  <2>2. QED
    BY <1>1, <1>4, <2>1 DEF ShownOK, hook
<1>8. QED
  BY <1>2, <1>5, <1>6, <1>7 DEF BrowserInv

\* A call is answered or fails: it was the last of its kind, so what it brings
\* is what the page is about.
LEMMA SettleKeeps ==
  ASSUME BrowserInv, NEW c \in calls, Reply(c) \/ Failure(c)
  PROVE  BrowserInv'
<1>1. TypeOK /\ CallsOK /\ ShownOK /\ IsFiniteSet(calls)
  BY DEF BrowserInv
<1>2. c \in Call /\ c.path \in Path /\ c.path # None /\ c.kind \in {"list", "detail", "children"}
  BY <1>1, BrowserAssumption DEF TypeOK, Call
<1>3. PICK result \in {c.path, None} :
        /\ Shown(c, result)
        /\ error' \in {error, c.path}
        /\ c.kind = "list" /\ (result = None \/ c.path \in Missing) =>
             result = None /\ error' = c.path
  BY <1>2 DEF Reply, Failure, Refused
<1>4. calls' = calls \ {c} /\ UNCHANGED <<url, currentPath, panelFor, rendered, navigated,
                                         mounted, clicked, since>>
  BY DEF Reply, Failure, Settled
<1>5. IsFiniteSet(calls') /\ Cardinality(calls') <= MaxCalls /\ calls' \subseteq Call
  <2>1. IsFiniteSet(calls') /\ Cardinality(calls') = Cardinality(calls) - 1
    BY <1>1, <1>4, FS_RemoveElement
  <2>2. Cardinality(calls) \in Nat
    BY <1>1, FS_CardinalityType
  <2>3. QED
    BY <1>1, <1>4, <2>1, <2>2, BrowserAssumption DEF TypeOK
<1>6. TypeOK'
  <2>1. isLoading' \in BOOLEAN
    BY <1>1, <1>3 DEF Shown, TypeOK
  <2>2. QED
    BY <1>1, <1>2, <1>3, <1>4, <1>5, <2>1 DEF TypeOK, Shown
<1>7. CallsOK'
  BY <1>1, <1>4 DEF CallsOK
<1>8. ShownOK'
  <2>1. \A kind : Asking(kind)' <=> Asking(kind) /\ kind # c.kind
    BY <1>1, <1>4 DEF Asking, CallsOK
  <2>2. CASE c.kind = "list"
    BY <1>1, <1>2, <1>3, <1>4, <2>1, <2>2 DEF ShownOK, CallsOK, Shown
  <2>3. CASE c.kind = "detail"
    <3>1. error' # None \/ error' = error
      BY <1>2, <1>3
    <3>2. QED
      BY <1>1, <1>2, <1>3, <1>4, <2>1, <2>3, <3>1 DEF ShownOK, CallsOK, Shown
  <2>4. CASE c.kind = "children"
    <3>1. error' # None \/ error' = error
      BY <1>2, <1>3
    <3>2. QED
      BY <1>1, <1>2, <1>3, <1>4, <2>1, <2>4, <3>1 DEF ShownOK, CallsOK, Shown
  <2>5. QED
    BY <1>2, <2>2, <2>3, <2>4
<1>9. QED
  BY <1>5, <1>6, <1>7, <1>8 DEF BrowserInv

\* The page is opened, or left, with nothing loaded and nothing under way.
LEMMA ResetKeeps ==
  ASSUME BrowserInv, NEW p \in Path, Reset(p), mounted' \in BOOLEAN
  PROVE  BrowserInv'
<1>1. calls' = {} /\ IsFiniteSet(calls') /\ Cardinality(calls') = 0
  BY FS_EmptySet DEF Reset
<1>2. TypeOK'
  <2>1. rendered' \in [url : Path, entries : Path \cup {None}, selected : Path \cup {None}]
    BY DEF Reset
  <2>2. calls' \subseteq Call /\ Cardinality(calls') <= MaxCalls
    BY <1>1, BrowserAssumption
  <2>3. QED
    BY <2>1, <2>2 DEF Reset, TypeOK
<1>3. CallsOK' /\ ShownOK'
  BY <1>1 DEF CallsOK, ShownOK, Reset
<1>4. QED
  BY <1>1, <1>2, <1>3 DEF BrowserInv

\* Nothing happens in the browser.
LEMMA BrowserStands ==
  ASSUME BrowserInv, UNCHANGED vars
  PROVE  BrowserInv'
<1>1. UNCHANGED <<url, currentPath, entries, selectedItem, isLoading, error, children,
                  panelFor, calls, rendered, navigated, mounted, clicked, since>>
  BY DEF vars, hook, panel
<1>2. QED
  BY <1>1 DEF BrowserInv, TypeOK, CallsOK, ShownOK, Asking

\* Whatever the user and the server do in the browser.
LEMMA BrowserKeeps ==
  ASSUME BrowserInv, Ask \/ Render \/ CloseDetail \/ PanelEffect \/ Settle
  PROVE  BrowserInv' /\ mounted' = mounted
<1>1. TypeOK /\ CallsOK /\ ShownOK
  BY DEF BrowserInv
<1>2. CASE Effect
  <2>1. rendered.url \in Path /\ navigateTo(rendered.url) /\ navigated' \in Path \cup {None}
    BY <1>1, <1>2 DEF Effect, TypeOK
  <2>2. QED
    BY <2>1, NavigateKeeps DEF navigateTo
<1>3. ASSUME NEW p \in Path, openPath(p) PROVE BrowserInv' /\ mounted' = mounted
  <2>1. CASE navigateTo(p) /\ UNCHANGED navigated
    BY <1>1, <2>1, NavigateKeeps DEF navigateTo, TypeOK
  <2>2. CASE url' = p /\ UNCHANGED <<hook, panel, calls, rendered, navigated, mounted,
                                     clicked, since>>
    BY <1>1, <2>2 DEF BrowserInv, TypeOK, CallsOK, ShownOK, Asking, hook, panel
  <2>3. QED
    BY <1>3, <2>1, <2>2 DEF openPath
<1>4. ASSUME NEW p \in Path, selectItem(p) PROVE BrowserInv' /\ mounted' = mounted
  BY <1>4, SelectKeeps DEF selectItem
<1>5. CASE Render
  BY <1>1, <1>5 DEF Render, BrowserInv, TypeOK, CallsOK, ShownOK, Asking, hook, panel
<1>6. CASE CloseDetail
  BY <1>1, <1>6 DEF CloseDetail, BrowserInv, TypeOK, CallsOK, ShownOK, Asking, panel
<1>7. CASE PanelEffect
  BY <1>7, PanelKeeps DEF PanelEffect
<1>8. CASE Settle
  BY <1>8, SettleKeeps DEF Settle, Reply, Failure, Settled
<1>9. QED
  BY <1>2, <1>3, <1>4, <1>5, <1>6, <1>7, <1>8 DEF Ask

----------------------------------------------------------------------------
(* The admin page                                                          *)

CallOp == {"load", "add", "delete", "test"}
CallRow == Admin!Row \cup {Admin!NoRow} \cup [name : Name, id : {0}]

\* Counting is counting, in the module of the admin page too.
LEMMA SameCardinality == ASSUME NEW S PROVE Admin!Cardinality(S) = Cardinality(S)
  BY DEF Admin!Cardinality, Cardinality

\* A call has a twin's number nobody else has: there are as many numbers as
\* there may be calls.
LEMMA TwinExists ==
  ASSUME NEW others, IsFiniteSet(others), Cardinality(others) < MaxCalls, NEW op, NEW row
  PROVE  \E n \in 1..MaxCalls :
            \A c \in others : c.op = op /\ c.row = row => c.twin # n
<1> SUFFICES ASSUME \A n \in 1..MaxCalls :
                       \E c \in others : c.op = op /\ c.row = row /\ c.twin = n
             PROVE  FALSE
  OBVIOUS
<1> DEFINE f == [n \in 1..MaxCalls |->
                    CHOOSE c \in others : c.op = op /\ c.row = row /\ c.twin = n]
<1>1. \A n \in 1..MaxCalls : f[n] \in others /\ f[n].twin = n
  OBVIOUS
<1>2. f \in [1..MaxCalls -> others]
  BY <1>1
<1> HIDE DEF f
<1>3. MaxCalls \in Nat
  BY BrowserAssumption
<1>4. IsFiniteSet(1..MaxCalls) /\ Cardinality(1..MaxCalls) = MaxCalls
  BY <1>3, FS_Interval
<1>5. \E x, y \in 1..MaxCalls : x # y /\ f[x] = f[y]
  <2> DEFINE S == 1..MaxCalls
  <2>1. IsFiniteSet(S) /\ Cardinality(others) < Cardinality(S) /\ f \in [S -> others]
    BY <1>2, <1>4
  <2> HIDE DEF S
  <2>2. \E x, y \in S : x # y /\ f[x] = f[y]
    BY <2>1, FS_PigeonHole
  <2>3. QED
    BY <2>2 DEF S
<1>6. QED
  BY <1>1, <1>5

\* A call is sent along with the others.
LEMMA SentOK ==
  ASSUME NEW others \in SUBSET Admin!Call, IsFiniteSet(others), Cardinality(others) < MaxCalls,
         NEW op \in CallOp,
         NEW row \in CallRow
  PROVE  \E c \in Admin!Call :
            /\ c.op = op /\ c.row = row /\ c.reply = None
            /\ Admin!Sent(others, op, row) = others \cup {c}
            /\ IsFiniteSet(others \cup {c}) /\ Cardinality(others \cup {c}) <= MaxCalls
<1> DEFINE twin == CHOOSE n \in 1..MaxCalls :
                      \A d \in others : d.op = op /\ d.row = row => d.twin # n
           c == [op |-> op, row |-> row, reply |-> None, twin |-> twin]
<1>1. twin \in 1..MaxCalls
  BY TwinExists
<1>2. Admin!Sent(others, op, row) = others \cup {c}
  BY DEF Admin!Sent
<1> HIDE DEF twin
<1>3. c \in Admin!Call /\ c.op = op /\ c.row = row /\ c.reply = None
  BY <1>1 DEF Admin!Call, CallOp, CallRow
<1> HIDE DEF c
<1>4. IsFiniteSet(others \cup {c}) /\ Cardinality(others \cup {c}) <= MaxCalls
  <2>1. Cardinality(others) \in Nat /\ MaxCalls \in Nat
    BY FS_CardinalityType, BrowserAssumption
  <2>2. QED
    <3>1. Cardinality(others \cup {c}) \in {Cardinality(others), Cardinality(others) + 1}
      BY FS_AddElement
    <3>2. IsFiniteSet(others \cup {c})
      BY FS_AddElement
    <3>3. QED
      BY <2>1, <3>1, <3>2
<1>5. QED
  BY <1>2, <1>3, <1>4

\* What the types say, in so many words.
LEMMA AdminTypes ==
  ASSUME AdminInv
  PROVE  /\ section \in {"grant", "rule"}
         /\ server \in SUBSET Admin!Row /\ list \in SUBSET Admin!Row
         /\ nextId \in 1..MaxRows + 1
         /\ adminError \in BOOLEAN /\ formError \in BOOLEAN /\ adminOpened \in BOOLEAN
         /\ overlapped \in BOOLEAN /\ mixed \in BOOLEAN
         /\ preview \in (SUBSET Admin!Row) \cup {None}
         /\ adminCalls \in SUBSET Admin!Call /\ IsFiniteSet(adminCalls)
         /\ Cardinality(adminCalls) \in Nat /\ Cardinality(adminCalls) <= MaxCalls
         /\ MaxRows \in Nat /\ MaxCalls \in Nat \ {0}
         /\ \A c \in adminCalls : c.op \in {"load", "add", "delete", "test"}
<1>1. Admin!TypeOK /\ IsFiniteSet(adminCalls)
  BY DEF AdminInv
<1>2. MaxRows \in Nat /\ MaxCalls \in Nat \ {0}
  BY UiAssumption DEF Admin!AdminPageAssumption
<1>3. Cardinality(adminCalls) \in Nat
  BY <1>1, FS_CardinalityType
<1>4. \A c \in Admin!Call : c.op \in {"load", "add", "delete", "test"}
  BY DEF Admin!Call
<1>5. QED
  BY <1>1, <1>2, <1>3, <1>4, SameCardinality DEF Admin!TypeOK

\* A change or a test is sent; no table is loaded by that.
LEMMA SendKeeps ==
  ASSUME AdminInv, NEW op \in {"add", "delete", "test"},
         NEW row \in CallRow,
         op = "add" => row.name \in Name,
         op = "test" => section = "rule",
         Admin!Send(op, row),
         adminError' \in BOOLEAN, formError' \in BOOLEAN,
         op = "add" \/ UNCHANGED <<adminError, formError>>
  PROVE  AdminInv'
<1>1. /\ adminOpened /\ Cardinality(adminCalls) < MaxCalls
      /\ adminCalls' = Admin!Sent(adminCalls, op, row)
      /\ mixed' = IF op = "test"
                  THEN Admin!Of({"add", "delete"}) # {} \/ (mixed /\ Admin!Of({"test"}) # {})
                  ELSE mixed \/ Admin!Of({"test"}) # {}
      /\ UNCHANGED <<section, server, nextId, list, preview, adminOpened, overlapped>>
  BY SameCardinality DEF Admin!Send
<1>2. PICK c \in Admin!Call :
        /\ c.op = op /\ c.row = row /\ c.reply = None
        /\ adminCalls' = adminCalls \cup {c}
        /\ IsFiniteSet(adminCalls') /\ Cardinality(adminCalls') <= MaxCalls
  <2>1. adminCalls \in SUBSET Admin!Call /\ IsFiniteSet(adminCalls)
    BY AdminTypes
  <2>2. PICK c \in Admin!Call :
          /\ c.op = op /\ c.row = row /\ c.reply = None
          /\ Admin!Sent(adminCalls, op, row) = adminCalls \cup {c}
          /\ IsFiniteSet(adminCalls \cup {c}) /\ Cardinality(adminCalls \cup {c}) <= MaxCalls
    <3>1. op \in CallOp /\ Cardinality(adminCalls) < MaxCalls
      BY <1>1 DEF CallOp
    <3>2. QED
      BY <2>1, <3>1, SentOK
  <2>3. QED
    BY <1>1, <2>2
<1>3. mixed' = IF op = "test" THEN Changes # {} \/ (mixed /\ Tests # {})
                              ELSE mixed \/ Tests # {}
  BY <1>1 DEF Changes, Tests, Admin!Of
<1>4. Loads' = Loads /\ Changes' = Changes \cup (IF op = "test" THEN {} ELSE {c})
      /\ Tests' = Tests \cup (IF op = "test" THEN {c} ELSE {})
  BY <1>2 DEF Loads, Changes, Tests
<1>5. Admin!TypeOK'
  <2>1. mixed' \in BOOLEAN
    BY <1>3, AdminTypes, Zenon
  <2>2. adminCalls' \subseteq Admin!Call
    BY <1>2, AdminTypes
  <2>3. QED
    BY <1>1, <1>2, <2>1, <2>2, AdminTypes, SameCardinality DEF Admin!TypeOK
<1>6. ListOK'
  <2>1. CASE op = "test"
    <3>1. Changes' = Changes /\ UNCHANGED <<adminError, formError>>
      BY <1>4, <2>1
    <3>2. QED
      BY <1>1, <1>4, <3>1 DEF AdminInv, ListOK, Fresh
  <2>2. CASE op # "test"
    BY <1>4, <2>2 DEF ListOK
  <2>3. QED
    BY <2>1, <2>2
<1>7. PreviewOK'
  <2>1. PreviewOK /\ server' = server /\ preview' = preview
    BY <1>1 DEF AdminInv
  <2>2. CASE op = "test"
    <3>1. Changes' = Changes /\ Tests' = Tests \cup {c} /\ Tests' # {}
      BY <1>4, <2>2
    <3>2. ASSUME ~mixed' PROVE Changes = {} /\ (Tests # {} => ~mixed)
      BY <1>3, <2>2, <3>2
    <3>3. QED
      BY <1>2, <2>1, <3>1, <3>2 DEF PreviewOK, Fresh
  <2>3. CASE op # "test"
    <3>1. Changes' # {} /\ Tests' = Tests /\ (~mixed' => Tests = {})
      BY <1>3, <1>4, <2>3
    <3>2. QED
      BY <2>1, <3>1 DEF PreviewOK
  <2>4. QED
    BY <2>2, <2>3
<1>8. /\ ~adminOpened' => adminCalls' = {}
      /\ \A d \in adminCalls' : d.op = "add" => d.row.name \in Name
      /\ section' = "grant" => preview' = None /\ Tests' = {}
  BY <1>1, <1>2, <1>4 DEF AdminInv
<1>9. QED
  BY <1>2, <1>5, <1>6, <1>7, <1>8 DEF AdminInv

\* fs_api carries a call out: the call stays under way, and a table that a
\* change makes old is one a change is under way for.
LEMMA ServeKeeps ==
  ASSUME AdminInv, Admin!Serve
  PROVE  AdminInv'
<1>1. PICK c \in adminCalls :
        /\ c.reply = None
        /\ c.op = "add" => nextId <= MaxRows
        /\ server' = CASE c.op = "delete" -> server \ {c.row}
                       [] c.op = "add" /\ Admin!Accepted(c) ->
                              server \cup {[name |-> c.row.name, id |-> nextId]}
                       [] OTHER -> server
        /\ nextId' = IF c.op = "add" THEN nextId + 1 ELSE nextId
        /\ adminCalls' = (adminCalls \ {c}) \cup
              {[c EXCEPT !.reply = [ok |-> Admin!Accepted(c),
                                    got |-> IF c.op \in {"load", "test"} THEN server ELSE {}]]}
        /\ UNCHANGED <<section, list, adminError, formError, preview, adminOpened,
                       overlapped, mixed>>
  BY DEF Admin!Serve, Admin!shown, Admin!history
<1> DEFINE reply == [ok |-> Admin!Accepted(c),
                     got |-> IF c.op \in {"load", "test"} THEN server ELSE {}]
<1>2. c \in Admin!Call /\ c.op \in {"load", "add", "delete", "test"}
  BY AdminTypes
<1>3. reply \in [ok : BOOLEAN, got : SUBSET Admin!Row]
  BY AdminTypes DEF Admin!Accepted
<1>4. PICK d \in Admin!Call :
        /\ d.op = c.op /\ d.row = c.row
        /\ c.op \in {"load", "test"} => d.reply.ok /\ d.reply.got = server
        /\ adminCalls' = (adminCalls \ {c}) \cup {d}
  <2> DEFINE d == [c EXCEPT !.reply = reply]
  <2>1. c.op \in {"load", "test"} => reply.ok /\ reply.got = server
    BY DEF Admin!Accepted
  <2>2. adminCalls' = (adminCalls \ {c}) \cup {d}
    BY <1>1
  <2> HIDE DEF reply
  <2>3. d \in Admin!Call /\ d.op = c.op /\ d.row = c.row /\ d.reply = reply
    BY <1>2, <1>3 DEF Admin!Call
  <2> HIDE DEF d
  <2>4. QED
    BY <2>1, <2>2, <2>3
<1>7. IsFiniteSet(adminCalls') /\ Cardinality(adminCalls') <= MaxCalls
  <2>1. IsFiniteSet(adminCalls \ {c}) /\ Cardinality(adminCalls \ {c}) = Cardinality(adminCalls) - 1
    BY <1>1, AdminTypes, FS_RemoveElement
  <2>2. /\ IsFiniteSet((adminCalls \ {c}) \cup {d})
        /\ Cardinality((adminCalls \ {c}) \cup {d}) \in
             {Cardinality(adminCalls \ {c}), Cardinality(adminCalls \ {c}) + 1}
    BY <2>1, FS_AddElement
  <2>3. QED
    BY <1>4, <2>1, <2>2, AdminTypes
<1>8. server' \in SUBSET Admin!Row /\ nextId' \in 1..MaxRows + 1
  <2>1. CASE c.op = "add"
    <3>1. c.row.name \in Name
      BY <2>1 DEF AdminInv
    <3>2. nextId \in 1..MaxRows /\ nextId' = nextId + 1
      BY <1>1, <2>1, AdminTypes
    <3>3. [name |-> c.row.name, id |-> nextId] \in Admin!Row
      BY <3>1, <3>2 DEF Admin!Row
    <3>4. server' \in {server, server \cup {[name |-> c.row.name, id |-> nextId]}}
      BY <1>1, <2>1
    <3>5. server' \in SUBSET Admin!Row
      BY <3>3, <3>4, AdminTypes
    <3>6. QED
      BY <3>2, <3>5, AdminTypes
  <2>2. CASE c.op # "add"
    <3>1. server' \in {server, server \ {c.row}} /\ nextId' = nextId
      BY <1>1, <2>2
    <3>2. QED
      BY <3>1, AdminTypes
  <2>3. QED
    BY <2>1, <2>2
<1>9. c.op \in {"load", "test"} => server' = server
  BY <1>1
<1>10. Admin!TypeOK'
  <2>1. adminCalls' \subseteq Admin!Call
    BY <1>4, AdminTypes
  <2>2. QED
    BY <1>1, <1>7, <1>8, <2>1, AdminTypes, SameCardinality DEF Admin!TypeOK
<1>11. Changes' = {} => Changes = {} /\ server' = server
  BY <1>1, <1>2, <1>4, <1>9 DEF Changes
<1>12. /\ \A x \in Loads' : x \in Loads \/ (x = d /\ c \in Loads)
       /\ Loads' = {} => Loads = {}
  BY <1>1, <1>4 DEF Loads
<1>13. /\ \A x \in Tests' : x \in Tests \/ (x = d /\ c \in Tests)
       /\ Tests' = {} <=> Tests = {}
  BY <1>1, <1>4 DEF Tests
<1>14. ListOK'
  <2>1. ListOK
    BY DEF AdminInv
  <2>2. server' = server /\ c \in Loads => Fresh(d)'
    BY <1>4 DEF Fresh, Loads
  <2>3. ASSUME NEW x, Fresh(x), server' = server PROVE Fresh(x)'
    BY <2>3 DEF Fresh
  <2>4. QED
    BY <1>1, <1>11, <1>12, <2>1, <2>2, <2>3 DEF ListOK
<1>15. PreviewOK'
  <2>1. PreviewOK
    BY DEF AdminInv
  <2>2. server' = server /\ c \in Tests => Fresh(d)'
    BY <1>4 DEF Fresh, Tests
  <2>3. ASSUME NEW x, Fresh(x), server' = server PROVE Fresh(x)'
    BY <2>3 DEF Fresh
  <2>4. Changes = {} => Changes' = {} /\ server' = server
    BY <1>1, <1>2, <1>4, <1>9 DEF Changes
  <2>5. QED
    BY <1>1, <1>11, <1>13, <2>1, <2>2, <2>3, <2>4 DEF PreviewOK
<1>16. /\ ~adminOpened' => adminCalls' = {}
       /\ \A x \in adminCalls' : x.op = "add" => x.row.name \in Name
       /\ section' = "grant" => preview' = None /\ Tests' = {}
  BY <1>1, <1>4, <1>13 DEF AdminInv
<1>17. QED
  BY <1>7, <1>10, <1>14, <1>15, <1>16 DEF AdminInv

\* A change has been carried out: the table is loaded again, alone or not, and
\* no preview is left.
LEMMA DoneKeeps ==
  ASSUME AdminInv, NEW c \in adminCalls, c.op \in {"add", "delete"},
         Admin!Done(c), UNCHANGED <<section, server, nextId, adminOpened, mixed>>
  PROVE  AdminInv'
<1>1. /\ adminCalls' = Admin!Sent(adminCalls \ {c}, "load", Admin!NoRow)
      /\ overlapped' = (Loads # {})
      /\ adminError' = (adminError /\ section = "rule")
      /\ preview' = None /\ UNCHANGED <<list, formError>>
  BY DEF Admin!Done, Admin!load, Admin!Of, Loads
<1>2. /\ adminCalls \ {c} \in SUBSET Admin!Call /\ IsFiniteSet(adminCalls \ {c})
      /\ Cardinality(adminCalls \ {c}) < MaxCalls
  <2>1. IsFiniteSet(adminCalls \ {c}) /\ Cardinality(adminCalls \ {c}) = Cardinality(adminCalls) - 1
    BY AdminTypes, FS_RemoveElement
  <2>2. QED
    BY <2>1, AdminTypes
<1>3. PICK d \in Admin!Call :
        /\ d.op = "load" /\ d.row = Admin!NoRow /\ d.reply = None
        /\ adminCalls' = (adminCalls \ {c}) \cup {d}
        /\ IsFiniteSet(adminCalls') /\ Cardinality(adminCalls') <= MaxCalls
  <2>1. "load" \in CallOp /\ Admin!NoRow \in CallRow
    BY DEF CallOp, CallRow
  <2>2. PICK d \in Admin!Call :
          /\ d.op = "load" /\ d.row = Admin!NoRow /\ d.reply = None
          /\ Admin!Sent(adminCalls \ {c}, "load", Admin!NoRow) = (adminCalls \ {c}) \cup {d}
          /\ IsFiniteSet((adminCalls \ {c}) \cup {d})
          /\ Cardinality((adminCalls \ {c}) \cup {d}) <= MaxCalls
    BY <1>2, <2>1, SentOK
  <2>3. QED
    BY <1>1, <2>2
<1>4. Loads' = Loads \cup {d} /\ Changes' = Changes \ {c} /\ Tests' = Tests
  BY <1>3 DEF Loads, Changes, Tests
<1>5. Admin!TypeOK'
  <2>1. adminError' \in BOOLEAN /\ overlapped' \in BOOLEAN
    BY <1>1, AdminTypes, Zenon
  <2>2. adminCalls' \subseteq Admin!Call
    BY <1>2, <1>3
  <2>3. QED
    BY <1>1, <1>3, <2>1, <2>2, AdminTypes, SameCardinality DEF Admin!TypeOK
<1>6. ListOK'
  <2>1. CASE Loads = {}
    <3>1. Loads' = {d} /\ Fresh(d)'
      BY <1>3, <1>4, <2>1 DEF Fresh
    <3>2. QED
      BY <3>1 DEF ListOK
  <2>2. CASE Loads # {}
    BY <1>1, <2>2 DEF ListOK
  <2>3. QED
    BY <2>1, <2>2
<1>7. PreviewOK'
  <2>1. c \in Changes
    BY DEF Changes
  <2>2. Tests' # {} => mixed'
    BY <1>4, <2>1 DEF AdminInv, PreviewOK
  <2>3. QED
    BY <1>1, <2>2 DEF PreviewOK
<1>8. /\ ~adminOpened' => adminCalls' = {}
      /\ \A x \in adminCalls' : x.op = "add" => x.row.name \in Name
      /\ section' = "grant" => preview' = None /\ Tests' = {}
  BY <1>1, <1>3, <1>4 DEF AdminInv
<1>9. QED
  BY <1>3, <1>5, <1>6, <1>7, <1>8 DEF AdminInv

\* What is left when a call is gone without another one in its place.
LEMMA CallGone ==
  ASSUME AdminInv, NEW c \in adminCalls, adminCalls' = adminCalls \ {c}
  PROVE  /\ IsFiniteSet(adminCalls') /\ Cardinality(adminCalls') <= MaxCalls
         /\ adminCalls' \subseteq Admin!Call
         /\ Loads' = Loads \ {c} /\ Changes' = Changes \ {c} /\ Tests' = Tests \ {c}
<1>1. IsFiniteSet(adminCalls \ {c}) /\ Cardinality(adminCalls \ {c}) = Cardinality(adminCalls) - 1
  BY AdminTypes, FS_RemoveElement
<1>2. QED
  BY <1>1, AdminTypes DEF Loads, Changes, Tests

\* The data of a load or a test is shown.
LEMMA ShowKeeps ==
  ASSUME AdminInv, NEW c \in adminCalls, c.op \in {"load", "test"},
         c.reply # None, c.reply.ok, Admin!Show(c),
         UNCHANGED <<section, server, nextId, adminOpened, mixed>>
  PROVE  AdminInv'
<1>1. /\ list' = IF c.op = "load" THEN c.reply.got ELSE list
      /\ preview' = IF c.op = "test" THEN c.reply.got ELSE preview
      /\ adminCalls' = adminCalls \ {c}
      /\ UNCHANGED <<adminError, formError, overlapped>>
  BY DEF Admin!Show
<1>2. c.reply.got \in SUBSET Admin!Row
  BY AdminTypes DEF Admin!Call
<1>3. Admin!TypeOK'
  BY <1>1, <1>2, AdminTypes, CallGone, SameCardinality DEF Admin!TypeOK
<1>4. Loads' = Loads \ {c} /\ Changes' = Changes /\ Tests' = Tests \ {c}
  BY <1>1, CallGone DEF Changes
<1>5. ListOK'
  <2>1. ListOK /\ (c.op = "load" => c \in Loads)
    BY DEF AdminInv, Loads
  <2>2. ASSUME adminOpened, Changes = {}, ~adminError, ~formError, ~overlapped
        PROVE  /\ \A x \in Loads' : Fresh(x)'
               /\ Loads' = {} => list' = server'
    <3>1. \A x \in Loads : Fresh(x)
      BY <2>1, <2>2 DEF ListOK
    <3>2. CASE c.op = "load"
      BY <1>1, <1>4, <2>1, <3>1, <3>2 DEF Fresh
    <3>3. CASE c.op = "test"
      <4>1. c \notin Loads /\ list' = list
        BY <1>1, <3>3 DEF Loads
      <4>2. QED
        BY <1>4, <2>1, <2>2, <3>1, <4>1 DEF Fresh, ListOK
    <3>4. QED
      BY <3>2, <3>3
  <2>3. QED
    BY <1>1, <1>4, <2>2 DEF ListOK
<1>6. PreviewOK'
  <2>1. PreviewOK /\ (c.op = "test" => c \in Tests)
    BY DEF AdminInv, Tests
  <2>2. CASE c.op = "test"
    <3>1. ~mixed => Changes = {} /\ Fresh(c) /\ \A x \in Tests : Fresh(x)
      BY <2>1, <2>2 DEF PreviewOK
    <3>2. preview' = c.reply.got
      BY <1>1, <2>2
    <3>3. QED
      BY <1>4, <3>1, <3>2 DEF PreviewOK, Fresh
  <2>3. CASE c.op = "load"
    <3>1. Tests' = Tests /\ preview' = preview
      BY <1>1, <1>4, <2>3 DEF Tests
    <3>2. QED
      BY <1>1, <1>4, <2>1, <3>1 DEF PreviewOK, Fresh
  <2>4. QED
    BY <2>2, <2>3
<1>7. /\ ~adminOpened' => adminCalls' = {}
      /\ \A x \in adminCalls' : x.op = "add" => x.row.name \in Name
      /\ section' = "grant" => preview' = None /\ Tests' = {}
  BY <1>1, <1>4 DEF AdminInv, Tests
<1>8. QED
  BY <1>1, <1>3, <1>5, <1>6, <1>7, CallGone DEF AdminInv

\* A call fails, and says so.
LEMMA FailsKeeps ==
  ASSUME AdminInv, NEW c \in adminCalls, Admin!Fails(c),
         UNCHANGED <<section, server, nextId, adminOpened, mixed>>
  PROVE  AdminInv'
<1>1. /\ adminCalls' = adminCalls \ {c} /\ UNCHANGED <<list, preview, overlapped>>
      /\ adminError' \in {adminError, TRUE} /\ formError' \in {formError, TRUE}
      /\ adminError' \/ formError'
      /\ ~(c.op = "add" /\ section = "grant") => adminError'
  BY DEF Admin!Fails
<1>2. Admin!TypeOK'
  <2>1. adminError' \in BOOLEAN /\ formError' \in BOOLEAN
    BY <1>1, AdminTypes
  <2>2. QED
    BY <1>1, <2>1, AdminTypes, CallGone, SameCardinality DEF Admin!TypeOK
<1>3. Loads' = Loads \ {c} /\ Changes' = Changes \ {c} /\ Tests' = Tests \ {c}
  BY <1>1, CallGone
<1>4. ListOK'
  BY <1>1 DEF ListOK
<1>5. PreviewOK'
  <2>1. PreviewOK
    BY DEF AdminInv
  <2>2. ~mixed /\ Tests' # {} => Changes' = {} /\ \A x \in Tests' : Fresh(x)'
    BY <1>3, <2>1 DEF PreviewOK, Fresh
  <2>3. CASE adminError'
    BY <2>2, <2>3 DEF PreviewOK
  <2>4. CASE section = "grant"
    BY <1>1, <2>2, <2>4 DEF AdminInv, PreviewOK
  <2>5. QED
    BY <1>1, <2>3, <2>4, AdminTypes
<1>6. /\ ~adminOpened' => adminCalls' = {}
      /\ \A x \in adminCalls' : x.op = "add" => x.row.name \in Name
      /\ section' = "grant" => preview' = None /\ Tests' = {}
  BY <1>1, <1>3 DEF AdminInv
<1>7. QED
  BY <1>1, <1>2, <1>4, <1>5, <1>6, CallGone DEF AdminInv

\* The page is opened, or left, with nothing loaded and nothing under way.
LEMMA AdminResetKeeps ==
  ASSUME NEW k \in {"grant", "rule"},
         NEW rows \in {{}} \cup {{[name |-> n, id |-> 1]} : n \in Name},
         Admin!Reset(k, rows)
  PROVE  AdminInv'
<1>1. adminCalls' = {} /\ IsFiniteSet(adminCalls') /\ Cardinality(adminCalls') = 0
  BY FS_EmptySet DEF Admin!Reset
<1>2. MaxRows \in Nat \ {0} /\ MaxCalls \in Nat
  BY UiAssumption DEF Admin!AdminPageAssumption
<1>3. Cardinality(rows) \in {0, 1} /\ MaxRows >= 1
  <2>1. rows = {} \/ \E n \in Name : rows = {[name |-> n, id |-> 1]}
    OBVIOUS
  <2>2. CASE rows = {}
    BY <1>2, <2>2, FS_EmptySet
  <2>3. ASSUME NEW n \in Name, rows = {[name |-> n, id |-> 1]}
        PROVE  Cardinality(rows) \in {0, 1} /\ MaxRows >= 1
    <3>1. Cardinality({[name |-> n, id |-> 1]}) = 1
      BY FS_Singleton
    <3>2. QED
      BY <1>2, <2>3, <3>1
  <2>4. QED
    BY <2>1, <2>2, <2>3
<1>4. rows \in SUBSET Admin!Row
  BY <1>2, <1>3 DEF Admin!Row
<1>5. /\ section' = k /\ server' = rows /\ nextId' = 1 + Cardinality(rows)
      /\ list' = {} /\ adminError' = FALSE /\ formError' = FALSE /\ preview' = None
      /\ adminOpened' = FALSE /\ overlapped' = FALSE /\ mixed' = FALSE
  BY SameCardinality DEF Admin!Reset
<1>6. Admin!TypeOK'
  <2>1. adminCalls' \subseteq Admin!Call /\ Admin!Cardinality(adminCalls') <= MaxCalls
    BY <1>1, <1>2, SameCardinality
  <2>2. nextId' \in 1..MaxRows + 1
    <3>1. 1 + Cardinality(rows) \in {1, 2}
      BY <1>3
    <3>2. QED
      BY <1>2, <1>3, <1>5, <3>1
  <2>3. QED
    BY <1>4, <1>5, <2>1, <2>2 DEF Admin!TypeOK
<1>7. QED
  BY <1>1, <1>5, <1>6 DEF AdminInv, ListOK, PreviewOK, Tests, Changes

\* Nothing happens on the admin page.
LEMMA AdminStands ==
  ASSUME AdminInv, UNCHANGED adminVars
  PROVE  AdminInv'
<1>1. UNCHANGED <<section, server, nextId, list, adminError, formError, preview, adminCalls,
                  adminOpened, overlapped, mixed>>
  BY DEF adminVars
<1>2. QED
  BY <1>1 DEF AdminInv, Admin!TypeOK, ListOK, PreviewOK, Changes, Loads, Tests, Fresh

\* The table is loaded when the page opens, and nothing is under way before.
LEMMA OpenKeeps ==
  ASSUME AdminInv, Admin!Open
  PROVE  AdminInv'
<1>1. /\ ~adminOpened /\ adminOpened' = TRUE /\ adminCalls = {}
      /\ adminCalls' = Admin!Sent(adminCalls, "load", Admin!NoRow)
      /\ UNCHANGED <<section, server, nextId, list, adminError, formError, preview,
                     overlapped, mixed>>
  BY DEF AdminInv, Admin!Open, Admin!shown, Admin!history
<1>2. PICK d \in Admin!Call :
        /\ d.op = "load" /\ d.row = Admin!NoRow /\ d.reply = None
        /\ adminCalls' = adminCalls \cup {d}
        /\ IsFiniteSet(adminCalls') /\ Cardinality(adminCalls') <= MaxCalls
  <2>1. "load" \in CallOp /\ Admin!NoRow \in CallRow
    BY DEF CallOp, CallRow
  <2>2. adminCalls \in SUBSET Admin!Call /\ IsFiniteSet(adminCalls)
        /\ Cardinality(adminCalls) < MaxCalls
    BY <1>1, FS_EmptySet, AdminTypes
  <2>3. PICK d \in Admin!Call :
          /\ d.op = "load" /\ d.row = Admin!NoRow /\ d.reply = None
          /\ Admin!Sent(adminCalls, "load", Admin!NoRow) = adminCalls \cup {d}
          /\ IsFiniteSet(adminCalls \cup {d}) /\ Cardinality(adminCalls \cup {d}) <= MaxCalls
    BY <2>1, <2>2, SentOK
  <2>4. QED
    BY <1>1, <2>3
<1>3. Loads' = {d} /\ Changes' = {} /\ Tests' = {}
  BY <1>1, <1>2 DEF Loads, Changes, Tests
<1>4. Admin!TypeOK'
  <2>1. adminCalls' \subseteq Admin!Call
    BY <1>1, <1>2
  <2>2. QED
    BY <1>1, <1>2, <2>1, AdminTypes, SameCardinality DEF Admin!TypeOK
<1>5. ListOK'
  BY <1>2, <1>3 DEF ListOK, Fresh
<1>6. PreviewOK'
  <2>1. Changes = {} /\ Tests = {}
    BY <1>1 DEF Changes, Tests
  <2>2. QED
    BY <1>1, <1>3, <2>1 DEF AdminInv, PreviewOK
<1>7. QED
  BY <1>1, <1>2, <1>3, <1>4, <1>5, <1>6 DEF AdminInv

\* The form of the grants is refused while a field is empty, without a call.
LEMMA RefusedFormKeeps ==
  ASSUME AdminInv, formError' = TRUE,
         UNCHANGED <<section, server, nextId, list, adminError, preview, adminCalls,
                     adminOpened, overlapped, mixed>>
  PROVE  AdminInv'
<1>1. Loads' = Loads /\ Changes' = Changes /\ Tests' = Tests
  BY DEF Loads, Changes, Tests
<1>2. Admin!TypeOK'
  BY AdminTypes, SameCardinality DEF Admin!TypeOK
<1>3. ListOK' /\ PreviewOK'
  BY <1>1 DEF AdminInv, ListOK, PreviewOK, Fresh
<1>4. QED
  BY <1>1, <1>2, <1>3 DEF AdminInv

\* Whatever the admin, fs_api and the network do.
LEMMA AdminKeeps ==
  ASSUME AdminInv, Admin!Next
  PROVE  AdminInv'
<1>1. CASE Admin!Open
  BY <1>1, OpenKeeps
<1>2. CASE Admin!Add
  <2>1. CASE /\ formError' = TRUE
             /\ UNCHANGED <<section, server, nextId, list, adminError, preview, adminCalls,
                            adminOpened, Admin!history>>
    BY <2>1, RefusedFormKeeps DEF Admin!history
  <2>2. ASSUME NEW n \in Name, Admin!Send("add", [name |-> n, id |-> 0]),
               formError' = FALSE, adminError' = (adminError /\ section = "grant")
        PROVE  AdminInv'
    <3>1. adminError' \in BOOLEAN /\ formError' \in BOOLEAN
      BY <2>2, AdminTypes, Zenon
    <3>2. [name |-> n, id |-> 0] \in CallRow /\ [name |-> n, id |-> 0].name \in Name
      BY DEF CallRow
    <3>3. QED
      BY <2>2, <3>1, <3>2, SendKeeps
  <2>3. QED
    BY <1>2, <2>1, <2>2 DEF Admin!Add
<1>3. CASE Admin!Delete
  <2>1. PICK r \in list : Admin!Send("delete", r)
    BY <1>3 DEF Admin!Delete
  <2>2. UNCHANGED <<adminError, formError>>
    BY <1>3 DEF Admin!Delete
  <2>3. r \in CallRow
    BY AdminTypes DEF CallRow
  <2>4. adminError' \in BOOLEAN /\ formError' \in BOOLEAN
    BY <2>2, AdminTypes
  <2>5. QED
    BY <2>1, <2>2, <2>3, <2>4, SendKeeps
<1>4. CASE Admin!Test
  <2>1. Admin!Send("test", Admin!NoRow) /\ section = "rule"
        /\ UNCHANGED <<adminError, formError>>
    BY <1>4 DEF Admin!Test
  <2>2. Admin!NoRow \in CallRow
    BY DEF CallRow
  <2>3. adminError' \in BOOLEAN /\ formError' \in BOOLEAN
    BY <2>1, AdminTypes
  <2>4. QED
    BY <2>1, <2>2, <2>3, SendKeeps
<1>5. CASE Admin!Serve
  BY <1>5, ServeKeeps
<1>6. CASE Admin!Land
  <2>1. PICK c \in adminCalls :
          /\ \/ /\ c.reply # None /\ c.reply.ok
                /\ IF c.op \in {"add", "delete"} THEN Admin!Done(c) ELSE Admin!Show(c)
             \/ Admin!Fails(c)
          /\ UNCHANGED <<section, server, nextId, adminOpened, mixed>>
    BY <1>6 DEF Admin!Land
  <2>2. c.op \notin {"add", "delete"} => c.op \in {"load", "test"}
    BY AdminTypes
  <2>3. QED
    BY <2>1, <2>2, DoneKeeps, ShowKeeps, FailsKeeps
<1>7. QED
  BY <1>1, <1>2, <1>3, <1>4, <1>5, <1>6 DEF Admin!Next

----------------------------------------------------------------------------
(* The search page                                                         *)

\* A query is sent, or refused on the spot: queries overlap only when it was
\* sent by what is not inert while one is under way.
LEMMA ExecuteKeeps ==
  ASSUME SearchInv, NEW q, Search!executeSearch(q), searchOpened',
         \/ Search!NotInert
         \/ Search!Inert /\ (~searching \/ ~searchOpened)
  PROVE  SearchInv'
<1>1. queries \in [last : BOOLEAN, old : Nat] /\ queries.last \in BOOLEAN /\ queries.old \in Nat
  BY DEF SearchInv
<1>2. CASE UNCHANGED <<results, searching, queries>>
  <2>1. overtaken' = overtaken
    BY <1>2 DEF Search!Inert, Search!NotInert
  <2>2. QED
    BY <1>2, <2>1 DEF SearchInv
<1>3. CASE /\ searching' = TRUE
           /\ queries' = [last |-> TRUE, old |-> queries.old + IF queries.last THEN 1 ELSE 0]
           /\ results' = IF results = "last" THEN "old" ELSE results
  <2>1. queries' \in [last : BOOLEAN, old : Nat]
    BY <1>1, <1>3
  <2>2. queries' = queries => queries.last /\ queries.old = queries'.old
    BY <1>1, <1>3
  <2>3. queries'.old = IF queries.last THEN queries.old + 1 ELSE queries.old
    BY <1>1, <1>3
  <2>4. ~overtaken' => queries'.old = 0
    <3>1. CASE queries' = queries
      BY <1>1, <2>2, <2>3, <3>1
    <3>2. CASE queries' # queries /\ Search!NotInert
      <4>1. ~overtaken' => ~queries.last /\ ~(queries.old > 0)
        BY <3>2, Zenon DEF Search!NotInert, Search!UnderWay
      <4>2. QED
        BY <1>1, <2>3, <4>1
    <3>3. CASE queries' # queries /\ Search!Inert
      <4>1. ~overtaken' => ~overtaken \/ (~queries.last /\ ~(queries.old > 0))
        BY <3>3, Zenon DEF Search!Inert, Search!UnderWay
      <4>2. ~overtaken => queries.old = 0 /\ (queries.last => searching)
        BY DEF SearchInv
      <4>3. ~searchOpened => ~queries.last /\ queries.old = 0
        BY DEF SearchInv
      <4>4. CASE ~searching \/ ~searchOpened
        BY <1>1, <2>3, <4>1, <4>2, <4>3, <4>4
      <4>5. CASE Search!NotInert
        <5>1. ~overtaken' => ~queries.last /\ ~(queries.old > 0)
          BY <3>3, <4>5, Zenon DEF Search!NotInert, Search!UnderWay
        <5>2. QED
          BY <1>1, <2>3, <5>1
      <4>6. QED
        BY <4>4, <4>5
    <3>4. QED
      BY <3>1, <3>2, <3>3
  <2>5. QED
    BY <1>3, <2>1, <2>4 DEF SearchInv
<1>4. QED
  BY <1>2, <1>3 DEF Search!executeSearch

\* The page is opened, or left, with nothing found and nothing under way.
LEMMA SearchResetKeeps ==
  ASSUME NEW s, Search!Reset(s)
  PROVE  SearchInv'
  BY DEF Search!Reset, SearchInv

\* Whatever the user and the server do on the search page.
LEMMA SearchKeeps ==
  ASSUME SearchInv, Search!Next
  PROVE  SearchInv'
<1>1. CASE Search!Open
  <2>1. CASE UNCHANGED <<form, Search!page>>
    BY <1>1, <2>1 DEF Search!Open, Search!page, SearchInv
  <2>2. CASE \E q : Search!executeSearch(q) /\ Search!Inert
    BY <1>1, <2>2, ExecuteKeeps DEF Search!Open
  <2>3. QED
    BY <1>1, <2>1, <2>2 DEF Search!Open
<1>2. CASE Search!Edit \/ Search!ShowText \/ Search!Paste
  BY <1>2 DEF Search!Edit, Search!ShowText, Search!Paste, Search!page, SearchInv
<1>3. CASE Search!RunSearch
  <2>1. searchOpened' /\ ~searching /\ Search!executeSearch(form) /\ Search!Inert
    BY <1>3 DEF Search!RunSearch
  <2>2. QED
    BY <2>1, ExecuteKeeps
<1>4. CASE Search!EnterSearch
  <2>1. searchOpened' /\ Search!executeSearch(form) /\ Search!NotInert
    BY <1>4 DEF Search!EnterSearch
  <2>2. QED
    BY <2>1, ExecuteKeeps
<1>5. CASE Search!loadQueryText
  <2>1. searchOpened' /\ Search!executeSearch(form') /\ Search!NotInert
    BY <1>5 DEF Search!loadQueryText
  <2>2. QED
    BY <2>1, ExecuteKeeps
<1>6. ASSUME NEW col, Search!sortByColumn(col) PROVE SearchInv'
  <2>1. searchOpened' /\ ~searching /\ Search!executeSearch(form') /\ Search!Inert
    BY <1>6 DEF Search!sortByColumn
  <2>2. QED
    BY <2>1, ExecuteKeeps
<1>7. CASE Search!Reply
  <2>1. queries \in [last : BOOLEAN, old : Nat]
    BY DEF SearchInv
  <2>2. /\ searching' = FALSE /\ UNCHANGED <<searchOpened, overtaken>>
    BY <1>7 DEF Search!Reply
  <2>3. CASE queries.last /\ queries' = [queries EXCEPT !.last = FALSE]
             /\ results' \in {"last", "none"}
    BY <2>1, <2>2, <2>3 DEF SearchInv
  <2>4. CASE queries.old > 0 /\ queries' = [queries EXCEPT !.old = @ - 1]
    <3>1. overtaken /\ searchOpened
      BY <2>1, <2>4 DEF SearchInv
    <3>2. queries' \in [last : BOOLEAN, old : Nat]
      BY <2>1, <2>4
    <3>3. QED
      BY <2>2, <3>1, <3>2 DEF SearchInv
  <2>5. QED
    BY <1>7, <2>3, <2>4 DEF Search!Reply, Search!Answered, Search!Failed
<1>8. QED
  BY <1>1, <1>2, <1>3, <1>4, <1>5, <1>6, <1>7 DEF Search!Next

\* Nothing happens on the search page.
LEMMA SearchStands ==
  ASSUME SearchInv, UNCHANGED searchVars
  PROVE  SearchInv'
  BY DEF SearchInv, searchVars

----------------------------------------------------------------------------
(* Theorems                                                                *)

\* From page to page: the page that is left is as new, the one that is opened
\* too.
LEMMA GoToKeeps ==
  ASSUME IInv, NEW r \in {"browser", "search", "admin"}, GoTo(r)
  PROVE  IInv'
<1>1. BrowserInv' /\ mounted' = (route' = "browser")
  <2>1. CASE r = "browser"
    <3>1. PICK p \in Path : Reset(p) /\ mounted' = TRUE
      BY <2>1 DEF GoTo, Mount
    <3>2. BrowserInv'
      BY <3>1, ResetKeeps DEF IInv
    <3>3. QED
      BY <2>1, <3>1, <3>2 DEF GoTo
  <2>2. CASE r # "browser" /\ route = "browser"
    <3>1. Reset(Home) /\ mounted' = FALSE /\ Home \in Path
      BY <2>2, BrowserAssumption DEF GoTo, Unmount
    <3>2. BrowserInv'
      BY <3>1, ResetKeeps DEF IInv
    <3>3. QED
      BY <2>2, <3>1, <3>2 DEF GoTo
  <2>3. CASE r # "browser" /\ route # "browser"
    <3>1. UNCHANGED vars
      BY <2>3 DEF GoTo
    <3>2. BrowserInv' /\ mounted' = mounted
      BY <3>1, BrowserStands DEF IInv, vars
    <3>3. QED
      BY <2>3, <3>2 DEF GoTo, IInv
  <2>4. QED
    BY <2>1, <2>2, <2>3
<1>2. SearchInv'
  BY SearchResetKeeps DEF GoTo, Search!Enter, Search!Leave
<1>3. AdminInv'
  <2>1. {} \in {{}} \cup {{[name |-> n, id |-> 1]} : n \in Name}
    OBVIOUS
  <2>2. QED
    BY <2>1, AdminResetKeeps DEF GoTo, Admin!Enter, Admin!Leave
<1>4. QED
  BY <1>1, <1>2, <1>3 DEF IInv

\* The strengthening is an invariant of the three pages.
THEOREM Inductive == UiSpec => []IInv
<1>1. UiInit => IInv
  <2> SUFFICES ASSUME UiInit PROVE IInv
    OBVIOUS
  <2>1. BrowserInv /\ mounted = (route = "browser")
    <3>1. calls = {} /\ IsFiniteSet(calls) /\ Cardinality(calls) = 0
      BY FS_EmptySet DEF UiInit, Init
    <3>2. calls \subseteq Call /\ Cardinality(calls) <= MaxCalls
      BY <3>1, BrowserAssumption
    <3>3. rendered \in [url : Path, entries : Path \cup {None}, selected : Path \cup {None}]
      BY DEF UiInit, Init
    <3>4. TypeOK
      BY <3>2, <3>3 DEF UiInit, Init, TypeOK
    <3>5. CallsOK /\ ShownOK
      BY <3>1 DEF UiInit, Init, CallsOK, ShownOK
    <3>6. QED
      BY <3>1, <3>4, <3>5 DEF BrowserInv, UiInit, Init
  <2>2. SearchInv
    BY DEF UiInit, Search!Init, SearchInv
  <2>3. AdminInv
    <3>1. MaxRows \in Nat \ {0} /\ MaxCalls \in Nat \ {0}
      BY UiAssumption DEF Admin!AdminPageAssumption
    <3>2. adminCalls = {} /\ IsFiniteSet(adminCalls) /\ Cardinality(adminCalls) = 0
      BY FS_EmptySet DEF UiInit, Admin!Init
    <3>3. server = {} /\ nextId = 1
      BY FS_EmptySet, SameCardinality DEF UiInit, Admin!Init
    <3>4. Admin!TypeOK
      <4>1. adminCalls \subseteq Admin!Call /\ Admin!Cardinality(adminCalls) <= MaxCalls
        BY <3>1, <3>2, SameCardinality
      <4>2. nextId \in 1..MaxRows + 1
        BY <3>1, <3>3
      <4>3. QED
        BY <3>3, <4>1, <4>2 DEF UiInit, Admin!Init, Admin!TypeOK
    <3>5. QED
      BY <3>2, <3>4 DEF UiInit, Admin!Init, AdminInv, ListOK, PreviewOK, Tests, Changes
  <2>4. QED
    BY <2>1, <2>2, <2>3 DEF IInv
<1>2. IInv /\ [UiNext]_uiVars => IInv'
  <2> SUFFICES ASSUME IInv, [UiNext]_uiVars PROVE IInv'
    OBVIOUS
  <2>1. CASE BrowserStep
    BY <2>1, BrowserKeeps, SearchStands, AdminStands DEF IInv, BrowserStep
  <2>2. CASE SearchStep
    BY <2>2, BrowserStands, SearchKeeps, AdminStands DEF IInv, SearchStep, vars
  <2>3. CASE AdminStep
    BY <2>3, BrowserStands, SearchStands, AdminKeeps DEF IInv, AdminStep, vars
  <2>4. ASSUME NEW r \in {"browser", "search", "admin"}, GoTo(r) PROVE IInv'
    BY <2>4, GoToKeeps
  <2>5. CASE UNCHANGED uiVars
    BY <2>5, BrowserStands, SearchStands, AdminStands DEF IInv, uiVars, vars
  <2>6. QED
    BY <2>1, <2>2, <2>3, <2>4, <2>5 DEF UiNext
<1>3. QED
  BY <1>1, <1>2, PTL DEF UiSpec

\* What is under way, and what is shown, is of the last thing asked for.
LEMMA HeldIsAsking ==
  ASSUME BrowserInv, NEW kind
  PROVE  UnderWay(kind) <=> Asking(kind)
  BY DEF BrowserInv, CallsOK, UnderWay, Asking

\* A reply that was superseded is never shown: not a listing, not an entry.
THEOREM SupersededRepliesNeverLand == UiSpec => []SupersededNeverLands
<1>1. IInv => SupersededNeverLands
  BY HeldIsAsking DEF IInv, BrowserInv, ShownOK, SupersededNeverLands
<1>2. QED
  BY <1>1, Inductive, PTL

\* A directory that is not in the index never shows the rows of another one
\* without an error, unless the user clicked on since.
THEOREM RefusalsAreShown == UiSpec => []RefusalIsShown
<1>1. IInv => RefusalIsShown
  BY HeldIsAsking DEF IInv, BrowserInv, ShownOK, RefusalIsShown
<1>2. QED
  BY <1>1, Inductive, PTL

\* The contents in the panel are of the directory it is about.
THEOREM PanelShowsItsOwn == UiSpec => []ChildrenBelong
<1>1. IInv => ChildrenBelong
  BY DEF IInv, BrowserInv, ShownOK, ChildrenBelong
<1>2. QED
  BY <1>1, Inductive, PTL

\* The table of the search page answers the query sent last, unless Load or
\* Enter let queries overlap.
THEOREM TableAnswersLastQuery == UiSpec => []AnswersLastAsked
<1>1. IInv => AnswersLastAsked
  BY DEF IInv, SearchInv, AnswersLastAsked, Search!AnswersLastAsked
<1>2. QED
  BY <1>1, Inductive, PTL

\* At rest and without an error, the table of the admin page is that of fs_api,
\* whatever was lost or came late, unless two loads overlapped.
THEOREM TableIsServers == UiSpec => []ListIsServers
<1>1. IInv => ListIsServers
  BY DEF IInv, AdminInv, ListOK, Changes, Loads, ListIsServers, Admin!ListIsServers
<1>2. QED
  BY <1>1, Inductive, PTL

\* At rest and without an error, what was tested holds under the rules of now,
\* unless the test overlapped with a change.
THEOREM PreviewsAreCurrent == UiSpec => []PreviewIsCurrent
<1>1. IInv => PreviewIsCurrent
  BY DEF IInv, AdminInv, PreviewOK, Changes, Tests, PreviewIsCurrent, Admin!PreviewIsCurrent
<1>2. QED
  BY <1>1, Inductive, PTL

----------------------------------------------------------------------------
(* The form of the search page, and its text                               *)

\* Strings, and those the code spells out: the provers do not know that these
\* are in STRING.
Operators ==
    {"contains", "equals", "starts_with", "ends_with", "regex", "regex_i", "gt", "lt"}
Word == STRING \cup Search!COLUMNS \cup Operators \cup Search!FILE_TYPES
             \cup {"", "2", "AND", "OR", "ASC", "DESC"}

\* SearchPage!TextRule and SearchPage!Text, of these.
TextRule == [field : Word, operator : Word, value : Word, connector : Word, negate : BOOLEAN]
Text == [rules : Seq(TextRule), sort_by : Word, order : Word, limit : Int, columns : SUBSET Word]

\* A condition the builder can hold: its field has its operator.
Condition ==
    {r \in [field : Search!FIELDS, operator : Word, value : Word,
            connector : {"AND", "OR"}, negate : BOOLEAN] :
       r.operator \in Search!ToSet(Search!operatorsFor(r.field))}

Form ==
    [rules : Seq(Condition) \ {<<>>}, sortBy : Search!SORT_OPTIONS, order : {"ASC", "DESC"},
     limit : 1..Search!MAX_LIMIT, columns : SUBSET Search!COLUMNS]

\* What the page holds is a form, and the text in the box is its text until it
\* is edited.
FormInv ==
    /\ form \in Form
    /\ text \in Text \cup {Search!NoText}
    /\ shown \in BOOLEAN /\ typed \in BOOLEAN
    /\ ~searchOpened => ~shown
    /\ shown /\ ~typed => text = Search!serializeQuery(form)

\* Fields and columns are words.
LEMMA FieldsAreNames == Search!FIELDS \subseteq Word /\ Search!COLUMNS \subseteq Word
BY DEF Word, Search!COLUMNS

\* Every field has operators, and every operator is one fs_api knows for the
\* kind of the field.
LEMMA OperatorsOfField ==
    ASSUME NEW f \in Word
    PROVE  /\ Search!operatorsFor(f)[1] \in Search!ToSet(Search!operatorsFor(f))
           /\ Search!operatorsFor(f)[1] \in Word
           /\ Search!ToSet(Search!operatorsFor(f)) \subseteq Word
           /\ Search!ToSet(Search!operatorsFor(f)) \subseteq
                IF Search!fieldKind(f) = "text"
                THEN {"contains", "equals", "starts_with", "ends_with", "regex", "regex_i"}
                ELSE {"equals", "gt", "lt"}
<1> DEFINE ops == Search!operatorsFor(f)
<1>0. Operators \subseteq Word
  BY DEF Word
<1>1. CASE Search!fieldKind(f) = "text"
  <2>1. ops = <<"contains", "equals", "starts_with", "ends_with", "regex", "regex_i">>
    BY <1>1 DEF Search!operatorsFor
  <2>2. Search!ToSet(ops) = {"contains", "equals", "starts_with", "ends_with", "regex", "regex_i"}
    BY <2>1 DEF Search!ToSet
  <2>3. Search!ToSet(ops) \subseteq Operators /\ ops[1] \in Search!ToSet(ops)
    BY <2>1, <2>2 DEF Operators
  <2>4. QED
    BY <1>1, <1>0, <2>2, <2>3
<1>2. CASE Search!fieldKind(f) = "timestamp"
  <2>1. ops = <<"gt", "lt", "equals">>
    BY <1>2 DEF Search!operatorsFor
  <2>2. Search!ToSet(ops) = {"gt", "lt", "equals"}
    BY <2>1 DEF Search!ToSet
  <2>3. Search!ToSet(ops) \subseteq Operators /\ ops[1] \in Search!ToSet(ops)
    BY <2>1, <2>2 DEF Operators
  <2>4. QED
    BY <1>2, <1>0, <2>2, <2>3
<1>3. CASE Search!fieldKind(f) = "fileType"
  <2>1. ops = <<"equals">>
    BY <1>3 DEF Search!operatorsFor
  <2>2. Search!ToSet(ops) = {"equals"}
    BY <2>1 DEF Search!ToSet
  <2>3. Search!ToSet(ops) \subseteq Operators /\ ops[1] \in Search!ToSet(ops)
    BY <2>1, <2>2 DEF Operators
  <2>4. QED
    BY <1>3, <1>0, <2>2, <2>3
<1>4. CASE Search!fieldKind(f) \notin {"text", "timestamp", "fileType"}
  <2>1. ops = <<"equals", "gt", "lt">>
    BY <1>4 DEF Search!operatorsFor
  <2>2. Search!ToSet(ops) = {"equals", "gt", "lt"}
    BY <2>1 DEF Search!ToSet
  <2>3. Search!ToSet(ops) \subseteq Operators /\ ops[1] \in Search!ToSet(ops)
    BY <2>1, <2>2 DEF Operators
  <2>4. QED
    BY <1>4, <1>0, <2>2, <2>3
<1>5. QED
  BY <1>1, <1>2, <1>3, <1>4

\* Limits are brought within their bounds, and the default is.
LEMMA Limits ==
    /\ Search!MAX_LIMIT \in Nat /\ 1 \in 1..Search!MAX_LIMIT
    /\ Search!DEFAULT_LIMIT \in 1..Search!MAX_LIMIT
BY DEF Search!MAX_LIMIT, Search!DEFAULT_LIMIT

LEMMA Clamped ==
    ASSUME NEW n \in Int, NEW d \in 1..Search!MAX_LIMIT
    PROVE  Search!clampLimit(n, d) \in 1..Search!MAX_LIMIT
BY Limits DEF Search!clampLimit

\* The conditions the builder makes, and changes.
LEMMA NewConditions ==
    /\ Search!newRule \in Condition
    /\ \A p \in Linked : Search!linkRule(p) \in Condition
<1>1. Search!ToSet(Search!operatorsFor("path")) =
        {"contains", "equals", "starts_with", "ends_with", "regex", "regex_i"}
  BY DEF Search!operatorsFor, Search!fieldKind, Search!OwnTimes, Search!DirTimes,
         Search!OtherNumbers, Search!ToSet
<1>2. "path" \in Search!FIELDS
  BY DEF Search!FIELDS, Search!TextFields
<1>3. Search!newRule \in Condition
  BY <1>1, <1>2 DEF Search!newRule, Condition, Word, Operators
<1>4. ASSUME NEW p \in Linked PROVE Search!linkRule(p) \in Condition
  <2>1. p \in Word
    BY UiAssumption DEF Search!SearchPageAssumption, Word
  <2>2. QED
    BY <1>1, <1>2, <2>1 DEF Search!linkRule, Search!newRule, Condition, Word, Operators
<1>5. QED
  BY <1>3, <1>4

LEMMA ChangedConditions ==
    ASSUME NEW r \in Condition
    PROVE  /\ \A f \in Search!FIELDS : Search!changeField(r, f) \in Condition
           /\ \A o \in Search!ToSet(Search!operatorsFor(r.field)) : [r EXCEPT !.operator = o] \in Condition
           /\ \A v \in Word : [r EXCEPT !.value = v] \in Condition
           /\ \A c \in {"AND", "OR"} : [r EXCEPT !.connector = c] \in Condition
           /\ [r EXCEPT !.negate = ~r.negate] \in Condition
<1>0. /\ r \in [field : Search!FIELDS, operator : Word, value : Word,
                connector : {"AND", "OR"}, negate : BOOLEAN]
      /\ r.operator \in Search!ToSet(Search!operatorsFor(r.field))
      /\ r.field \in Word
  BY FieldsAreNames DEF Condition
<1>1. ASSUME NEW f \in Search!FIELDS PROVE Search!changeField(r, f) \in Condition
  <2>1. /\ Search!operatorsFor(f)[1] \in Search!ToSet(Search!operatorsFor(f))
        /\ Search!operatorsFor(f)[1] \in Word
    BY FieldsAreNames, OperatorsOfField
  <2>2. QED
    BY ZenonT(30), <1>0, <2>1 DEF Search!changeField, Condition, Word
<1>2. ASSUME NEW o \in Search!ToSet(Search!operatorsFor(r.field))
      PROVE  [r EXCEPT !.operator = o] \in Condition
  <2>1. o \in Word
    BY <1>0, OperatorsOfField
  <2>2. QED
    BY <1>0, <2>1 DEF Condition
<1>3. ASSUME NEW v \in Word PROVE [r EXCEPT !.value = v] \in Condition
  BY <1>0 DEF Condition
<1>4. ASSUME NEW c \in {"AND", "OR"} PROVE [r EXCEPT !.connector = c] \in Condition
  BY <1>0 DEF Condition
<1>5. [r EXCEPT !.negate = ~r.negate] \in Condition
  BY <1>0 DEF Condition
<1>6. QED
  BY <1>1, <1>2, <1>3, <1>4, <1>5

\* A condition read from a text is one the builder can hold, and one it wrote
\* is read as it was.
LEMMA ParsedConditions ==
    /\ \A r \in TextRule :
         r.field \in Search!FIELDS => Search!parseRule(r) \in Condition
    /\ \A r \in Condition : Search!parseRule(r) = r
    /\ \A r \in Condition : r \in TextRule
<1>1. ASSUME NEW r \in TextRule, r.field \in Search!FIELDS
      PROVE  Search!parseRule(r) \in Condition
  <2>1. /\ Search!operatorsFor(r.field)[1] \in Search!ToSet(Search!operatorsFor(r.field))
        /\ Search!operatorsFor(r.field)[1] \in Word
    BY <1>1, FieldsAreNames, OperatorsOfField
  <2>2. QED
    BY <1>1, <2>1 DEF Search!parseRule, TextRule, Condition
<1>2. ASSUME NEW r \in Condition PROVE Search!parseRule(r) = r
  BY DEF Search!parseRule, Condition
<1>3. ASSUME NEW r \in Condition PROVE r \in TextRule
  BY FieldsAreNames DEF TextRule, Condition, Word
<1>4. QED
  BY <1>1, <1>2, <1>3

\* The text of a form is read back as the form.
LEMMA RoundTrip ==
    ASSUME NEW f \in Form
    PROVE  /\ Search!serializeQuery(f) \in Text
           /\ Search!Readable(Search!serializeQuery(f))
           /\ Search!parseQuery(Search!serializeQuery(f)) = f
<1>1. PICK t : t = Search!serializeQuery(f)
  OBVIOUS
<1>2. PICK n \in Nat : n = Len(f.rules) /\ DOMAIN f.rules = 1..n /\ f.rules \in [1..n -> Condition]
  BY LenProperties DEF Form
<1>3. n # 0
  BY <1>2, EmptySeq DEF Form
<1>4. \A r \in Condition :
        r = [field |-> r.field, operator |-> r.operator, value |-> r.value,
             connector |-> r.connector, negate |-> r.negate]
  BY DEF Condition
<1>5. /\ t.rules = f.rules /\ t.sort_by = f.sortBy /\ t.order = f.order
      /\ t.limit = f.limit /\ t.columns = f.columns
      /\ t = [rules |-> f.rules, sort_by |-> f.sortBy, order |-> f.order, limit |-> f.limit,
              columns |-> f.columns]
  BY ZenonT(30), <1>1, <1>2, <1>4 DEF Search!serializeQuery
<1>6. f.rules \in Seq(TextRule)
  <2>1. f.rules \in [1..n -> TextRule]
    BY <1>2, ParsedConditions
  <2>2. QED
    BY <1>2, <2>1, IsASeq
<1>7. /\ f.sortBy \in Search!SORT_OPTIONS /\ f.order \in {"ASC", "DESC"}
      /\ f.limit \in 1..Search!MAX_LIMIT /\ f.columns \subseteq Search!COLUMNS
      /\ f = [rules |-> f.rules, sortBy |-> f.sortBy, order |-> f.order, limit |-> f.limit,
              columns |-> f.columns]
  BY DEF Form
<1>8. t \in Text
  <2>1. f.sortBy \in Word
    BY <1>7, FieldsAreNames DEF Search!SORT_OPTIONS
  <2>2. f.columns \in SUBSET Word
    BY <1>7, FieldsAreNames DEF Search!COLUMNS
  <2>3. QED
    <3>1. f.order \in Word
      BY <1>7 DEF Word
    <3>2. f.limit \in Int
      BY <1>7, Limits
    <3>3. QED
      BY <1>5, <1>6, <2>1, <2>2, <3>1, <3>2 DEF Text
<1>9. Search!Readable(t)
  <2>1. \A i \in DOMAIN f.rules : f.rules[i].field \in Search!FIELDS
    BY <1>2 DEF Condition
  <2>2. f.rules # <<>>
    BY DEF Form
  <2>3. QED
    BY <1>5, <2>1, <2>2 DEF Search!Readable
<1>10. Search!parseQuery(t) = f
  <2>1. [i \in DOMAIN f.rules |-> Search!parseRule(f.rules[i])] = f.rules
    BY <1>2, ParsedConditions
  <2>2. Search!clampLimit(f.limit, Search!DEFAULT_LIMIT) = f.limit
    BY <1>7, Limits DEF Search!clampLimit
  <2>3. f.columns \cap Search!COLUMNS = f.columns
    BY <1>7
  <2>4. QED
    BY <1>5, <1>7, <2>1, <2>2, <2>3 DEF Search!parseQuery
<1>11. QED
  BY <1>1, <1>8, <1>9, <1>10

\* What a readable text holds is a form.
LEMMA ParsedIsForm ==
    ASSUME NEW t \in Text \cup {Search!NoText}, Search!Readable(t),
           NEW c \in SUBSET Search!COLUMNS
    PROVE  /\ [Search!parseQuery(t) EXCEPT
                 !.columns = Search!applyColumnKeys(c, Search!parseQuery(t).columns)] \in Form
<1>1. t \in Text /\ t.rules # <<>>
  BY DEF Search!Readable, Search!NoText
<1>2. PICK n \in Nat : n = Len(t.rules) /\ DOMAIN t.rules = 1..n
                       /\ t.rules \in [1..n -> TextRule]
  BY <1>1, LenProperties DEF Text
<1>3. PICK rules : rules = [i \in DOMAIN t.rules |-> Search!parseRule(t.rules[i])]
  OBVIOUS
<1>4. rules \in [1..n -> Condition]
  BY <1>2, <1>3, ParsedConditions DEF Search!Readable
<1>5. rules \in Seq(Condition) \ {<<>>}
  <2>1. n # 0
    BY <1>1, <1>2, EmptySeq DEF Text
  <2>2. rules \in Seq(Condition) /\ Len(rules) = n
    BY <1>2, <1>4, IsASeq, LenProperties
  <2>3. QED
    BY <2>1, <2>2, EmptySeq
<1>6. PICK q : q = Search!parseQuery(t)
  OBVIOUS
<1>7. q = [rules |-> rules,
           sortBy |-> IF t.sort_by \in Search!SORT_OPTIONS THEN t.sort_by ELSE "path",
           order |-> IF t.order = "DESC" THEN "DESC" ELSE "ASC",
           limit |-> Search!clampLimit(t.limit, Search!DEFAULT_LIMIT),
           columns |-> t.columns \cap Search!COLUMNS]
  BY <1>3, <1>6 DEF Search!parseQuery
<1>8. "path" \in Search!SORT_OPTIONS
  BY DEF Search!SORT_OPTIONS, Search!FIELDS, Search!TextFields
<1>9. Search!clampLimit(t.limit, Search!DEFAULT_LIMIT) \in 1..Search!MAX_LIMIT
  BY <1>1, Limits, Clamped DEF Text
<1>10. Search!applyColumnKeys(c, q.columns) \in SUBSET Search!COLUMNS
  BY DEF Search!applyColumnKeys
<1>11. [q EXCEPT !.columns = Search!applyColumnKeys(c, q.columns)] \in Form
  BY <1>5, <1>7, <1>8, <1>9, <1>10 DEF Form
<1>12. QED
  BY <1>6, <1>11

\* The effect keeps the text that of the form.
LEMMA TrackedKeeps ==
    ASSUME FormInv, form' \in Form, Search!Tracked, shown' \in BOOLEAN, searchOpened'
    PROVE  FormInv'
<1>1. PICK f \in Form : f = form'
  OBVIOUS
<1>2. Search!serializeQuery(f) \in Text
  BY RoundTrip
<1>3. text' = IF shown' THEN Search!serializeQuery(f) ELSE text
  BY <1>1 DEF Search!Tracked
<1>4. typed' = FALSE
  BY DEF Search!Tracked
<1>5. text' \in Text \cup {Search!NoText}
  BY <1>2, <1>3 DEF FormInv
<1>6. (shown /\ ~typed => text = Search!serializeQuery(form))'
  BY <1>1, <1>3
<1>7. QED
  BY <1>4, <1>5, <1>6 DEF FormInv

\* A form with other conditions.
LEMMA WithConditions ==
    ASSUME NEW f \in Form, NEW rules \in Seq(Condition), rules # <<>>
    PROVE  [f EXCEPT !.rules = rules] \in Form
BY DEF Form

\* Each edit of the builder leaves a form.
LEMMA UpdateIsForm ==
    ASSUME form \in Form, NEW i \in DOMAIN form.rules, Search!updateRule(i)
    PROVE  form' \in Form
<1>1. PICK n \in Nat : n = Len(form.rules) /\ DOMAIN form.rules = 1..n
                       /\ form.rules \in [1..n -> Condition] /\ form.rules # <<>>
  BY LenProperties DEF Form
<1>2. PICK r \in Condition : r = form.rules[i]
  BY <1>1
<1>3. ASSUME NEW c \in Condition, form' = [form EXCEPT !.rules = [form.rules EXCEPT ![i] = c]]
      PROVE  form' \in Form
  <2>1. [form.rules EXCEPT ![i] = c] \in [1..n -> Condition]
    BY <1>1
  <2>2. PICK rules : rules = [form.rules EXCEPT ![i] = c]
    OBVIOUS
  <2>3. rules \in Seq(Condition) /\ Len(rules) = n
    BY <1>1, <2>1, <2>2, IsASeq, LenProperties
  <2>4. rules # <<>>
    BY <1>1, <2>3, EmptySeq
  <2>5. QED
    BY <1>3, <2>2, <2>3, <2>4, WithConditions
<1>4. \A v \in Value \cup Search!FILE_TYPES : v \in Word
  BY UiAssumption DEF Search!SearchPageAssumption, Word
<1>5. Field \subseteq Search!FIELDS
  BY UiAssumption DEF Search!SearchPageAssumption
<1>6. CASE \E f \in Field :
             form' = [form EXCEPT !.rules = [form.rules EXCEPT ![i] = Search!changeField(r, f)]]
  BY <1>3, <1>5, <1>6, ChangedConditions
<1>7. CASE \E o \in Search!ToSet(Search!operatorsFor(r.field)) :
             form' = [form EXCEPT !.rules = [form.rules EXCEPT ![i] = [r EXCEPT !.operator = o]]]
  BY <1>3, <1>7, ChangedConditions
<1>8. CASE \E v \in Word :
             form' = [form EXCEPT !.rules = [form.rules EXCEPT ![i] = [r EXCEPT !.value = v]]]
  BY <1>3, <1>8, ChangedConditions
<1>9. CASE \E c \in {"AND", "OR"} :
             form' = [form EXCEPT !.rules = [form.rules EXCEPT ![i] = [r EXCEPT !.connector = c]]]
  BY <1>3, <1>9, ChangedConditions
<1>10. CASE form' = [form EXCEPT !.rules = [form.rules EXCEPT ![i] = [r EXCEPT !.negate = ~r.negate]]]
  BY <1>3, <1>10, ChangedConditions
<1>11. QED
  BY <1>2, <1>4, <1>6, <1>7, <1>8, <1>9, <1>10 DEF Search!updateRule, Search!WithRules

LEMMA RemovedIsForm ==
    ASSUME form \in Form, NEW i \in DOMAIN form.rules,
           Search!WithRules(Search!removeRule(form.rules, i))
    PROVE  form' \in Form
<1>1. PICK n \in Nat : n = Len(form.rules) /\ DOMAIN form.rules = 1..n
                       /\ form.rules \in Seq(Condition) /\ form.rules # <<>>
  BY LenProperties DEF Form
<1>2. PICK rules : /\ rules = Search!removeRule(form.rules, i)
                   /\ form' = [form EXCEPT !.rules = rules]
  BY DEF Search!WithRules
<1>3. CASE n = 1
  BY <1>1, <1>2, <1>3, WithConditions DEF Search!removeRule
<1>4. CASE n # 1
  <2>1. rules = SubSeq(form.rules, 1, i - 1) \o SubSeq(form.rules, i + 1, n)
    BY <1>1, <1>2, <1>4 DEF Search!removeRule, Search!RemoveAt
  <2>2. SubSeq(form.rules, 1, i - 1) \in Seq(Condition) /\ Len(SubSeq(form.rules, 1, i - 1)) = i - 1
    <3>1. \A j \in 1..i - 1 : form.rules[j] \in Condition
      BY <1>1, ElementOfSeq
    <3>2. QED
      BY <1>1, <3>1, SubSeqProperties
  <2>3. SubSeq(form.rules, i + 1, n) \in Seq(Condition) /\ Len(SubSeq(form.rules, i + 1, n)) = n - i
    <3>1. \A j \in i + 1..n : form.rules[j] \in Condition
      BY <1>1, ElementOfSeq
    <3>2. QED
      BY <1>1, <3>1, SubSeqProperties
  <2>4. rules \in Seq(Condition) /\ Len(rules) = n - 1
    <3>1. PICK s, u : s = SubSeq(form.rules, 1, i - 1) /\ u = SubSeq(form.rules, i + 1, n)
      OBVIOUS
    <3>2. s \in Seq(Condition) /\ u \in Seq(Condition) /\ Len(s) = i - 1 /\ Len(u) = n - i
      BY <2>2, <2>3, <3>1
    <3>3. s \o u \in Seq(Condition) /\ Len(s \o u) = Len(s) + Len(u)
      BY <3>2, ConcatProperties
    <3>4. rules = s \o u /\ i \in 1..n
      BY <1>1, <2>1, <3>1
    <3>5. Len(rules) = (i - 1) + (n - i)
      BY <3>2, <3>3, <3>4
    <3>6. (i - 1) + (n - i) = n - 1
      BY <3>4
    <3>7. QED
      BY <3>3, <3>4, <3>5, <3>6, Zenon
  <2>5. rules # <<>>
    <3>1. n - 1 # 0
      BY <1>1, <1>4
    <3>2. QED
      BY <2>4, <3>1, EmptySeq
  <2>6. QED
    BY <1>2, <2>4, <2>5, WithConditions
<1>5. QED
  BY <1>3, <1>4

LEMMA AddedIsForm ==
    ASSUME form \in Form, Search!WithRules(Search!addRule(form.rules))
    PROVE  form' \in Form
<1>1. form.rules \in Seq(Condition)
  BY DEF Form
<1>2. PICK rules : /\ rules = Append(form.rules, Search!newRule)
                   /\ form' = [form EXCEPT !.rules = rules]
  BY DEF Search!WithRules, Search!addRule
<1>3. rules \in Seq(Condition) /\ rules # <<>>
  BY <1>1, <1>2, NewConditions, AppendProperties
<1>4. QED
  BY <1>2, <1>3, WithConditions

\* A limit that is typed is brought within its bounds.
LEMMA TypedIsClamped == \A n \in TypedLimit : Search!clampLimit(n, 1) \in 1..Search!MAX_LIMIT
<1>1. \A n \in TypedLimit : n \in Nat
  BY UiAssumption, Zenon DEF Search!SearchPageAssumption
<1>2. \A n \in Nat : n \in Int
  OBVIOUS
<1>3. \A n \in TypedLimit : n \in Int
  BY <1>1, <1>2, Zenon
<1>4. QED
  BY <1>3, Limits, Clamped

LEMMA EditIsForm == ASSUME form \in Form, Search!Edit PROVE form' \in Form
<1> USE UiAssumption DEF Search!SearchPageAssumption
<1>1. CASE \E i \in DOMAIN form.rules :
             Search!updateRule(i) \/ Search!WithRules(Search!removeRule(form.rules, i))
  BY <1>1, UpdateIsForm, RemovedIsForm
<1>2. CASE Search!WithRules(Search!addRule(form.rules))
  BY <1>2, AddedIsForm
<1>3. CASE \E c \in SortChoice : form' = [form EXCEPT !.sortBy = c]
  BY <1>3 DEF Form
<1>4. CASE \E o \in {"ASC", "DESC"} : form' = [form EXCEPT !.order = o]
  BY <1>4 DEF Form
<1>5. CASE \E n \in TypedLimit : form' = [form EXCEPT !.limit = Search!clampLimit(n, 1)]
  <2>1. \A n \in TypedLimit : Search!clampLimit(n, 1) \in 1..Search!MAX_LIMIT
    BY TypedIsClamped
  <2>2. QED
    BY <1>5, <2>1 DEF Form
<1>6. CASE \E col \in ColumnChoice : Search!toggleColumn(col)
  <2>1. \A keys : Search!applyColumnKeys(form.columns, keys) \in SUBSET Search!COLUMNS
    BY DEF Search!applyColumnKeys, Form
  <2>2. PICK c \in SUBSET Search!COLUMNS : form' = [form EXCEPT !.columns = c]
    BY <1>6, <2>1 DEF Search!toggleColumn
  <2>3. QED
    BY <2>2 DEF Form
<1>7. QED
  BY <1>1, <1>2, <1>3, <1>4, <1>5, <1>6 DEF Search!Edit

\* The form of a page that has just been mounted.
LEMMA FirstIsForm ==
    ASSUME NEW c \in SUBSET Search!COLUMNS
    PROVE  [Search!FirstForm EXCEPT !.columns = c] \in Form /\ Search!FirstForm \in Form
<1>1. PICK rules : rules = <<Search!newRule>>
  OBVIOUS
<1>2. rules \in Seq(Condition) /\ rules # <<>>
  BY <1>1, NewConditions
<1>3. "path" \in Search!SORT_OPTIONS
  BY DEF Search!SORT_OPTIONS, Search!FIELDS, Search!TextFields
<1>4. Search!DEFAULT_COLUMNS \in SUBSET Search!COLUMNS
  BY DEF Search!DEFAULT_COLUMNS, Search!COLUMNS, Search!FIELDS, Search!TextFields,
         Search!OtherNumbers
<1>5. QED
  BY <1>1, <1>2, <1>3, <1>4, Limits DEF Search!FirstForm, Form

\* A page that is entered or left.
LEMMA FormResets == ASSUME NEW s, Search!Reset(s) PROVE FormInv'
<1>1. Search!loadColumns(s) \in SUBSET Search!COLUMNS
  BY DEF Search!loadColumns, Search!DEFAULT_COLUMNS, Search!COLUMNS, Search!FIELDS,
         Search!TextFields, Search!OtherNumbers
<1>2. form' \in Form
  BY <1>1, FirstIsForm DEF Search!Reset
<1>3. QED
  BY <1>2 DEF Search!Reset, FormInv

LEMMA SearchFormKeeps == ASSUME FormInv, Search!Next PROVE FormInv'
<1>0. form \in Form /\ shown \in BOOLEAN /\ typed \in BOOLEAN
  BY DEF FormInv
<1>1. CASE Search!Open
  <2>1. ~shown /\ UNCHANGED <<shown, text, typed>> /\ searchOpened'
    BY <1>1 DEF Search!Open, Search!box, FormInv
  <2>2. CASE UNCHANGED form
    BY <2>1, <2>2 DEF FormInv
  <2>3. CASE \E p \in Linked : form' = [form EXCEPT !.rules = <<Search!linkRule(p)>>]
    <3>1. PICK p \in Linked : form' = [form EXCEPT !.rules = <<Search!linkRule(p)>>]
      BY <2>3
    <3>2. PICK rules : rules = <<Search!linkRule(p)>>
      OBVIOUS
    <3>3. rules \in Seq(Condition) /\ rules # <<>>
      BY <3>2, NewConditions
    <3>4. form' \in Form
      BY <1>0, <3>1, <3>2, <3>3, WithConditions
    <3>5. QED
      BY <2>1, <3>4 DEF FormInv
  <2>4. QED
    BY <1>1, <2>2, <2>3 DEF Search!Open
<1>2. CASE Search!Edit
  <2>1. form' \in Form
    BY <1>0, <1>2, EditIsForm
  <2>2. Search!Tracked /\ shown' \in BOOLEAN /\ searchOpened'
    BY <1>0, <1>2 DEF Search!Edit, Search!Edited
  <2>3. QED
    BY <2>1, <2>2, TrackedKeeps
<1>3. CASE Search!ShowText
  <2>1. /\ form' \in Form /\ searchOpened' /\ shown' \in BOOLEAN
        /\ UNCHANGED form
    BY <1>0, <1>3 DEF Search!ShowText
  <2>2. CASE shown'
    BY <1>3, <2>1, <2>2, TrackedKeeps DEF Search!ShowText
  <2>3. CASE ~shown'
    BY <1>3, <2>1, <2>3 DEF Search!ShowText, FormInv
  <2>4. QED
    BY <2>2, <2>3
<1>4. CASE Search!Paste
  <2>1. Search!TextRule \subseteq TextRule
    BY DEF Search!TextRule, TextRule, Word
  <2>2. Search!Text \subseteq Text
    <3>1. Seq(Search!TextRule) \subseteq Seq(TextRule)
      BY <2>1, SeqMonotonic
    <3>2. QED
      BY <3>1 DEF Search!Text, Text, Word
  <2>3. text' \in Text \cup {Search!NoText}
    BY <1>4, <2>2, UiAssumption DEF Search!Paste, Search!SearchPageAssumption
  <2>4. QED
    BY <1>4, <2>3 DEF Search!Paste, Search!Edited, FormInv
<1>5. CASE Search!RunSearch \/ Search!EnterSearch \/ Search!Reply
  BY <1>5 DEF Search!RunSearch, Search!EnterSearch, Search!Reply, Search!box, FormInv
<1>6. CASE Search!loadQueryText
  <2>1. PICK t : t = text
    OBVIOUS
  <2>2. /\ t \in Text \cup {Search!NoText} /\ Search!Readable(t)
        /\ form' = [Search!parseQuery(t) EXCEPT
                      !.columns = Search!applyColumnKeys(form.columns, @)]
    BY <1>6, <2>1 DEF Search!loadQueryText, FormInv
  <2>3. form.columns \in SUBSET Search!COLUMNS
    BY <1>0 DEF Form
  <2>4. form' \in Form
    BY <2>2, <2>3, ParsedIsForm
  <2>5. Search!Tracked /\ shown' \in BOOLEAN /\ searchOpened'
    BY <1>0, <1>6 DEF Search!loadQueryText
  <2>6. QED
    BY <2>4, <2>5, TrackedKeeps
<1>7. CASE \E col \in ColumnChoice \cap form.columns : Search!sortByColumn(col)
  <2>1. PICK col \in ColumnChoice \cap form.columns : Search!sortByColumn(col)
    BY <1>7
  <2>2. col \in Search!COLUMNS /\ col # "permissions"
    BY <2>1, UiAssumption DEF Search!sortByColumn, Search!SearchPageAssumption
  <2>3. Search!sortKey(col) \in Search!SORT_OPTIONS
    BY <2>2 DEF Search!sortKey, Search!SORT_OPTIONS, Search!COLUMNS, Search!FIELDS,
                Search!OtherNumbers
  <2>4. form' \in Form
    BY <1>0, <2>1, <2>3 DEF Search!sortByColumn, Form
  <2>5. Search!Tracked /\ shown' \in BOOLEAN /\ searchOpened'
    BY <1>0, <2>1 DEF Search!sortByColumn
  <2>6. QED
    BY <2>4, <2>5, TrackedKeeps
<1>8. QED
  BY <1>1, <1>2, <1>3, <1>4, <1>5, <1>6, <1>7 DEF Search!Next

\* FormInv holds throughout, on whatever page the user is.
THEOREM InductiveForm == UiSpec => []FormInv
<1>1. UiInit => FormInv
  <2>1. Search!FirstForm \in Form
    BY FirstIsForm
  <2>2. QED
    BY <2>1 DEF UiInit, Search!Init, FormInv
<1>2. FormInv /\ [UiNext]_uiVars => FormInv'
  <2>1. ASSUME FormInv, UNCHANGED searchVars PROVE FormInv'
    BY <2>1 DEF searchVars, FormInv
  <2>2. CASE UNCHANGED uiVars
    BY <2>1, <2>2 DEF uiVars
  <2>3. CASE BrowserStep \/ AdminStep
    BY <2>1, <2>3 DEF BrowserStep, AdminStep
  <2>4. CASE SearchStep
    BY <2>4, SearchFormKeeps DEF SearchStep
  <2>5. CASE \E r \in {"browser", "search", "admin"} : GoTo(r)
    BY <2>5, FormResets DEF GoTo, Search!Enter, Search!Leave
  <2>6. QED
    BY <2>2, <2>3, <2>4, <2>5 DEF UiNext
<1>3. QED
  BY <1>1, <1>2, PTL DEF UiSpec

\* The text of a query is the query: it is what the builder shows until it is
\* edited, and loading it gives the same form.
THEOREM TextRoundTrips == UiSpec => []TextIsTheForm
<1>1. FormInv => TextIsTheForm
  BY RoundTrip DEF FormInv, TextIsTheForm, Search!TextIsTheForm
<1>2. QED
  BY <1>1, InductiveForm, PTL

\* Without of the page is that of SeqFilter.
LEMMA SearchWithout == ASSUME NEW s, NEW S PROVE Search!Without(s, S) = Without(s, S)
BY DEF Without, Search!Without, FoldLeft, Search!FoldLeft, MapThenFoldSet,
       Search!MapThenFoldSet, Max, Search!Max

\* Whatever was edited, pasted and loaded, fs_api takes the request as it is.
THEOREM QueriesAreTaken == UiSpec => []ServerTakesQuery
<1>1. ASSUME FormInv PROVE ServerTakesQuery
  <2> SUFFICES ASSUME Search!activeRules(form.rules) # <<>>
               PROVE  Search!ServerTakes(Search!Request(form))
    BY DEF ServerTakesQuery, Search!ServerTakesQuery
  <2>0. form \in Form
    BY <1>1 DEF FormInv
  <2>1. PICK rules : rules = Search!activeRules(form.rules)
    OBVIOUS
  <2>2. rules \in Seq(Condition)
    <3>1. form.rules \in Seq(Condition)
      BY <2>0 DEF Form
    <3>2. QED
      BY <2>1, <3>1, SearchWithout, WithoutSteps DEF Search!activeRules
  <2>3. ASSUME NEW i \in DOMAIN rules
        PROVE  rules[i].operator \in
                 IF Search!Numeric(rules[i].field) THEN {"equals", "not_equals", "gt", "lt"}
                 ELSE {"contains", "equals", "starts_with", "ends_with", "regex", "regex_i"}
    <3>1. PICK r \in Condition : r = rules[i]
      BY <2>2, ElementOfSeq, LenProperties
    <3>2. /\ r.field \in Search!FIELDS /\ r.field \in Word
          /\ r.operator \in Search!ToSet(Search!operatorsFor(r.field))
      BY FieldsAreNames DEF Condition
    <3>3. Search!fieldKind(r.field) = "text" <=> ~ Search!Numeric(r.field)
      BY <3>2 DEF Search!fieldKind, Search!Numeric, Search!FIELDS, Search!TextFields,
                  Search!OwnTimes, Search!DirTimes, Search!OtherNumbers
    <3>4. QED
      BY <3>1, <3>2, <3>3, OperatorsOfField
  <2>4. QED
    <3>1. PICK q : q = Search!Request(form)
      OBVIOUS
    <3>2. q.rules = rules /\ q.sort_by = form.sortBy /\ q.limit = form.limit
      BY <2>1, <3>1 DEF Search!Request
    <3>3. form.sortBy \in Search!SORT_OPTIONS /\ form.limit \in 1..Search!MAX_LIMIT
      BY <2>0 DEF Form
    <3>4. 1..Search!MAX_LIMIT = 1..Search!searchMaxLimit /\ q.rules # <<>>
      BY <2>1, <3>2 DEF Search!MAX_LIMIT, Search!searchMaxLimit
    <3>5. q.sort_by \in Search!SORT_OPTIONS /\ q.limit \in 1..Search!searchMaxLimit
      BY <3>2, <3>3, <3>4
    <3>6. \A i \in DOMAIN q.rules :
            q.rules[i].operator \in
                IF Search!Numeric(q.rules[i].field) THEN {"equals", "not_equals", "gt", "lt"}
                ELSE {"contains", "equals", "starts_with", "ends_with", "regex", "regex_i"}
      BY <2>3, <3>2
    <3>7. Search!ServerTakes(q)
      BY <3>4, <3>5, <3>6 DEF Search!ServerTakes
    <3>8. QED
      BY <3>1, <3>7
<1>2. QED
  BY <1>1, InductiveForm, PTL

----------------------------------------------------------------------------
(* The windows of long tables                                              *)

\* f adds up the heights hs from `from` to `to`.
Sums(f, hs, from, to) ==
    f = [i \in from..to |-> IF i = from THEN 0 ELSE f[i - 1] + height(hs[i - 1])]

\* There is such a function.
LEMMA SumExists ==
    ASSUME NEW hs, NEW from \in Nat, NEW to \in Nat, from <= to
    PROVE  \E f : Sums(f, hs, from, to)
<1> DEFINE P == {d \in Nat : \E f : Sums(f, hs, from, from + d)}
<1>1. 0 \in P
  <2>1. Sums([i \in from..(from + 0) |-> 0], hs, from, from + 0)
    BY DEF Sums
  <2>2. QED
    BY <2>1
<1>2. ASSUME NEW d \in P PROVE d + 1 \in P
  <2>0. PICK m \in Nat : m = from + d /\ from <= m /\ d \in Nat
    OBVIOUS
  <2>1. PICK f : m = from + d /\ Sums(f, hs, from, m) /\ from <= m /\ d \in Nat
    BY <2>0
  <2>2. PICK g : g = [i \in from..(m + 1) |-> IF i = m + 1 THEN f[m] + height(hs[m]) ELSE f[i]]
    OBVIOUS
  <2>3. g[m] = f[m] /\ \A i \in from..m : g[i] = f[i]
    BY <2>1, <2>2
  <2>4. ASSUME NEW i \in from..(m + 1)
        PROVE  g[i] = IF i = from THEN 0 ELSE g[i - 1] + height(hs[i - 1])
    <3>1. CASE i = m + 1
      <4>1. i # from /\ i - 1 = m
        BY <2>1, <3>1
      <4>2. QED
        BY <2>2, <2>3, <3>1, <4>1
    <3>2. CASE i # m + 1 /\ i = from
      <4>1. i \in from..m
        BY <2>1, <3>2
      <4>2. QED
        BY <2>1, <2>3, <3>2, <4>1 DEF Sums
    <3>3. CASE i # m + 1 /\ i # from
      <4>1. i \in from..m /\ i - 1 \in from..m
        BY <2>1, <3>3
      <4>2. f[i] = f[i - 1] + height(hs[i - 1])
        BY <2>1, <3>3, <4>1 DEF Sums
      <4>3. QED
        BY <2>3, <3>3, <4>1, <4>2
    <3>4. QED
      BY <3>1, <3>2, <3>3
  <2>5. Sums(g, hs, from, m + 1)
    BY <2>2, <2>4 DEF Sums
  <2>6. m + 1 = from + (d + 1) /\ d + 1 \in Nat
    BY <2>1
  <2>7. QED
    BY <2>5, <2>6
<1>3. P = Nat
  <2>1. P \in SUBSET Nat
    OBVIOUS
  <2> HIDE DEF P
  <2>2. QED
    BY <1>1, <1>2, <2>1, NumberInduction
<1>4. PICK d \in Nat : to = from + d
  <2>1. to - from \in Nat /\ to = from + (to - from)
    OBVIOUS
  <2>2. QED
    BY <2>1
<1>5. d \in P
  <2> HIDE DEF P
  <2>1. QED
    BY <1>3
<1>6. QED
  BY <1>4, <1>5

\* Two of them agree as far as both go.
LEMMA SumsAgree ==
    ASSUME NEW hs, NEW from \in Nat, NEW to \in Nat, NEW end \in Nat, from <= to, to <= end,
           NEW f, NEW g, Sums(f, hs, from, to), Sums(g, hs, from, end)
    PROVE  f[to] = g[to]
<1> DEFINE P == {d \in Nat : from + d <= to => f[from + d] = g[from + d]}
<1>1. 0 \in P
  <2>1. from \in from..to /\ from \in from..end /\ from + 0 = from
    OBVIOUS
  <2>2. f[from] = 0 /\ g[from] = 0
    BY <2>1 DEF Sums
  <2>3. QED
    BY <2>1, <2>2
<1>2. ASSUME NEW d \in P PROVE d + 1 \in P
  <2>1. PICK m \in Nat : m = from + d /\ (m <= to => f[m] = g[m]) /\ m + 1 = from + (d + 1) /\ d + 1 \in Nat
    OBVIOUS
  <2>2. ASSUME m + 1 <= to PROVE f[m + 1] = g[m + 1]
    <3>1. m + 1 \in from..to /\ m + 1 \in from..end /\ m + 1 # from /\ m + 1 - 1 = m /\ m <= to
      BY <2>1, <2>2
    <3>2. f[m + 1] = f[m] + height(hs[m]) /\ g[m + 1] = g[m] + height(hs[m])
      BY <3>1 DEF Sums
    <3>3. QED
      BY <2>1, <3>1, <3>2
  <2>3. QED
    BY <2>1, <2>2
<1>3. P = Nat
  <2>1. P \in SUBSET Nat
    OBVIOUS
  <2> HIDE DEF P
  <2>2. QED
    BY <1>1, <1>2, <2>1, NumberInduction
<1>4. PICK d \in Nat : to = from + d
  <2>1. to - from \in Nat /\ to = from + (to - from)
    OBVIOUS
  <2>2. QED
    BY <2>1
<1>5. d \in P
  <2> HIDE DEF P
  <2>1. QED
    BY <1>3
<1>6. QED
  BY <1>4, <1>5

\* The sum is what such a function ends in.
LEMMA SumIs ==
    ASSUME NEW hs, NEW from \in Nat, NEW to \in Nat, from <= to
    PROVE  \E f : Sums(f, hs, from, to) /\ sum(hs, from, to) = f[to]
<1>1. \E f : Sums(f, hs, from, to)
  BY SumExists
<1>2. sum(hs, from, to)
        = (CHOOSE f : f = [i \in from..to |-> IF i = from THEN 0 ELSE f[i - 1] + height(hs[i - 1])])[to]
  BY DEF sum
<1>3. QED
  BY <1>1, <1>2 DEF Sums

\* One more row is its height more.
LEMMA SumSteps ==
    ASSUME NEW hs, NEW from \in Nat, NEW to \in Nat, from <= to
    PROVE  /\ sum(hs, from, from) = 0
           /\ sum(hs, from, to + 1) = sum(hs, from, to) + height(hs[to])
<1>1. sum(hs, from, from) = 0
  <2>1. PICK f : Sums(f, hs, from, from) /\ sum(hs, from, from) = f[from]
    BY SumIs
  <2>2. from \in from..from
    OBVIOUS
  <2>3. QED
    BY <2>1, <2>2 DEF Sums
<1>2. sum(hs, from, to + 1) = sum(hs, from, to) + height(hs[to])
  <2>1. PICK g : Sums(g, hs, from, to + 1) /\ sum(hs, from, to + 1) = g[to + 1]
    BY SumIs
  <2>2. PICK f : Sums(f, hs, from, to) /\ sum(hs, from, to) = f[to]
    BY SumIs
  <2>3. f[to] = g[to]
    BY <2>1, <2>2, SumsAgree
  <2>4. to + 1 \in from..(to + 1) /\ to + 1 # from /\ to + 1 - 1 = to
    OBVIOUS
  <2>5. g[to + 1] = g[to] + height(hs[to])
    BY <2>1, <2>4 DEF Sums
  <2>6. QED
    BY <2>1, <2>2, <2>3, <2>5
<1>3. QED
  BY <1>1, <1>2

\* What is known of rows: nothing, or a height that is at least the estimate.
Heights == {h \in [Row -> Nat] : \A i \in Row : h[i] = 0 \/ h[i] >= estimateHeight}

\* Sums are numbers, they are at least the estimates, and the rows may be added
\* up in two parts.
LEMMA SumIsNat ==
    ASSUME NEW hs \in Heights, NEW from \in Nat, NEW d \in Nat, from + d <= MaxCount
    PROVE  sum(hs, from, from + d) \in Nat
<1> DEFINE P == {k \in Nat : k <= d => sum(hs, from, from + k) \in Nat}
<1>1. 0 \in P
  <2>1. sum(hs, from, from) = 0 /\ from + 0 = from
    BY SumSteps
  <2>2. QED
    BY <2>1
<1>2. ASSUME NEW k \in P PROVE k + 1 \in P
  <2>1. PICK m \in Nat : /\ m = from + k /\ m + 1 = from + (k + 1) /\ from <= m
                         /\ k \in Nat /\ k + 1 \in Nat /\ (k <= d => sum(hs, from, m) \in Nat)
    <3>1. k \in Nat /\ (k <= d => sum(hs, from, from + k) \in Nat)
      OBVIOUS
    <3>2. PICK m \in Nat : m = from + k
      BY <3>1
    <3>3. QED
      BY <3>1, <3>2
  <2>2. ASSUME k + 1 <= d PROVE sum(hs, from, m + 1) \in Nat
    <3>1. m \in Row /\ k <= d
      BY <2>1, <2>2, RowsAssumption DEF Row
    <3>2. height(hs[m]) \in Nat
      BY <3>1, RowsAssumption DEF Heights, height
    <3>3. sum(hs, from, m + 1) = sum(hs, from, m) + height(hs[m])
      BY <2>1, SumSteps
    <3>4. QED
      BY <2>1, <3>1, <3>2, <3>3
  <2>3. QED
    BY <2>1, <2>2
<1>3. P = Nat
  <2>1. P \in SUBSET Nat
    OBVIOUS
  <2> HIDE DEF P
  <2>2. QED
    BY <1>1, <1>2, <2>1, NumberInduction
<1>4. d \in P
  <2> HIDE DEF P
  <2>1. QED
    BY <1>3
<1>5. QED
  BY <1>4

\* The sum up to a row, as long as there are rows.
LEMMA SumType ==
    ASSUME NEW hs \in Heights, NEW from \in Nat, NEW to \in Nat, from <= to, to <= MaxCount
    PROVE  sum(hs, from, to) \in Nat
<1>1. PICK d \in Nat : to = from + d
  <2>1. to - from \in Nat /\ to = from + (to - from)
    OBVIOUS
  <2>2. QED
    BY <2>1
<1>2. QED
  BY <1>1, SumIsNat

\* k more rows are at least as high as estimated.
LEMMA SumGrows ==
    ASSUME NEW hs \in Heights, NEW to \in Nat, NEW k \in Nat, to + k <= MaxCount
    PROVE  sum(hs, 0, to) + k * estimateHeight <= sum(hs, 0, to + k)
<1> DEFINE P == {d \in Nat : d <= k => sum(hs, 0, to) + d * estimateHeight <= sum(hs, 0, to + d)}
<1>0. PICK e \in Nat, b \in Nat : e = estimateHeight /\ b = sum(hs, 0, to)
  <2>1. sum(hs, 0, to) \in Nat
    BY RowsAssumption, SumType
  <2>2. QED
    BY <2>1, RowsAssumption
<1>1. 0 \in P
  <2>1. to + 0 = to /\ b + 0 * e <= b
    BY <1>0
  <2>2. QED
    BY <1>0, <2>1
<1>2. ASSUME NEW d \in P PROVE d + 1 \in P
  <2>0. d \in Nat /\ (d <= k => sum(hs, 0, to) + d * estimateHeight <= sum(hs, 0, to + d))
    OBVIOUS
  <2>1. PICK m \in Nat : m = to + d /\ m + 1 = to + (d + 1)
    BY <2>0
  <2>2. ASSUME d + 1 <= k PROVE b + (d + 1) * e <= sum(hs, 0, m + 1)
    <3>1. m \in Row /\ d <= k /\ m <= MaxCount
      BY <2>0, <2>1, <2>2, RowsAssumption DEF Row
    <3>2. PICK h \in Nat : h = height(hs[m]) /\ h >= e
      BY <1>0, <3>1, RowsAssumption DEF Heights, height
    <3>3. sum(hs, 0, m + 1) = sum(hs, 0, m) + h
      <4>1. 0 \in Nat /\ 0 <= m
        OBVIOUS
      <4>2. sum(hs, 0, m + 1) = sum(hs, 0, m) + height(hs[m])
        BY <4>1, SumSteps
      <4>3. QED
        BY <3>2, <4>2
    <3>4. PICK s \in Nat : s = sum(hs, 0, m)
      BY <3>1, SumType
    <3>5. b + d * e <= s
      BY <1>0, <2>0, <2>1, <3>1, <3>4
    <3>6. (d + 1) * e = d * e + e /\ d * e \in Nat
      BY <2>0
    <3>7. QED
      BY <3>2, <3>3, <3>4, <3>5, <3>6
  <2>3. QED
    BY <1>0, <2>0, <2>1, <2>2
<1>3. P = Nat
  <2>1. P \in SUBSET Nat
    OBVIOUS
  <2> HIDE DEF P
  <2>2. QED
    BY <1>1, <1>2, <2>1, NumberInduction
<1>4. k \in P
  <2> HIDE DEF P
  <2>1. QED
    BY <1>3
<1>5. QED
  BY <1>4

\* The sum of the first rows, and that it only grows.
LEMMA SumUpTo ==
    ASSUME NEW hs \in Heights, NEW to \in Nat, to <= MaxCount
    PROVE  sum(hs, 0, to) \in Nat
<1>1. 0 \in Nat /\ 0 <= to
  OBVIOUS
<1>2. QED
  BY <1>1, SumType

LEMMA SumMonotone ==
    ASSUME NEW hs \in Heights, NEW a \in Nat, NEW b \in Nat, a <= b, b <= MaxCount
    PROVE  sum(hs, 0, a) <= sum(hs, 0, b)
<1>1. PICK k \in Nat : b = a + k
  <2>1. b - a \in Nat /\ b = a + (b - a)
    OBVIOUS
  <2>2. QED
    BY <2>1
<1>2. sum(hs, 0, a) + k * estimateHeight <= sum(hs, 0, a + k)
  BY <1>1, SumGrows
<1>3. PICK x \in Nat, s \in Nat, t \in Nat : x = k * estimateHeight /\ s = sum(hs, 0, a) /\ t = sum(hs, 0, b)
  <2>1. a <= MaxCount /\ k * estimateHeight \in Nat
    BY RowsAssumption
  <2>2. sum(hs, 0, a) \in Nat /\ sum(hs, 0, b) \in Nat
    BY <2>1, SumUpTo
  <2>3. QED
    BY <2>1, <2>2
<1>4. QED
  BY <1>1, <1>2, <1>3

\* Rows as high as measured or estimated, up to the first that is drawn, and the
\* drawn ones as high as they are: together at least what was computed.
LEMMA SumAbove ==
    ASSUME NEW hs \in Heights, NEW hh \in Heights, \A i \in Row : height(hs[i]) <= height(hh[i]),
           NEW start \in Nat, NEW end \in Nat, start <= end, end <= MaxCount
    PROVE  sum(hs, 0, end) <= sum(hs, 0, start) + sum(hh, start, end)
<1> DEFINE P == {d \in Nat : start + d <= end =>
                    sum(hs, 0, start + d) <= sum(hs, 0, start) + sum(hh, start, start + d)}
<1>0. PICK b \in Nat : b = sum(hs, 0, start)
  BY RowsAssumption, SumType
<1>1. 0 \in P
  <2>1. start + 0 = start /\ sum(hh, start, start) = 0
    BY SumSteps
  <2>2. QED
    BY <1>0, <2>1
<1>2. ASSUME NEW d \in P PROVE d + 1 \in P
  <2>0. d \in Nat /\ (start + d <= end =>
            sum(hs, 0, start + d) <= sum(hs, 0, start) + sum(hh, start, start + d))
    OBVIOUS
  <2>1. PICK m \in Nat : m = start + d /\ m + 1 = start + (d + 1) /\ start <= m
    BY <2>0
  <2>2. ASSUME m + 1 <= end PROVE sum(hs, 0, m + 1) <= b + sum(hh, start, m + 1)
    <3>1. m \in Row /\ m <= end /\ m <= MaxCount
      BY <2>1, <2>2, RowsAssumption DEF Row
    <3>2. PICK h \in Nat, g \in Nat : h = height(hs[m]) /\ g = height(hh[m]) /\ h <= g
      BY <3>1, RowsAssumption DEF Heights, height
    <3>3. sum(hs, 0, m + 1) = sum(hs, 0, m) + h /\ sum(hh, start, m + 1) = sum(hh, start, m) + g
      <4>1. 0 \in Nat /\ 0 <= m
        OBVIOUS
      <4>2. sum(hs, 0, m + 1) = sum(hs, 0, m) + height(hs[m])
        BY <4>1, SumSteps
      <4>3. sum(hh, start, m + 1) = sum(hh, start, m) + height(hh[m])
        BY <2>1, SumSteps
      <4>4. QED
        BY <3>2, <4>2, <4>3
    <3>4. PICK s \in Nat, t \in Nat : s = sum(hs, 0, m) /\ t = sum(hh, start, m)
      BY <2>1, <3>1, SumType
    <3>5. s <= b + t
      BY <1>0, <2>0, <2>1, <3>1, <3>4
    <3>6. QED
      BY <3>2, <3>3, <3>4, <3>5
  <2>3. QED
    BY <1>0, <2>0, <2>1, <2>2
<1>3. P = Nat
  <2>1. P \in SUBSET Nat
    OBVIOUS
  <2> HIDE DEF P
  <2>2. QED
    BY <1>1, <1>2, <2>1, NumberInduction
<1>4. PICK d \in Nat : end = start + d
  <2>1. end - start \in Nat /\ end = start + (end - start)
    OBVIOUS
  <2>2. QED
    BY <2>1
<1>5. d \in P
  <2> HIDE DEF P
  <2>1. QED
    BY <1>3
<1>6. QED
  BY <1>4, <1>5

\* A set of numbers that is not empty has its least.
LEMMA MinIsThere ==
    ASSUME NEW S \in SUBSET Nat, S # {}
    PROVE  Min(S) \in S /\ \A y \in S : Min(S) <= y
<1>1. PICK x \in S : \A y \in S : ~ (<<y, x>> \in OpToRel(<, Nat))
  BY NatLessThanWellFounded, WFMin
<1>2. ASSUME NEW y \in S PROVE x <= y
  <2>1. x \in Nat /\ y \in Nat
    OBVIOUS
  <2>2. ~ (y < x)
    BY <1>1, <2>1 DEF OpToRel
  <2>3. QED
    BY <2>1, <2>2
<1>3. QED
  BY <1>2 DEF Min

\* The least and the greatest of two numbers.
LEMMA MinMaxOfTwo ==
    ASSUME NEW a \in Int, NEW b \in Int
    PROVE  /\ Min({a, b}) \in {a, b} /\ Min({a, b}) <= a /\ Min({a, b}) <= b
           /\ Max({a, b}) \in {a, b} /\ Max({a, b}) >= a /\ Max({a, b}) >= b
<1>1. \E x \in {a, b} : \A y \in {a, b} : x <= y
  OBVIOUS
<1>2. \E x \in {a, b} : \A y \in {a, b} : x >= y
  OBVIOUS
<1>3. Min({a, b}) \in {a, b} /\ \A y \in {a, b} : Min({a, b}) <= y
  BY <1>1 DEF Min
<1>4. Max({a, b}) \in {a, b} /\ \A y \in {a, b} : Max({a, b}) >= y
  BY <1>2 DEF Max
<1>5. QED
  BY <1>3, <1>4

\* What compute gives: above the first row drawn there are overscan rows, or
\* none, out of view; and below the last the same.
LEMMA ComputeIs ==
    ASSUME NEW n \in 0..MaxCount, NEW hs \in Heights, NEW top \in Int, NEW a \in Int, NEW v \in Int
    PROVE  \E s \in 0..n, e \in 0..n :
              /\ compute(n, hs, top, a, v)
                   = [start |-> Max({0, s - overscan}), end |-> Min({n, e + overscan})]
              /\ s <= e
              /\ s = 0 \/ sum(hs, 0, s) < top - a
              /\ e = n \/ sum(hs, 0, e) >= top - a + v
<1> DEFINE S == {s \in 0..n : s = n \/ sum(hs, 0, s + 1) >= top - a}
           E(s) == {e \in s..n : e = n \/ sum(hs, 0, e) >= top - a + v}
<1>0. n \in Nat /\ n <= MaxCount
  BY RowsAssumption
<1>1. PICK s : s = Min(S) /\ s \in S /\ \A y \in S : s <= y
  <2>1. S \in SUBSET Nat /\ n \in S
    BY <1>0
  <2> HIDE DEF S
  <2>2. QED
    BY <2>1, MinIsThere
<1>2. PICK e : e = Min(E(s)) /\ e \in E(s)
  <2>1. E(s) \in SUBSET Nat /\ n \in E(s)
    BY <1>0, <1>1
  <2> HIDE DEF E
  <2>2. QED
    BY <2>1, MinIsThere
<1>3. s \in 0..n /\ e \in 0..n /\ s <= e /\ (e = n \/ sum(hs, 0, e) >= top - a + v)
  BY <1>0, <1>1, <1>2
<1>4. s = 0 \/ sum(hs, 0, s) < top - a
  <2> SUFFICES ASSUME s # 0 PROVE sum(hs, 0, s) < top - a
    OBVIOUS
  <2>1. PICK p \in 0..n : p = s - 1 /\ p + 1 = s /\ p < s
    <3>1. s - 1 \in 0..n /\ s - 1 + 1 = s /\ s - 1 < s
      BY <1>0, <1>3
    <3>2. QED
      BY <3>1
  <2>2. p \notin S
    <3>1. ~ (s <= p)
      BY <1>0, <1>3, <2>1
    <3> HIDE DEF S
    <3>2. QED
      BY <1>1, <3>1
  <2>3. ~ (sum(hs, 0, s) >= top - a)
    BY <2>1, <2>2
  <2>4. sum(hs, 0, s) \in Nat
    <3>1. 0 \in Nat /\ s \in Nat /\ 0 <= s /\ s <= MaxCount /\ MaxCount \in Nat
      BY <1>0, <1>3, RowsAssumption
    <3>2. QED
      BY <3>1, SumType
  <2>5. QED
    BY <2>3, <2>4
<1>5. compute(n, hs, top, a, v) = [start |-> Max({0, s - overscan}), end |-> Min({n, e + overscan})]
  BY <1>1, <1>2 DEF compute
<1>6. QED
  BY <1>3, <1>4, <1>5

Ranges == [start : Nat, end : Nat]

\* So it is a range of rows.
LEMMA ComputeType ==
    ASSUME NEW n \in 0..MaxCount, NEW hs \in Heights, NEW top \in Int, NEW a \in Int, NEW v \in Int
    PROVE  compute(n, hs, top, a, v) \in Ranges
<1>1. PICK s \in 0..n, e \in 0..n :
          /\ compute(n, hs, top, a, v)
               = [start |-> Max({0, s - overscan}), end |-> Min({n, e + overscan})]
          /\ s <= e
          /\ s = 0 \/ sum(hs, 0, s) < top - a
          /\ e = n \/ sum(hs, 0, e) >= top - a + v
  BY ComputeIs
<1>2. PICK x \in Int, y \in Nat : x = s - overscan /\ y = e + overscan /\ n \in Nat /\ 0 \in Int
  <2>1. s - overscan \in Int /\ e + overscan \in Nat /\ n \in Nat
    BY RowsAssumption
  <2>2. QED
    BY <2>1
<1>3. Max({0, x}) \in {0, x} /\ Max({0, x}) >= 0
  BY <1>2, MinMaxOfTwo
<1>4. Min({n, y}) \in {n, y}
  <2>1. n \in Int /\ y \in Int
    BY <1>2
  <2>2. QED
    BY <2>1, MinMaxOfTwo
<1>5. Max({0, x}) \in Nat /\ Min({n, y}) \in Nat
  BY <1>2, <1>3, <1>4
<1>6. QED
  BY <1>1, <1>2, <1>5 DEF Ranges

\* What is drawn of n rows: a part of them, between spacers.
Windows(n) == {d \in [start : Nat, end : Nat, padTop : Nat, padBottom : Nat] : d.start <= d.end /\ d.end <= n}

LEMMA DrawnIs ==
    ASSUME NEW n \in 0..MaxCount, NEW r \in Ranges, NEW hs \in Heights
    PROVE  /\ Drawn(n, r, hs) \in Windows(n)
           /\ ~ windowed(n) => Drawn(n, r, hs).start = 0 /\ Drawn(n, r, hs).end = n
           /\ windowed(n) => /\ Drawn(n, r, hs).end = Min({r.end, n})
                             /\ Drawn(n, r, hs).start <= r.start
                             /\ Drawn(n, r, hs).padTop = sum(hs, 0, Drawn(n, r, hs).start)
<1>0. n \in Nat /\ n <= MaxCount /\ MaxCount \in Nat
  BY RowsAssumption
<1>r. PICK x \in Nat, y \in Nat : x = r.start /\ y = r.end
  BY DEF Ranges
<1>1. PICK e \in Nat : e = Min({r.end, n}) /\ e <= n
  <2>1. Min({y, n}) \in {y, n} /\ Min({y, n}) <= n
    BY <1>0, MinMaxOfTwo
  <2>2. QED
    BY <1>0, <1>r, <2>1
<1>2. PICK s \in Nat : s = Min({r.start, e}) /\ s <= e /\ s <= r.start
  <2>1. Min({x, e}) \in {x, e} /\ Min({x, e}) <= x /\ Min({x, e}) <= e
    BY MinMaxOfTwo
  <2>2. QED
    BY <1>r, <2>1
<1>3. sum(hs, 0, s) \in Nat /\ sum(hs, e, n) \in Nat
  <2>1. 0 \in Nat /\ 0 <= s /\ s <= MaxCount
    BY <1>0, <1>1, <1>2
  <2>2. sum(hs, 0, s) \in Nat
    BY <2>1, SumType
  <2>3. sum(hs, e, n) \in Nat
    BY <1>0, <1>1, SumType
  <2>4. QED
    BY <2>2, <2>3
<1>4. Drawn(n, r, hs)
        = IF windowed(n)
          THEN [start |-> s, end |-> e, padTop |-> sum(hs, 0, s), padBottom |-> sum(hs, e, n)]
          ELSE [start |-> 0, end |-> n, padTop |-> 0, padBottom |-> 0]
  BY <1>1, <1>2 DEF Drawn
<1>5. CASE windowed(n)
  BY <1>0, <1>1, <1>2, <1>3, <1>4, <1>5 DEF Windows
<1>6. CASE ~ windowed(n)
  BY <1>0, <1>4, <1>6 DEF Windows
<1>7. QED
  BY <1>5, <1>6

\* Where the browser leaves the scroller.
LEMMA ClampType ==
    ASSUME scrollTop \in Nat, NEW n \in Nat, NEW d \in Windows(n), NEW rows \in Nat, NEW a \in Nat, NEW v \in Nat
    PROVE  Clamp(d, rows, a, v) \in Nat
<1>1. d.padTop \in Nat /\ d.padBottom \in Nat
  BY DEF Windows
<1>2. PICK x \in Int : x = a + d.padTop + rows + d.padBottom - v
  BY <1>1
<1>3. PICK y \in Nat : y = Max({0, x})
  <2>1. 0 \in Int /\ Max({0, x}) \in {0, x} /\ Max({0, x}) >= 0
    BY MinMaxOfTwo
  <2>2. QED
    BY <2>1
<1>4. Min({scrollTop, y}) \in {scrollTop, y}
  <2>1. scrollTop \in Int /\ y \in Int
    OBVIOUS
  <2>2. QED
    BY <2>1, MinMaxOfTwo
<1>5. QED
  BY <1>2, <1>3, <1>4 DEF Clamp

\* Types; what is measured is what a row measures; and unless a frame is due,
\* the range is computed for the scroller as it is, with the anchor of then.
TableOK ==
    /\ count \in 0..MaxCount
    /\ tall \in Heights /\ \A i \in Row : tall[i] >= estimateHeight
    /\ heights \in Heights /\ \A i \in Row : heights[i] \in {0, tall[i]}
    /\ ~ windowed(count) => heights = Unmeasured

ScrollerOK == view \in Nat /\ anchor \in Nat /\ anchorAt \in Nat /\ scrollTop \in Nat

RangeOK ==
    /\ range \in Ranges
    /\ windowed(count) /\ ~ frame => range = compute(count, heights, scrollTop, anchorAt, view)

RowsInv == TableOK /\ ScrollerOK /\ RangeOK /\ dom \in Windows(MaxCount)

\* Nothing measured is as good as anything else.
LEMMA UnmeasuredType == Unmeasured \in Heights /\ \A i \in Row : Unmeasured[i] = 0
BY DEF Unmeasured, Heights

\* What is drawn of fewer rows is drawn of all.
LEMMA WindowsGrow == ASSUME NEW n \in 0..MaxCount PROVE Windows(n) \subseteq Windows(MaxCount)
BY RowsAssumption DEF Windows

\* The rows that are drawn have a height.
LEMMA RowsType ==
    ASSUME NEW hs \in Heights, NEW d \in Windows(MaxCount)
    PROVE  sum(hs, d.start, d.end) \in Nat
<1>1. d.start \in Nat /\ d.end \in Nat /\ d.start <= d.end /\ d.end <= MaxCount
  BY DEF Windows
<1>2. QED
  BY <1>1, SumType

LEMMA RowsInitOK == RowsInit => RowsInv
<1> SUFFICES ASSUME RowsInit PROVE RowsInv
  OBVIOUS
<1>1. view \in Nat /\ anchor \in Nat /\ anchorAt \in Nat /\ scrollTop \in Nat
  BY RowsAssumption DEF RowsInit
<1>2. count \in 0..MaxCount /\ range \in Ranges /\ ~ windowed(count)
  BY RowsAssumption DEF RowsInit, Ranges, windowed
<1>3. heights \in Heights /\ \A i \in Row : heights[i] = 0
  BY UnmeasuredType DEF RowsInit
<1>4. tall \in Heights /\ \A i \in Row : tall[i] >= estimateHeight
  BY RowsAssumption DEF RowsInit, Heights
<1>5. dom \in Windows(MaxCount)
  <2>1. dom = Drawn(count, range, heights)
    BY DEF RowsInit
  <2>2. QED
    BY <1>2, <1>3, <2>1, DrawnIs, WindowsGrow
<1>6. QED
  BY <1>1, <1>2, <1>3, <1>4, <1>5 DEF RowsInv, TableOK, ScrollerOK, RangeOK, RowsInit

\* A commit measures what is drawn.
LEMMA CommitKeeps == RowsInv /\ Commit => RowsInv'
<1> SUFFICES ASSUME RowsInv, Commit PROVE RowsInv'
  OBVIOUS
<1> USE DEF RowsInv
<1>1. count' = count /\ tall' = tall /\ view' = view /\ anchor' = anchor
  BY DEF Commit
<1>2. PICK d : d = dom' /\ d = Drawn(count, range, heights) /\ d \in Windows(MaxCount)
  BY DrawnIs, WindowsGrow DEF Commit, TableOK, RangeOK
<1>3. PICK top \in Nat : top = scrollTop'
  <2>1. sum(tall, d.start, d.end) \in Nat
    BY <1>2, RowsType DEF TableOK
  <2>2. scrollTop' = Clamp(d, sum(tall, d.start, d.end), anchor, view)
    BY <1>2 DEF Commit, Rows
  <2>3. MaxCount \in Nat
    BY RowsAssumption
  <2>4. QED
    BY <1>2, <2>1, <2>2, <2>3, ClampType DEF ScrollerOK
<1>4. PICK hs : /\ hs = heights' /\ hs \in [Row -> Nat]
                /\ \A i \in Row : hs[i] = heights[i] \/ hs[i] = tall[i]
                /\ ~ windowed(count) => hs = heights
  <2>1. heights' = [i \in Row |-> IF windowed(count) /\ i \in d.start..d.end - 1 /\ tall[i] # estimateHeight
                                  THEN tall[i] ELSE heights[i]]
    BY <1>2 DEF Commit
  <2>2. heights \in [Row -> Nat] /\ tall \in [Row -> Nat]
    BY DEF TableOK, Heights
  <2>3. QED
    BY <2>1, <2>2
<1>5. hs \in Heights /\ \A i \in Row : hs[i] \in {0, tall[i]}
  BY <1>4 DEF TableOK, Heights
<1>6. TableOK'
  BY <1>1, <1>4, <1>5 DEF TableOK
<1>7. CASE hs = heights
  <2>1. range' = range /\ anchorAt' = anchorAt
    BY <1>4, <1>7 DEF Commit
  <2>2. windowed(count) /\ ~ frame' => ~ frame /\ scrollTop' = scrollTop
    BY DEF Commit
  <2>3. ScrollerOK' /\ RangeOK'
    BY <1>1, <1>3, <1>4, <1>7, <2>1, <2>2 DEF ScrollerOK, RangeOK
  <2>4. QED
    BY <1>2, <1>6, <2>3
<1>8. CASE hs # heights
  <2>1. range' = compute(count, hs, top, anchor, view) /\ anchorAt' = anchor
    BY <1>3, <1>4, <1>8 DEF Commit
  <2>2. range' \in Ranges
    BY <1>3, <1>5, <2>1, ComputeType DEF TableOK, ScrollerOK
  <2>3. ScrollerOK' /\ RangeOK'
    BY <1>1, <1>3, <1>4, <2>1, <2>2 DEF ScrollerOK, RangeOK
  <2>4. QED
    BY <1>2, <1>6, <2>3
<1>9. QED
  BY <1>7, <1>8

\* Other rows: nothing of them is measured.
LEMMA NewResultsKeeps ==
    ASSUME RowsInv, NEW n \in 0..MaxCount, NEW hs \in [0..n - 1 -> Height],
           NewResults(n, [i \in Row |-> IF i < n THEN hs[i] ELSE estimateHeight])
    PROVE  RowsInv'
<1> USE DEF RowsInv
<1>1. PICK hh : /\ hh = [i \in Row |-> IF i < n THEN hs[i] ELSE estimateHeight]
                /\ NewResults(n, hh)
  OBVIOUS
<1>2. hh \in Heights /\ \A i \in Row : hh[i] >= estimateHeight
  <2>1. ASSUME NEW i \in Row PROVE hh[i] \in Nat /\ hh[i] >= estimateHeight
    <3>1. CASE i < n
      <4>1. i \in 0..n - 1
        BY <3>1, RowsAssumption DEF Row
      <4>2. QED
        BY <1>1, <3>1, <4>1, RowsAssumption
    <3>2. CASE ~ (i < n)
      BY <1>1, <3>2, RowsAssumption
    <3>3. QED
      BY <3>1, <3>2
  <2>2. QED
    BY <1>1, <2>1 DEF Heights
<1>3. count' = n /\ tall' = hh /\ heights' = Unmeasured /\ view' = view /\ anchor' = anchor
  BY <1>1 DEF NewResults
<1>4. PICK d : d = dom' /\ d = Drawn(n, range, heights) /\ d \in Windows(MaxCount)
  <2>1. dom' = Drawn(n, range, heights)
    BY <1>1 DEF NewResults
  <2>2. Drawn(n, range, heights) \in Windows(n)
    BY DrawnIs DEF TableOK, RangeOK
  <2>3. QED
    BY <2>1, <2>2, WindowsGrow
<1>5. PICK top \in Nat : top = scrollTop'
  <2>1. sum(hh, d.start, d.end) \in Nat
    BY <1>2, <1>4, RowsType
  <2>2. scrollTop' = Clamp(d, sum(hh, d.start, d.end), anchor, view)
    BY <1>1, <1>4 DEF NewResults
  <2>3. MaxCount \in Nat
    BY RowsAssumption
  <2>4. QED
    BY <1>4, <2>1, <2>2, <2>3, ClampType DEF ScrollerOK
<1>6. TableOK'
  BY <1>2, <1>3, UnmeasuredType DEF TableOK
<1>7. CASE windowed(n)
  <2>1. range' = compute(n, Unmeasured, top, anchor, view) /\ anchorAt' = anchor
    BY <1>1, <1>5, <1>7 DEF NewResults
  <2>2. range' \in Ranges
    BY <2>1, UnmeasuredType, ComputeType DEF ScrollerOK
  <2>3. ScrollerOK' /\ RangeOK'
    BY <1>3, <1>5, <2>1, <2>2 DEF ScrollerOK, RangeOK
  <2>4. QED
    BY <1>4, <1>6, <2>3
<1>8. CASE ~ windowed(n)
  <2>1. range' = [start |-> 0, end |-> 0] /\ anchorAt' = anchorAt
    BY <1>1, <1>8 DEF NewResults
  <2>2. ScrollerOK' /\ RangeOK'
    BY <1>3, <1>5, <1>8, <2>1 DEF ScrollerOK, RangeOK, Ranges, windowed
  <2>3. QED
    BY <1>4, <1>6, <2>2
<1>9. QED
  BY <1>7, <1>8

\* Another width: other heights, and nothing measured.
LEMMA ResizeKeeps == RowsInv /\ Resize => RowsInv'
<1> SUFFICES ASSUME RowsInv, Resize PROVE RowsInv'
  OBVIOUS
<1> USE DEF RowsInv
<1>1. count' = count /\ anchor' = anchor /\ dom' = dom
  BY DEF Resize
<1>2. PICK v \in Nat : v = view'
  BY RowsAssumption DEF Resize
<1>3. PICK wrap \in {estimateHeight} \cup Height :
          tall' = [i \in Row |-> IF i < count THEN wrap ELSE tall[i]]
  BY DEF Resize
<1>4. PICK hh \in Heights : hh = tall' /\ \A i \in Row : hh[i] >= estimateHeight
  <2>1. wrap \in Nat /\ wrap >= estimateHeight
    BY RowsAssumption
  <2>2. tall \in [Row -> Nat] /\ \A i \in Row : tall[i] >= estimateHeight
    BY DEF TableOK, Heights
  <2>3. QED
    BY <1>3, <2>1, <2>2 DEF Heights
<1>5. PICK top \in Nat : top = scrollTop'
  <2>1. sum(hh, dom.start, dom.end) \in Nat
    BY RowsType
  <2>2. scrollTop' = Clamp(dom, sum(hh, dom.start, dom.end), anchor, v)
    BY <1>2, <1>4 DEF Resize
  <2>3. MaxCount \in Nat
    BY RowsAssumption
  <2>4. QED
    BY <2>1, <2>2, <2>3, ClampType DEF ScrollerOK
<1>6. CASE windowed(count)
  <2>1. /\ heights' = Unmeasured /\ anchorAt' = anchor
        /\ range' = compute(count, Unmeasured, top, anchor, v)
    BY <1>2, <1>5, <1>6 DEF Resize
  <2>2. TableOK'
    BY <1>1, <1>4, <2>1, UnmeasuredType DEF TableOK
  <2>3. range' \in Ranges
    BY <2>1, UnmeasuredType, ComputeType DEF TableOK, ScrollerOK
  <2>4. ScrollerOK' /\ RangeOK'
    BY <1>1, <1>2, <1>5, <2>1, <2>3 DEF ScrollerOK, RangeOK
  <2>5. QED
    BY <1>1, <2>2, <2>4
<1>7. CASE ~ windowed(count)
  <2>1. heights' = heights /\ range' = range /\ anchorAt' = anchorAt
    BY <1>7 DEF Resize
  <2>2. TableOK'
    BY <1>1, <1>4, <1>7, <2>1, UnmeasuredType DEF TableOK
  <2>3. ScrollerOK' /\ RangeOK'
    BY <1>1, <1>2, <1>5, <1>7, <2>1 DEF ScrollerOK, RangeOK, windowed
  <2>4. QED
    BY <1>1, <2>2, <2>3
<1>8. QED
  BY <1>6, <1>7

\* Scrolling, and the frame that follows; a render moves the table.
LEMMA ScrollKeeps == RowsInv /\ (Scroll \/ Frame \/ Rerender) => RowsInv'
<1> SUFFICES ASSUME RowsInv, Scroll \/ Frame \/ Rerender PROVE RowsInv'
  OBVIOUS
<1> USE DEF RowsInv
<1>1. /\ count' = count /\ tall' = tall /\ view' = view /\ heights' = heights /\ dom' = dom
      /\ TableOK'
  BY DEF Scroll, Frame, Rerender, TableOK
<1>2. CASE Scroll
  <2>1. scrollTop' \in Nat
    <3>1. PICK d \in Windows(MaxCount) : d = dom
      OBVIOUS
    <3>2. PICK rows \in Nat : rows = Rows(dom)
      BY RowsType DEF Rows, TableOK
    <3>3. PICK x \in Int : x = anchor + dom.padTop + rows + dom.padBottom - view
      <4>1. d.padTop \in Nat /\ d.padBottom \in Nat
        BY DEF Windows
      <4>2. QED
        BY <3>1, <4>1 DEF ScrollerOK
    <3>4. Max({0, x}) \in {0, x} /\ Max({0, x}) >= 0
      BY MinMaxOfTwo
    <3>5. scrollTop' \in 0..Max({0, x})
      BY <1>2, <3>2, <3>3 DEF Scroll
    <3>6. QED
      BY <3>4, <3>5
  <2>2. anchor' = anchor /\ anchorAt' = anchorAt /\ range' = range /\ frame' = windowed(count)
    BY <1>2 DEF Scroll
  <2>3. ScrollerOK' /\ RangeOK'
    BY <1>1, <2>1, <2>2 DEF ScrollerOK, RangeOK
  <2>4. QED
    BY <1>1, <2>3
<1>3. CASE Frame
  <2>1. /\ range' = compute(count, heights, scrollTop, anchor, view) /\ anchorAt' = anchor
        /\ anchor' = anchor /\ scrollTop' = scrollTop
    BY <1>3 DEF Frame
  <2>2. range' \in Ranges
    BY <2>1, ComputeType DEF TableOK, ScrollerOK
  <2>3. ScrollerOK' /\ RangeOK'
    BY <1>1, <2>1, <2>2 DEF ScrollerOK, RangeOK
  <2>4. QED
    BY <1>1, <2>3
<1>4. CASE Rerender
  <2>1. /\ anchor' \in Nat /\ scrollTop' = scrollTop /\ range' = range /\ frame' = frame
        /\ anchorAt' = anchorAt
    BY <1>4, RowsAssumption DEF Rerender
  <2>2. ScrollerOK' /\ RangeOK'
    BY <1>1, <2>1 DEF ScrollerOK, RangeOK
  <2>3. QED
    BY <1>1, <2>2
<1>5. QED
  BY <1>2, <1>3, <1>4

\* RowsInv holds throughout.
THEOREM InductiveRows == RowsSpec => []RowsInv
<1>1. RowsInv /\ [RowsNext]_rowVars => RowsInv'
  <2> SUFFICES ASSUME RowsInv, [RowsNext]_rowVars PROVE RowsInv'
    OBVIOUS
  <2>1. CASE Commit
    BY <2>1, CommitKeeps
  <2>2. CASE Scroll \/ Frame \/ Rerender
    BY <2>2, ScrollKeeps
  <2>3. CASE Resize
    BY <2>3, ResizeKeeps
  <2>4. ASSUME NEW n \in 0..MaxCount, NEW hs \in [0..n - 1 -> Height],
               NewResults(n, [i \in Row |-> IF i < n THEN hs[i] ELSE estimateHeight])
        PROVE  RowsInv'
    BY <2>4, NewResultsKeeps
  <2>5. CASE UNCHANGED rowVars
    BY <2>5 DEF rowVars, RowsInv, TableOK, ScrollerOK, RangeOK
  <2>6. QED
    BY <2>1, <2>2, <2>3, <2>4, <2>5 DEF RowsNext
<1>2. QED
  BY <1>1, RowsInitOK, PTL DEF RowsSpec

\* Once the frame is over no spacer is shown where rows belong, for tables of any
\* length, rows of any height and scrollers of any size, however high the
\* overscan and the threshold are.
THEOREM RowsFillTheViewport == RowsSpec => []WindowCoversViewport
<1>1. RowsInv => WindowCoversViewport
  <2> DEFINE shift == IF anchor < anchorAt THEN anchorAt - anchor ELSE anchor - anchorAt
  <2> SUFFICES ASSUME RowsInv, ~ frame, shift <= overscan * estimateHeight,
                      dom = Drawn(count, range, heights)
               PROVE  /\ dom.start = 0 \/ dom.padTop <= scrollTop - anchor
                      /\ dom.end = count \/ dom.padTop + Rows(dom) >= scrollTop - anchor + view
    BY DEF WindowCoversViewport
  <2>0. TableOK /\ ScrollerOK /\ RangeOK
    BY DEF RowsInv
  <2>1. CASE ~ windowed(count)
    BY ZenonT(30), <2>0, <2>1, DrawnIs DEF TableOK, RangeOK
  <2>2. CASE windowed(count)
    <3>1. PICK s \in 0..count, e \in 0..count :
              /\ compute(count, heights, scrollTop, anchorAt, view)
                   = [start |-> Max({0, s - overscan}), end |-> Min({count, e + overscan})]
              /\ s <= e
              /\ s = 0 \/ sum(heights, 0, s) < scrollTop - anchorAt
              /\ e = count \/ sum(heights, 0, e) >= scrollTop - anchorAt + view
      <4>1. scrollTop \in Int /\ anchorAt \in Int /\ view \in Int /\ count \in 0..MaxCount /\ heights \in Heights
        BY <2>0 DEF TableOK, ScrollerOK
      <4>2. QED
        BY <4>1, ComputeIs
    <3>2. PICK slack \in Nat, est \in Nat : slack = overscan * estimateHeight /\ est = estimateHeight
      BY RowsAssumption
    <3>3. PICK top \in Int, then \in Int :
              top = scrollTop - anchor /\ then = scrollTop - anchorAt /\ then <= top + slack /\ top <= then + slack
      <4>1. PICK x \in Int, y \in Int : x = scrollTop - anchor /\ y = scrollTop - anchorAt
        BY <2>0 DEF ScrollerOK
      <4>2. y <= x + slack /\ x <= y + slack
        BY <2>0, <3>2, <4>1 DEF ScrollerOK
      <4>3. QED
        BY <4>1, <4>2
    <3>4. PICK d \in Windows(count) :
              /\ d = dom /\ d.end = Min({range.end, count}) /\ d.start <= range.start
              /\ d.padTop = sum(heights, 0, d.start)
      BY <2>0, <2>2, DrawnIs DEF TableOK, RangeOK
    <3>5. PICK start \in Nat, end \in Nat :
              start = d.start /\ end = d.end /\ start <= end /\ end <= count
      BY DEF Windows
    <3>6. range.start = Max({0, s - overscan}) /\ range.end = Min({count, e + overscan})
      BY <2>0, <2>2, <3>1 DEF RangeOK
    <3>7. count \in Nat /\ count <= MaxCount /\ MaxCount \in Nat /\ overscan \in Nat /\ heights \in Heights
      BY <2>0, RowsAssumption DEF TableOK
    <3>8. dom.start = 0 \/ dom.padTop <= top
      <4> SUFFICES ASSUME start # 0 PROVE sum(heights, 0, start) <= top
        BY <3>4, <3>5
      <4>1. start + overscan <= s /\ s # 0
        <5>1. PICK x \in Int : x = s - overscan
          BY <3>7
        <5>2. Max({0, x}) \in {0, x}
          <6>1. 0 \in Int /\ x \in Int
            BY <5>1
          <6>2. QED
            BY <6>1, MinMaxOfTwo
        <5>3. start <= Max({0, x})
          BY <3>4, <3>5, <3>6, <5>1
        <5>4. QED
          BY <3>7, <5>1, <5>2, <5>3
      <4>2. PICK m \in Nat : m = start + overscan /\ m <= s /\ m <= MaxCount
        BY <3>7, <4>1
      <4>3. sum(heights, 0, start) + slack <= sum(heights, 0, m)
        BY <3>2, <3>7, <4>2, SumGrows
      <4>4. sum(heights, 0, m) <= sum(heights, 0, s)
        BY <3>7, <4>2, SumMonotone
      <4>5. sum(heights, 0, start) \in Nat /\ sum(heights, 0, m) \in Nat /\ sum(heights, 0, s) \in Nat
        BY <3>5, <3>7, <4>2, SumUpTo
      <4>6. sum(heights, 0, s) < then
        BY <3>1, <3>3, <4>1
      <4>7. QED
        BY <3>3, <4>3, <4>4, <4>5, <4>6
    <3>9. dom.end = count \/ dom.padTop + Rows(dom) >= top + view
      <4> SUFFICES ASSUME end # count PROVE sum(heights, 0, start) + sum(tall, start, end) >= top + view
        BY <3>4, <3>5 DEF Rows
      <4>1. end = e + overscan /\ e # count
        <5>1. PICK y \in Nat : y = e + overscan
          BY <3>7
        <5>2. PICK z \in Nat : z = Min({count, y}) /\ z \in {count, y} /\ z <= count /\ z <= y
          <6>1. count \in Int /\ y \in Int
            BY <3>7
          <6>2. Min({count, y}) \in {count, y} /\ Min({count, y}) <= count /\ Min({count, y}) <= y
            BY <6>1, MinMaxOfTwo
          <6>3. QED
            BY <3>7, <6>2
        <5>3. Min({z, count}) \in {z, count} /\ Min({z, count}) <= z
          <6>1. count \in Int /\ z \in Int
            BY <3>7
          <6>2. QED
            BY <6>1, MinMaxOfTwo
        <5>4. end = Min({z, count})
          BY <3>4, <3>5, <3>6, <5>1, <5>2
        <5>5. QED
          BY <3>7, <5>1, <5>2, <5>3, <5>4
      <4>2. sum(heights, 0, e) + slack <= sum(heights, 0, end)
        BY <3>2, <3>5, <3>7, <4>1, SumGrows
      <4>3. sum(heights, 0, end) <= sum(heights, 0, start) + sum(tall, start, end)
        <5>1. tall \in Heights /\ \A i \in Row : height(heights[i]) <= height(tall[i])
          BY <2>0, RowsAssumption DEF TableOK, Heights, height
        <5>2. end <= MaxCount
          BY <3>5, <3>7
        <5>3. QED
          BY <3>5, <3>7, <5>1, <5>2, SumAbove
      <4>4. /\ sum(heights, 0, e) \in Nat /\ sum(heights, 0, end) \in Nat
            /\ sum(heights, 0, start) \in Nat /\ sum(tall, start, end) \in Nat
        <5>1. e \in Nat /\ e <= MaxCount /\ end <= MaxCount /\ start <= MaxCount
          BY <3>5, <3>7
        <5>2. tall \in Heights
          BY <2>0 DEF TableOK
        <5>3. sum(tall, start, end) \in Nat
          BY <3>5, <5>1, <5>2, SumType
        <5>4. QED
          BY <3>7, <5>1, <5>3, SumUpTo
      <4>5. sum(heights, 0, e) >= then + view
        BY <3>1, <3>3, <4>1
      <4>6. view \in Nat
        BY <2>0 DEF ScrollerOK
      <4>7. QED
        BY <3>3, <4>2, <4>3, <4>4, <4>5, <4>6
    <3>10. QED
      BY <3>3, <3>8, <3>9
  <2>3. QED
    BY <2>1, <2>2
<1>2. QED
  BY <1>1, InductiveRows, PTL

=============================================================================
