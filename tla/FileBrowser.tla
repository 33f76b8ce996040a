---------------------------- MODULE FileBrowser ----------------------------
(***************************************************************************)
(* The file browser of the UI: the hook useFileSystem, which lists         *)
(* directories and looks up single entries, the page around it, which      *)
(* takes the directory from the URL, and the panel beside it, which lists  *)
(* the directory that is selected.                                         *)
(*                                                                         *)
(* JavaScript runs one handler at a time, so a handler is one action up to *)
(* its await; replies arrive in any order, and what the user clicks on is  *)
(* what React rendered last.  A call that is aborted, or cancelled by the  *)
(* panel, is gone: "superseded, not a failure", its handlers do nothing.   *)
(***************************************************************************)
EXTENDS Naturals, FiniteSets

CONSTANTS
    Path,             \* paths of the index, and some that are not in it
    Home,             \* the path the page opens with
    IsDir,            \* the directories among them
    Child,            \* [Path -> SUBSET Path]: what the server lists
    Missing,          \* paths the server does not list
    None,             \* nothing listed, selected or wrong
    Unlisted,         \* the panel has no listing
    MaxCalls          \* bound: requests under way at a time

ASSUME BrowserAssumption ==
    /\ Home \in Path /\ IsDir \subseteq Path /\ Missing \subseteq Path
    /\ {None, Unlisted} \cap Path = {} /\ None # Unlisted
    /\ Child \in [Path -> SUBSET Path]
    /\ MaxCalls \in Nat

VARIABLES
    url,              \* the ?path= of the URL
    currentPath, entries, selectedItem, isLoading, error,    \* the hook's state
    children, panelFor,        \* the panel's listing, and the entry its effect ran for
    calls,            \* requests without a reply, and whether listAbort, detailAbort or
                      \* the panel's effect holds them: [kind, path, held]
    rendered,         \* what the last render saw of the URL and the hook
    navigated,        \* the initialPath the effect has run for
    mounted,
    \* History.
    clicked,          \* the entry looked up last
    since             \* whether that was after the listing asked for last

hook == <<currentPath, entries, selectedItem, isLoading, error>>
panel == <<children, panelFor>>
vars == <<url, hook, panel, calls, rendered, navigated, mounted, clicked, since>>

Call == [kind : {"list", "detail", "children"}, path : Path, held : BOOLEAN]

\* entries is the directory whose listing is shown, error the path it is about.
TypeOK ==
    /\ url \in Path /\ currentPath \in Path
    /\ {entries, selectedItem, error, navigated, clicked, panelFor} \subseteq Path \cup {None}
    /\ children \in Path \cup {None, Unlisted}
    /\ {isLoading, mounted, since} \subseteq BOOLEAN
    /\ calls \subseteq Call /\ Cardinality(calls) <= MaxCalls
    /\ rendered \in [url : Path, entries : Path \cup {None}, selected : Path \cup {None}]

\* The page is opened with ?path=p, or without and then at Home.
Init ==
    /\ url \in Path /\ currentPath = url
    /\ entries = None /\ selectedItem = None /\ isLoading = FALSE /\ error = None
    /\ children = Unlisted /\ panelFor = None /\ calls = {}
    /\ rendered = [url |-> url, entries |-> None, selected |-> None]
    /\ navigated = None /\ mounted = TRUE
    /\ clicked = None /\ since = FALSE

\* Mutation: a new request leaves the one before it running.
SupersededRuns(kind) == {IF c.kind = kind THEN [c EXCEPT !.held = FALSE] ELSE c : c \in calls}

\* controller.abort(), and the panel's cancelled = true: the call that was held
\* is gone.
Superseded(kind) == {c \in calls : c.kind # kind}

\* A call of this kind for the paths, at most one, in place of the one before.
Asked(kind, paths) ==
    /\ calls' = Superseded(kind) \cup {[kind |-> kind, path |-> p, held |-> TRUE] : p \in paths}
    /\ Cardinality(calls') <= MaxCalls

navigateTo(p) ==
    /\ Asked("list", {p})
    /\ currentPath' = p /\ selectedItem' = None /\ error' = None /\ isLoading' = TRUE
    /\ since' = FALSE
    /\ UNCHANGED <<url, entries, panel, rendered, mounted, clicked>>

\* A breadcrumb, a double click, "Jump to path", a granted root.
openPath(p) ==
    /\ mounted
    /\ \/ p = rendered.url /\ navigateTo(p) /\ UNCHANGED navigated
       \/ /\ p # rendered.url
          /\ url' = p
          /\ UNCHANGED <<hook, panel, calls, rendered, navigated, mounted,
                         clicked, since>>

\* The effect on initialPath, after the render that changed it.  Back and
\* Forward come here too: a URL that openPath gives is one the history has.
Effect ==
    /\ mounted
    /\ navigated # rendered.url
    /\ navigateTo(rendered.url)
    /\ navigated' = rendered.url

Render ==
    /\ mounted
    /\ rendered' = [url |-> url, entries |-> entries, selected |-> selectedItem]
    /\ rendered' # rendered
    /\ UNCHANGED <<url, hook, panel, calls, navigated, mounted, clicked, since>>

\* A click on a row of the rendered listing, or a tile of it.
selectItem(e) ==
    /\ mounted /\ rendered.entries # None /\ e \in Child[rendered.entries]
    /\ rendered.selected # e
    /\ Asked("detail", {e})
    /\ error' = None /\ isLoading' = TRUE
    /\ clicked' = e /\ since' = TRUE
    /\ UNCHANGED <<url, currentPath, entries, selectedItem, panel, rendered,
                   navigated, mounted>>

CloseDetail ==
    /\ mounted /\ rendered.selected # None
    /\ selectedItem' = None
    /\ UNCHANGED <<url, currentPath, entries, isLoading, error, panel, calls,
                   rendered, navigated, mounted, clicked, since>>

\* Mutation: the panel keeps its listing until the next one is there.
PanelEffectKeeps ==
    /\ mounted /\ panelFor # rendered.selected
    /\ panelFor' = rendered.selected
    /\ Asked("children", {rendered.selected} \cap IsDir)
    /\ UNCHANGED <<url, hook, children, rendered, navigated, mounted, clicked, since>>

\* The effect of the panel on the entry it is given: the listing of the entry
\* before is dropped, the call for it cancelled, and a directory is listed.
PanelEffect ==
    /\ mounted /\ panelFor # rendered.selected
    /\ panelFor' = rendered.selected
    /\ children' = Unlisted
    /\ Asked("children", {rendered.selected} \cap IsDir)
    /\ UNCHANGED <<url, hook, rendered, navigated, mounted, clicked, since>>

\* What a call brings: the listing, the entry or the panel's listing; None for
\* none.  The panel has no error of its own: it shows no items.
Shown(c, result) ==
    /\ entries' = IF c.kind = "list" THEN result ELSE entries
    /\ selectedItem' = IF c.kind = "detail" THEN result ELSE selectedItem
    /\ children' = IF c.kind = "children" THEN result ELSE children
    /\ isLoading' = IF c.kind = "children" THEN isLoading ELSE FALSE

Refused(c) == c.kind # "detail" /\ c.path \in Missing

Settled(c) ==
    /\ calls' = calls \ {c}
    /\ UNCHANGED <<url, currentPath, panelFor, rendered, navigated, mounted,
                   clicked, since>>

\* Mutation: a refused listing is only logged.
ReplyLogged(c) ==
    /\ Shown(c, IF Refused(c) THEN None ELSE c.path)
    /\ UNCHANGED error
    /\ Settled(c)

\* The reply of a call: its data, or the error of a path the server refuses.
Reply(c) ==
    /\ Shown(c, IF Refused(c) THEN None ELSE c.path)
    /\ error' = IF Refused(c) /\ c.kind = "list" THEN c.path ELSE error
    /\ Settled(c)

\* Mutation: the handler of a failed call returns before its clean-up.
FailureEarly(c) ==
    /\ error' = c.path
    /\ UNCHANGED <<entries, selectedItem, children, isLoading>>
    /\ Settled(c)

\* The network or the server fails: any call may end in an error.
Failure(c) ==
    /\ Shown(c, None)
    /\ error' = IF c.kind = "children" THEN error ELSE c.path
    /\ Settled(c)

\* The hook and the panel as React creates them, and leaves nothing of.
Reset(p) ==
    /\ url' = p /\ currentPath' = p
    /\ entries' = None /\ selectedItem' = None /\ isLoading' = FALSE /\ error' = None
    /\ children' = Unlisted /\ panelFor' = None /\ calls' = {}
    /\ rendered' = [url |-> p, entries |-> None, selected |-> None]
    /\ navigated' = None /\ clicked' = None /\ since' = FALSE

\* The user leaves the page: what is under way is aborted.
Unmount == mounted /\ mounted' = FALSE /\ Reset(Home)

Mount(p) == ~mounted /\ mounted' = TRUE /\ Reset(p)

Settle == \E c \in calls : Reply(c) \/ Failure(c)

\* What the user does to have something loaded, and what follows by itself.
Ask == Effect \/ \E p \in Path : openPath(p) \/ selectItem(p)

Next ==
    \/ Ask \/ Render \/ CloseDetail \/ PanelEffect \/ Unmount \/ Settle
    \/ \E p \in Path : Mount(p)

\* Every request is answered, or fails, in the end.
Spec == Init /\ [][Next]_vars /\ WF_vars(Settle)

----------------------------------------------------------------------------
UnderWay(kind) == \E c \in calls : c.kind = kind /\ c.held

(***************************************************************************)
(* Properties.                                                             *)
(***************************************************************************)

\* Whatever the order of the replies, a superseded one never lands.  Once the
\* listing asked for last has been answered, the rows are those of the
\* directory the breadcrumb names; once the entry clicked last has been looked
\* up, the panel shows that entry or none.
SupersededNeverLands ==
    mounted =>
        /\ ~UnderWay("list") => entries \in {currentPath, None}
        /\ ~UnderWay("detail") => selectedItem \in {clicked, None}

\* A path that is not in the index never leaves the rows of another directory
\* below a breadcrumb that names it without saying so: when its listing has
\* been refused, nothing is listed, and an error is shown unless the user has
\* clicked on a row since.
RefusalIsShown ==
    mounted /\ currentPath \in Missing /\ navigated # None /\ ~UnderWay("list")
    => entries = None /\ (error # None \/ since)

\* The "Contents" the panel shows are those of the directory it is about, from
\* the moment its effect has seen the selection: never those of the directory
\* selected before, however late its listing comes.
ChildrenBelong ==
    mounted /\ panelFor = rendered.selected => children \in {panelFor, None, Unlisted}

\* "Loading" ends: an abort, which skips setIsLoading(false), always leaves a
\* successor that will call it.  Unless, that is, the user goes on asking.
LoadingEnds == []<>~isLoading \/ []<><<Ask>>_vars

=============================================================================
