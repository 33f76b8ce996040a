# Cuttlefish in TLA+

This directory holds a formal model of Cuttlefish: TLA+ modules translated from
the source, TLC configurations that check them on small instances, and theorems
whose proofs the TLA+ proof system (TLAPS) checks for every instance.

Contents

1. The system: its parts, their state, what is hard about them
2. The modules, and how they correspond to the code
3. The runs: what each checks, its bounds, its fairness
4. Where the code and its own words disagree
5. The theorems
6. What is only model-checked, and what is not modelled
7. The plan

To check: `tlc -config Indexer.cfg MCIndexer` for a run, `tlapm IndexerProofs.tla`
for the proofs of a module. `PROJECT.json` lists, for every definition, the lines
of the source it models; for every property, a mutated definition that breaks it;
and for every hazard of the code, the properties that watch it.

## 1. The system

Cuttlefish keeps an index of a large file system in PostgreSQL and shows it in a
browser. Two batch programs write the index and what is derived from it; a server
reads them; a single-page UI asks the server.

```
 file system --> fs_indexer --> filesystem_index --> fs_aggregator --> dir_stats
                     |          identity_map                           user_stats
                     |          identity_membership                       |
                     +------->  scan_sessions  <--------+                  |
                                                                          v
 identity provider <--> fs_api (sessions, access_grants, identity_rules) --> fs_ui
```

All parts meet in the database and nowhere else. A systemd timer starts the
indexer once a night, its unit starts the aggregator when the indexer succeeded,
and either can also be started by hand. Nothing locks two runs of one program
against each other.

### fs_indexer (`fs_indexer/src/main.rs`)

State: the walk of `jwalk` on several threads, a bounded channel of records, a
batch, the number of rows written, whether a batch was lost, whether the walker
panicked; in the database `filesystem_index`, the temporary table `seen_hashes` of
the connection, and the row of the run in `scan_sessions`.
Operations: connect and reap the sessions of dead runs; migrate an index whose
hashes have another width; record the start; walk (stat, send, list a
directory); receive, batch and upsert; join the walker; resolve identities; delete
the rows under the roots that were not seen; create indexes; record the end.
Hard: the walk, the channel and the consumer run concurrently while the file
system changes; anything may fail between two steps; the cleanup deletes rows,
and must not when the run is not sure that it saw everything; the table is
UNLOGGED, so a crash of the database empties it in the middle of a run.
Correct when: a failure never costs an entry that exists its row; what a
successful run reports is what the disk showed; a run leaves other roots alone;
every run ends.

### fs_indexer, identities (`resolve_identities`)

State: `identity_map` (names of uids and gids), `identity_membership` (groups of
accounts). Operations: one transaction clears the memberships and resolves the
accounts that own files; then the names of groups are added one by one.
Hard: fs_api reads while it is rewritten, and grants access by it; lookups and
statements fail half-way; the host's accounts change meanwhile.
Correct when: memberships are never seen half-empty, each has its names, and a
run brings what the host has.

### fs_aggregator (`fs_aggregator/src/main.rs`)

State: the aggregates of directories and owners in memory; `dir_stats`,
`user_stats`; its row in `scan_sessions`. Operations: refuse an index with other
hashes; stream the index; fold every row into the directories above it; TRUNCATE and COPY
the two tables, in the transaction of the stream; record the end.
Hard: the indexer writes the index meanwhile; rows come in any order; sums exceed
64 bits; TRUNCATE takes a lock that requests of fs_api wait for; the process dies
between the commit and the record of its success.
Correct when: what is published are the totals of one state of the index, both
tables together; a session says what became of its run; nobody waits for ever.

### fs_common (`fs_common/src/lib.rs`)

Library of the two programs: configuration, normalisation of the scan roots and
the check that they do not overlap, hashes of paths, schema, scan sessions.
Hard: roots are strings; two spellings of one directory, or two roots of which one
is inside the other, would make the runs overwrite each other. Correct when: the
accepted roots are separate subtrees under the spelling the rows are stored by.

### fs_api (`fs_api/*.go`)

- Sessions (`auth.go`): the table `sessions`, re-checked at most once per interval with a
  refresh token that the provider may rotate. Hard: concurrent requests of one session,
  answers that are lost or late, logout meanwhile, restarts. Correct when: an ended
  session stays ended, the provider is asked once per interval, and nobody is
  served for long on groups that were taken away.
- Access (`auth.go`, `admin.go`): `access_grants` and `identity_rules`, resolved for every
  request. Hard: several statements without a transaction, while admins edit and a run of
  the indexer commits. Correct when: what is served was granted, and what is
  granted is served.
- Grants as prefixes (`auth.go`, `handlers.go`, `search.go`): a string test in Go for
  listings, a LIKE pattern for searches. Hard: two implementations of one question, wildcards,
  `{user}`, spellings of a path. Correct when: both let through the granted subtree.
- Search (`search.go`): rules to SQL, with three-valued logic, LEFT JOINs, and an
  optimisation that attaches aggregates afterwards. Correct when: NOT is a complement, the
  scope holds, every row found is answered, and its aggregates are of one moment.
- Local login and its rate limiter, listings, usage, scan history, admin preview,
  routing: see section 6.

### fs_ui (`fs_ui/src`)

- File browser (`useFileSystem.ts`, `FileBrowserPage.tsx`, `DetailPanel.tsx`): the directory
  shown, the entry in the panel, one loading flag and one error for two kinds of request,
  each with an abort controller; the panel's own listing of a directory, cancelled by its
  effect. Hard: replies in any order, renders between them. Correct when: a superseded
  reply never lands, a refused path is said to be refused, the panel's contents are of
  its entry, and loading ends.
- Search page (`SearchPage.tsx`): the form, its text form, the columns (kept in
  localStorage), the results. Hard: five ways to start a search, none of which aborts
  another; values that are typed, pasted, linked and loaded from older builds. Correct
  when: the table answers the query last sent, fs_api takes the query as it is, and the
  text of a query is the query.
- Admin page (`AdminPage.tsx`): two tables, their forms, and the box that tests an
  identity. Hard: changes, loads and tests overlap, and a change may be carried out and its
  answer lost. Correct when: the table shows the rows that count.
- Application shell and login page (`App.tsx`, `LoginPage.tsx`, `api.ts`): who is signed in, the
  hook that every 401 fires, the poll for a running scan, the hop to the identity provider
  with its cooldown. Hard: calls of a page that is gone, of a session that has ended, and a
  tab that leaves and comes back without a session. Correct when: there is always a way to
  sign in, an ended session is noticed, and a sign-out lasts.
- Row windows (`useWindowedRows.ts`): the range of rows drawn, their measured heights, two
  spacers. Hard: scroll, frame, commit, measurement and resize in any order. Correct when:
  no spacer is shown where rows belong.
- Treemap (`TreemapView.tsx`): what is drawn as a tile, and the tiles. Correct when: no
  entry is lost, and the tiles fill their rectangle in proportion.
- Usage, history and splash pages, presentation: section 6.

## 2. The modules

| Module | Models | Instance |
|---|---|---|
| `IndexContract` | abstract: what readers of the index and of `scan_sessions` are promised | |
| `Indexer` | `fs_indexer` from start to end, the disk, the database, failures; implements `IndexContract` | `MCIndexer` |
| `IndexerProofs` | theorems about `Indexer`, the refinement among them | |
| `StatsContract` | abstract: what readers of the stats are promised | |
| `Aggregator` | `fs_aggregator`; implements `StatsContract` | `MCAggregator` |
| `AggregatorProofs` | theorems about `Aggregator`, the refinement among them | |
| `Identities` | `resolve_identities`, the host's name service | `MCIdentities` |
| `Access` | access resolution in fs_api; extends `Identities` | `MCAccess` |
| `AccessProofs` | theorems about `Identities` and `Access` | |
| `OidcSession` | sessions of fs_api and the identity provider | `MCOidcSession` |
| `OidcSessionProofs` | theorems about `OidcSession` | |
| `SeqFilter` | lists without some of their elements, membership in a list | |
| `SequenceLemmas` | induction over numbers and lists, and facts about folds, filters and flattening | |
| `Paths` | strings that name paths | |
| `ScanRoots` | scan roots, walk and cleanup, as strings | `MCPaths` |
| `GrantScope` | grants as prefixes, as strings: listings, searches, breadcrumbs | `MCPaths` |
| `Search` | `POST /api/search` | `MCPaths` |
| `PathsProofs` | theorems about `Paths`, `ScanRoots`, `GrantScope` and `Search` | |
| `FileBrowser` | the hook and page of the file browser, and its panel | `MCUi` |
| `SearchForm` | the query builder as functions: fields, operators, edits, request, text | `MCUi` |
| `SearchPage` | the search page; extends `SearchForm` | `MCUi` |
| `AdminPage` | the admin page | `MCUi` |
| `Ui` | the three pages behind the router; extends `FileBrowser`, instantiates the others | `MCUi` |
| `UiProofs` | theorems about the three pages, the form and the row windows | |
| `Shell` | who is signed in, the login page, the poll, fs_api's and the provider's part in them | `MCScreen` |
| `WindowedRows` | `useWindowedRows`, and the browser's scroll position | `MCScreen` |
| `Treemap` | `squarify` and what it is given | `MCScreen` |
| `ScreenProofs` | theorems about `Treemap` and `Shell` | |

`MCPaths` and `MCScreen` each put several questions that share no state into one
configuration: a behaviour is about one of them, and the variables of the others stand
still.

### Indexer and IndexContract

Paths are positions in a tree, given by their ancestors; what a record shows of an
entry (size, times, owner, type) is one value of `Meta`. A parent hash is the parent.

| State | Code |
|---|---|
| `disk` | the file system |
| `index`, `legacy` | `filesystem_index`, and whether its hashes have another width |
| `status`, `files_scanned` | the rows of `scan_sessions` |
| `seen`, `conn` | `seen_hashes`, which lives as long as the connection |
| `pc`, `roots`, `batch`, `insert_failed`, `total_processed` | locals of `main()` |
| `stack`, `held`, `opened`, `panicked`, `unstatted`, `unlisted` | the walker: directories queued, records at `send`, directories being listed, the counters of what could not be read |
| `channel` | `sync_channel` |
| `life` | history: the states each path was in during the run |

One action per statement of `main()` that another actor can come between
(`ConnectAndReap`, `MigrateHashWidth`, `RecordScanStart`, `Recv`, `InsertBatch`,
`JoinProducer`, `ResolveIdentities`, `CleanupStaleEntries`, ...), each with the way it
fails; `Stat`, `Send` and `ReadDir` for the threads of the walker; and the environment: a file is written
or removed, the process is killed, the connection is lost, the database crashes and loses
its unlogged tables and the last asynchronous commit.

`IndexContract` knows neither walk, channel, batch nor temporary table. Its `scope` is the paths
below the roots of the run under way (`Scope`), its `during` the history `life`, its `skipped` the paths the
run could not read or reach (`Blind`). `InsertBatch` is a `Write` of rows that are as the path was,
`CleanupStaleEntries` a `Prune` of paths that were gone at some time or skipped, `MigrateHashWidth`
and the crash of the database a `Lose`, the last UPDATE of `scan_sessions` a `Succeed`, which the contract
allows only to a scan whose paths are all shown; every other end is a `GiveUp`. The walk is a
`Skip` when it meets something it cannot read, and else a stutter.

### Aggregator and StatsContract

Rows carry a size, a time, an owner and a type, all small numbers or model values;
`MaxSize` is `i64::MAX`, so that saturating sums really saturate. `FoldRow` picks any
row of the portal. `AskStats`, `OpenStats` and `AnswerStats` are the statements of fs_api
that read the stats and thereby hold up TRUNCATE, or wait for it.
`StatsContract` has one variable more than its readers see, the state of the index
that the totals are of, and two steps: an index step, and a publication of both
tables at once. `Aggregator` implements it with the identity mapping of these four
variables: `StatsAreTotals` is `Contract!Spec`.

### Identities and Access

`Identities` has the host (accounts, groups, memberships, which change and are renamed), the
committed tables, and the transaction of `resolve_identities` as tables of its own, copied
at Begin and published at Commit. `Access` extends it: a request of fs_api reads
the rules, then the grants (with the subquery on the identity tables in the same
statement, hence on one snapshot), then its handler tests the path; admins and the
indexer take steps between.

### OidcSession

A clock, the provider (is the account enabled, which groups, which refresh token does it
accept next), the table `sessions`, and the goroutines. A recheck is `Claim` (the
conditional UPDATE that also returns the token), `IdpAnswers`, and `StoreAnswer` or `Revoke`;
`RefreshFails` is a lost answer or a client that gave up. `confirmed` and `seen` say when the
provider stated the groups that a row or a request holds; `claimed` marks a row whose groups
are not those of its last claim, and `lost` a request that met such a row. These four are
history.

### Paths, ScanRoots, GrantScope

Strings are sequences of characters, since here the strings are the subject:
`normalize_scan_root`, `scan_root_covers`, `get_parent_path`, `path.Clean`, `allows`,
`escapeLike`, LIKE and `from_utf8_lossy` are functions on them, compared with the one reference
`Below`, which works on lists of components. `Cell` is one step of LIKE: what is left of the text
against what is left of the pattern. In `ScanRoots` a run is one step (its
interleavings are in `Indexer`).

### Search

SQL conditions are TRUE, FALSE or NULL. Rows may have no name for their owner and no stats; a
row that is not a directory may have stats, of when its path was one. `Receive`
refuses a rule on an unknown field, `Query` answers from one snapshot and `Attach` from a
later one. The join of `Query` decorates every row dir_stats knows and drops those whose count
`sql.NullInt32` cannot hold (`Joined`), the lookup of `Attach` decorates directories and drops
nothing (`Attached`); `AttachFails` ends it after any of its rows. Three history variables serve
the property: `found`, the rows of the statement, `during`, the stats that stood from the statement to the
answer, and `failed`.

### FileBrowser, SearchForm, SearchPage, AdminPage, Ui

React state is state; an effect is an action that is enabled after the render which
scheduled it; `await` separates the sending of a request from `Reply`, `Failure` or
`Superseded` (an aborted call). A closure keeps the values of its render (`rendered`). `Ui` mounts one page at a
time; leaving one discards its state.

`SearchForm` has no state: a form is a record, a text is the JSON value it holds, and the handlers of the
builder are functions of them (`changeField`, `addRule`, `applyColumnKeys`, `parseQuery`, ...). `ServerTakes` is
what fs_api would do with the request, translated from `search.go`. `SearchPage` has the
handlers and requests; of the table it keeps only whose answer it shows, that of the query
sent last or of an older one.

`AdminPage` splits every call in the moment fs_api carries it out (`Serve`) and the moment the
answer lands, or is lost (`Land`); ids count up, as in the table. Its two sections are two
components without common state, so a behaviour is about one of them.

### Shell

One tab, the cookie (`valid`: does it name a session), and the requests in flight, each served
and answered at moments of its own. `SetMe` is `setMe` and `setSignedOut` with the effects of
the render that follows: which component is mounted decides which request is sent, and which
of those in flight have lost the component that would have used them (`live`). A request for the mode
carries the `noAutoRedirect` it was sent under (`guard`), as the effect has no clean-up. `stamp` is the time since the
automatic hop recorded in sessionStorage; storage may be refused.

### WindowedRows and Treemap

`compute` and `Drawn` are the two functions of the hook; a `Commit` lays the rows out, moves
the scroller where the browser would, measures what is drawn and computes again.

`Treemap` works in exact fractions where the code has doubles, and in whole pixels for the
width of the pane. `sized` is the list of that name, largest first; `PlaceRow` is one turn of the
loop of `squarify`, which goes on while something is queued and what is left of the pane is more
than a hundredth of a pixel (`Hairline`) both ways. That guard can leave out a tile only if one of
at least `MIN_TILE_AREA` can be so thin; `TreemapAssumption` says that the pane is not
long enough for that: no side reaches 100 times `MIN_TILE_AREA`, 10 000 pixels with the constants
of the code.

## 3. The runs

Bounds are named constants of the modules and appear as guards. `CHECK_DEADLOCK FALSE`
stands in a configuration only where the bounds end the behaviour (no run, request,
time or change is left); everywhere else TLC also checks that some step is possible.

| Run | Question | Instance | States |
|---|---|---|---|
| `indexer` | Does a failure, a change of the disk or another root ever cost a live entry its row, or a session its truth? Does every run end? | a directory, a subdirectory, a file; roots: the whole or the subdirectory; 2 contents, 2 threads, channel of 1, batch of 2; 2 runs, 1 failure, 1 change | 858 000 |
| `aggregator` | Are the stats the totals of one state of the index? Is anyone left waiting? | `/`, `/proc/kcore`, two nested directories, a file; `MaxSize` 4; 2 requests, 2 runs, 1 failure, 1 write | 219 000 |
| `oidc_session` | What do concurrent requests of a session know, and when does it end? | 1 session, 2 requests, interval 1, lifetime 4, clock to 5; 1 change of the account, 1 failure | 2 320 000 |
| `identities` | What do readers of the identity tables see while they are rewritten? | 2 accounts, 1 group, a name of each kind to spare; 1 change, 1 rename, 1 failure | 509 000 |
| `access` | Is a request served exactly what its grants cover, while they change? | 1 request, 1 account, 1 group with a namesake at the provider, 3 paths; 1 change, 3 edits | 2 500 000 |
| `paths` | Do the prefix tests mean the subtree? Do the SQL conditions mean the rules, and does the optimisation change an answer? | a tree of 7 entries, 10 schedules of roots; roots and prefixes of up to 4 characters, requests of up to 5; a file, 2 directories, 2 rules, 1 publication | 2 500 000 |
| `ui` | Does each page show what was asked for last, and send what it shows? | 3 paths, 1 of them refused; 3 calls at a time; 3 fields, 2 operators, 2 values, 4 pasted texts, 2 edits, 2 queries; 1 name, 2 rows | 666 000 |
| `screen` | Can a visitor always sign in, and is the end of a session noticed? Are rows or entries lost? | cooldown 2, 2 calls beside those the page makes itself; tables of up to 4 rows of height 1 or 2; up to 4 entries of 3 sizes, 3 widths | 154 000 |
| `indexer_skipped`, `aggregator_readers`, `oidc_tokens`, `screen_signout` | see section 4 | smaller | |

Why these bounds are enough for the cases that matter

- `indexer`: three entries on one path put a directory, a directory in it and a file on the
  disk, so that a subtree can be lost as a whole, with a root above and a root inside the
  tree. A channel of 1 with two threads blocks senders; a batch of 2 leaves both a full
  and a partial batch for three records. Two runs are what it takes for one to reap,
  reuse or wrongly prune what the other left. One failure and one change happen at any
  step. The theorems of section 5 hold for any tree, any roots and any number of threads,
  runs, failures and changes.
- `aggregator`: three rows exceed `MaxSize` in any order, so saturation happens in the middle
  of a fold; initial indexes include an empty one and one with an orphan. Two requests are
  one that reads and one that waits behind the TRUNCATE.
- `oidc_session`: a clock of 5 intervals lets a session be claimed, the claim lapse, and be
  claimed again by another request before the first answer, and that answer then land after
  the second and be read by a third. Requests are interchangeable
  and are declared symmetric; the properties are all safety properties.
- `identities`: two accounts are one that is resolved and one still to do when the run
  fails. Ids are interchangeable (all properties are safety properties).
- `access`: the group of the host and a group of the provider have one name; one of two
  names is unsafe to fill in for `{user}`; two rules for suffixes of different length.
- `paths`: the alphabet has a name that is the first bytes of another (`a`, `a.`), a
  character that sorts before `/`, the wildcards and the escape of LIKE, `{user}` (one
  character here), and two names with one rendering.
- `paths`, search: two rules have every connector and negation once; with two directories,
  one attached aggregate can go to the wrong row. Of the two counts one exceeds `MaxInt32`, so
  that the join drops rows. Stats are published once during a request, any values
  for any rows; before it they are one of the two functions of `StatsBefore` (no row has stats, or the file
  and one directory have, the latter too many files), which keeps the run within minutes.
- `ui`: three calls are one of each kind of the browser, or three that supersede one
  another; on the admin page a change, the load after it and a test. The three fields
  are one of each shape (text, file type, time), with an operator that one has and another
  lacks; the limits typed are below and above what fs_api takes; the pasted
  texts are none, one with an unknown field, and two of an older build.
- `screen`: a cooldown of 2 ticks is still running, or over, when the tab comes back; two
  calls beside the page's own let a poll, a sign-out and a question for the mode
  overlap. Four rows with a threshold of 1 and an overscan of 1 leave rows undrawn on
  either side of a viewport of 1 or 2. Sizes 0, 2 and 9 in panes of 0, 10 and 16 give tiles
  that are drawn, too small, and without a size.

Fairness, and why the code justifies it

- `Indexer`: weak fairness of the threads of the walker and of `main()`, as the operating
  system schedules both, each of their steps without a failure (`UNCHANGED faults`): a
  failure is never required, nor is any step of the environment. With it every
  run ends (`RunEnds`): the consumer drains the channel whatever has failed.
- `Aggregator`: weak fairness of the run (without failures), and of each request that has been
  granted its lock or waits for one that stays free. PostgreSQL queues lock requests in
  order, so TRUNCATE is not overtaken for ever; this is part of `OpenStats`, not of
  the fairness. Without a request ending, a run would not end: queries of fs_api do.
- `Ui`: a request of the file browser is answered or fails (browsers end every fetch).
- `Shell`: weak fairness of `Settle` (a request is served, answered or fails), of the
  provider sending the tab back, and of the timer of the poll. Strong fairness of a poll
  being served, and of its answer landing: a network that loses every single poll for ever
  is not what `GoneIsNoticed` is about. Nothing obliges the visitor to do anything.
- The other modules state safety only.

What the runs show, property by property, is written above each property in its
module. Those that a reader should know first:

- `PruneIsJustified`: the cleanup deletes the row of an entry that was on disk throughout
  only if the run skipped it. `IInv`: why, step by step.
- `IndexIsScanned`: the refinement. Among what it asks beyond the invariants: a run touches no row outside
  its roots, writes nothing that was not so, and earlier sessions change only by being reaped.
- `SuccessReflectsDisk`, `NoOrphans`: what a completed run leaves is a state each path
  had while it ran, and every row hangs in the tree the API walks.
- `StatsAreTotals`: the refinement; users and directories of the same state of the index.
- `OutcomeIsHonest`, `OutcomeIsFinal`: sessions say what became of their run, and keep it.
- `EndedStaysEnded`, `RecheckedOncePerInterval`, `ServedOnFreshGroups`, `UncheckableIsShort`,
  `KnowledgeAdvances`: what a session is worth between two answers of the provider.
- `NeverHalfEmpty`, `RefreshedByRun`: the identity tables.
- `ServedWithinGrants` and `StandingGrantServes`: nothing beyond the grants of this very
  request, and all of them, whatever else is edited. The second holds while nobody is
  renamed on the host (a stored name is never updated, section 4).
- `RootsAreSeparate`, `RowsAreAddressable`, `RunRewritesItsRoots`, `ListedWithinGrants`,
  `ViewsAgree`, `UserOpensOwnDirectory`: strings against components. `ViewsAgree` compares the
  three tests of a grant: Go for listings, LIKE for searches, TypeScript for breadcrumbs. The
  two that speak of what grants open are about users who hold some.
- `SearchStaysInScope`, `NotIsComplement`, `DecoratedAsOfOneMoment`: the search. The last has no
  exception for a lookup that fails half-way or sees stats published after the statement,
  nor for large counts: it says what they may cost.
- `SupersededNeverLands`, `RefusalIsShown`, `ChildrenBelong`, `LoadingEnds`: the file browser.
- `AnswersLastAsked`, `TextIsTheForm`, `ServerTakesQuery`: the search page.
- `ListIsServers`, `PreviewIsCurrent`: the admin page.
- `LoginOffered`, `GoneIsNoticed`: the shell. `WindowCoversViewport`, `TilesCover`: long tables and
  the treemap.

`OutcomeIsFinal` and `RunStaysInScope` of `Indexer`, `MembersAreNamed` of `Identities` and
`NothingAwaitedInVain` of `Shell` are proved for every instance (section 5) and in no configuration; they, `IInv` of `Indexer`, `ShellInv` and the
`TypeOK` of each module can be added to one as they stand.

## 4. Where the code and its own words disagree

Four runs check what a comment says and find it violated; PROJECT.json quotes the
comment and the line.

- `indexer_skipped` (`PruneOnlyStale`): the gate before the cleanup asks for an aborted
  walk and a failed batch, not for entries that could not be read. A directory that cannot
  be listed once loses the rows below it, in a run that reports success.
- `aggregator_readers` (`ReadersKeepSeeing`): TRUNCATE locks readers out until the commit;
  they do not keep seeing the old stats, they wait.
- `oidc_tokens` (`TokenSpentOnce`): the claim of a recheck lapses after an interval whether
  or not the provider has answered; a slow answer lets a second request present the
  token that was just replaced, and its refusal deletes a session that is in order.
- `screen_signout` (`SignOutSticks`): a 401 that lands after the sign-out was carried out and
  before its answer mounts the login page without `noAutoRedirect`; the answer to the
  question it asks then sends the tab to the provider, which signs the user back in.

More were met while modelling. Where one touches a property, the property is stated with the
exception as a guard, so that it says what does hold; no run of their own shows them.

- A name in `identity_map` is never updated (`ON CONFLICT DO NOTHING`, main.rs:540), while
  README.md:161 and 177 say that a user's groups take effect with every run: `RefreshedByRun` is
  guarded by `renames = 0`.
- Load of a saved query, and Enter in a condition, are not inert while a search is under way
  (SearchPage.tsx:463, 640, 705), unlike the Run button, whose comment (674-676) gives the reason:
  `AnswersLastAsked` is guarded by `~overtaken`.
- A request that loses the claim of a recheck is served on the groups it loaded, however
  old (auth.go:228-235), while README.md:181 says changes at the provider take
  effect within the interval: `ServedOnFreshGroups` exempts requests that lost it.
- The UPDATE that stores an answer (auth.go:273) does not ask whether the claim it belongs to
  is still the last one: an answer that was overtaken overwrites the groups that a newer one
  brought. `KnowledgeAdvances` says when this can happen, and rows it has happened to are
  exempted (`claimed`) as those whose answer was lost.
- The reply to one kind of request of the file browser clears the loading flag of the
  other (useFileSystem.ts:54, 82): rows of the directory left may look current for a
  moment. `SupersededNeverLands` speaks of the time after the reply. "This directory is
  empty" can show while a listing is under way.
- The share in the panel is called that of the entry's parent (DetailPanel.tsx:11), but its
  total is of whatever directory the browser lists: a lookup that is answered after the
  user went on is shown over another directory's total (useFileSystem.ts:37-46 aborts
  only listings).
- Aggregates attached after the statement do not give the "same response" as the join, as the
  comment at search.go:158-163 says, even when nothing fails and nothing is published in
  between. The join (187, 245-253) decorates any row that dir_stats has, the
  lookup only rows of file_type 2 (269): a path that has become a file since the last
  aggregation has aggregates in one answer and none in the other. And the join reads
  `file_count` into `sql.NullInt32` (238; so do handlers.go:121 and 292) and leaves out a row
  with more than 2^31-1 files (262-265), while the lookup reads `sql.NullInt64` (312) and keeps it.
  `SameResponse` in `Search` is the comment's promise; with it as an INVARIANT of
  `Paths.cfg` TLC shows the first difference, and with `IsDir = {f1, d1, d2}` as well the second.
  `DecoratedAsOfOneMoment` is what both ways of answering do keep.
- A condition on the file type that is loaded with the value "" shows "Directory" and
  sends "".
- Rows are memoised (SearchPage.tsx:326-330), and a new `rowRef` closure per render (853) defeats
  that; measuring after a reset of the heights depends on the rows being drawn again.
- "limited to" below a result (SearchPage.tsx:804) names the limit in the form, not that of the query.
- On the admin page, two loads that overlap may leave the older table: `ListIsServers` is
  guarded by `~overlapped`. A test that overlaps a change shows what counted before:
  `PreviewIsCurrent` is guarded by `~mixed`. A change of a grant does not clear a preview,
  and loading the grants clears the error of another action.
- A resize that leaves the range as it was throws the heights away without drawing the
  spacers anew, and a table that is moved by what is above it, by more than the overscan,
  is not redrawn before the next scroll: both are guards of `WindowCoversViewport`.
- A 401 that answers a call of an earlier session signs out the user who has signed in
  since; `signedOut` is lost on reload; a request for the mode that fails shows the
  local form, whatever the mode; the badge of a running scan outlives a sign-out.

## 5. The theorems

They hold for every value of the constants that meets the named ASSUMEs of the modules, and
those say no more than the code or its environment guarantees. In every module the argument
is one inductive invariant per component: `Init` implies it, every action keeps it (one
lemma per action or group of actions), and the properties follow from it.

### IndexerProofs

For any tree, any scan roots, any number of threads, capacities, runs, failures and
changes. Assumed: ancestors form a tree, the roots of a run are not inside another,
capacities are positive.

| Theorem | Says |
|---|---|
| `TypeCorrect` | types; the channel and the batch keep their capacities |
| `Inductive` | `Spec => []IInv` |
| `CleanupIsSafe` | `Spec => PruneIsJustified` |
| `ScopeIsRespected` | `Spec => RunStaysInScope` |
| `SuccessIsHonest` | `Spec => []SuccessReflectsDisk` |
| `OutcomesAreFinal` | `Spec => OutcomeIsFinal` |
| `NoRowIsOrphaned` | `Spec => []NoOrphans` |
| `IndexerKeepsContract` | `Spec => IndexIsScanned`: the indexer implements `IndexContract` |

`PruneIsJustified` alone is not inductive: it says nothing of the time
before the cleanup. The invariant follows each entry that stays on disk from the walk to
`seen_hashes`. `NoneForgotten`: as long as the run has recorded no failure, such an
entry is `Accounted` for: it has been seen, or its record is in a thread's hand, in the channel or
in the batch, or the entry or a directory above it is still queued or being listed, or the run skipped it.
`StageFacts` says which of these places are empty at each stage of `main()`: past
`JoinProducer` only "seen" and "skipped" remain, and `CleanupStaleEntries` deletes
only what is not seen. Every failure either sets `insert_failed` or `panicked`, which the
gate tests, or ends the connection, with which the temporary table and so the whole
cleanup go. `DiskIsTree` is why an entry that stays keeps
its directories. `WalkInScope` carries `ScopeIsRespected`; `FreshRecords` and `OnlySeenRows` carry
`SuccessIsHonest`; `SessionIsOpen` carries `OutcomesAreFinal`. `NoRowIsOrphaned` needs one more
invariant, `ParentsFirst`: as long as no batch is lost, the walk reaches an entry below
a root only after the record of its directory has left the walker.

`IndexerKeepsContract` shows that each action is one of the contract's or a stutter. What `IInv` does not
say and it needs is `RunsApart`: between runs nothing is left of a run, the roots of one that runs are
configured ones, and past the setup a run with a connection has an open session. `SteadyIsSeen`, which
`CleanupIsSafe` and `SuccessIsHonest` rest on too, gives the two hard cases: at the cleanup, and at the
end, an entry that was on disk throughout and was not skipped has been seen.

### AggregatorProofs

For any tree, index, order of the rows, number of requests, runs, failures and writes.
Assumed: the tree is finite, sizes and times are natural numbers, sizes within `MaxSize`.

| Theorem | Says |
|---|---|
| `Inductive`, `TypeCorrect` | `Spec => []IInv`, and types |
| `OutcomesAreHonest` | `Spec => []OutcomeIsHonest` |
| `PublishesTotals` | `Spec => StatsAreTotals`: `Aggregator` implements `StatsContract` |

`FoldInv` says that the maps in memory are, at every moment, the totals of the rows folded so
far, in whatever order they came: the capped sum, the count, the least and the greatest time.
One more row is one more element of each set a total is of (`DirGrows`, `OwnerGrows`).
`StatsContract` states a sum as the number of bytes, a cardinality, capped at `MaxSize`; that
saturating addition in any order gives it is `SumGrows`. `TablesInv` says what the
transaction holds in the tables, `SessionInv` that a session is a success only once it has
committed. With them every step is an index step, a publication of both tables, or a stutter.

### OidcSessionProofs

For any number of sessions, requests, groups, changes, failures, any interval and lifetime.

| Theorem | Says |
|---|---|
| `Inductive`, `TypeCorrect` | `Spec => []IInv`, and types |
| `EndedSessionsStayEnded` | `Spec => []EndedStaysEnded` |
| `ProviderAskedOncePerInterval` | `Spec => []RecheckedOncePerInterval` |
| `UncheckableSessionsAreShort` | `Spec => []UncheckableIsShort` |
| `RequestsServedOnFreshGroups` | `Spec => []ServedOnFreshGroups` |
| `KnowledgeOnlyAdvances` | `Spec => KnowledgeAdvances` |

Tokens are presented an interval apart because claims are, and a claim is part of the
row: `SpendsOK` relates the tokens that were presented, those that a request is about to
present, and the last claim in the row. `InFlightOK`: a request that is asking holds the last
claim of its session or one more than an interval older. `LoadedOK` and `RowOK` follow
how old the groups of a row are from its claim to the request that is served on them.

### AccessProofs

For any accounts, groups, names, requests, grants, rules, runs, edits, changes, renames and
failures. Assumed of `Access`: a `{user}` grant is told apart from one on a path, each name has a home.

| Theorem | Says |
|---|---|
| `Inductive`, `TypeCorrect` | `IdSpec => []IInv`, and types of the identity tables |
| `MembershipsAreWhole` | `IdSpec => []NeverHalfEmpty` |
| `MembershipsAreNamed` | `IdSpec => []MembersAreNamed` |
| `InductiveFresh`, `RunsRefresh` | `IdSpec => []FInv`, `IdSpec => []RefreshedByRun` |
| `IdentitiesAsSpecified` | `Spec => IdSpec`: the tables in `Access` behave as `Identities` says |
| `AccessInductive`, `AccessTypeCorrect` | `Spec => []AInv`, and types |
| `ServedByGrants` | `Spec => []ServedWithinGrants`, also while accounts are renamed |
| `StandingGrantsServe` | `Spec => []StandingGrantServes` |

What readers see changes only at Commit, so the invariant must also speak of
the open transaction: `TxInv` says that, for every account already resolved, the
memberships that stand are in it, and that whatever it holds is named in it. A lookup that
fails, or a change on the host, takes the pairs it concerns out of `standing` and of `sure`.
`FInv` adds, for names that are not changed, that what is stored of a name is
current, and that tables and transaction hold exactly the memberships of the host, as far as
the run has got. In `Access` no request sees one state: it reads rules, grants and memberships one
after the other. `Seen` bounds what it can have got by all that stood while it was under way
(from above), `kept` by what stood throughout (from below); `Within` and `Standing` carry the two
bounds to the prefixes it compares. `Access` being a refinement of `IdSpec`, it has
the invariants of the identity tables without a second proof.

### PathsProofs

For any disk, any roots, grants, names and requests, of whatever characters. Assumed: the names
of entries are not empty, not `.` or `..`, and have no separator; what admins enter and names
that identities map to are UTF-8; the placeholder `{user}` is one character.

| Theorem | Says |
|---|---|
| `RootsSeparate` | `Spec => []RootsAreSeparate` |
| `RowsAddressable` | `Spec => []RowsAreAddressable` |
| `RunsKeepToTheirRoots` | `Spec => RunRewritesItsRoots` |
| `ListingsWithinGrants` | `GrantSpec => []ListedWithinGrants` |
| `UsersOpenTheirOwn` | `GrantSpec => []UserOpensOwnDirectory` |
| `ViewsAreOne` | `GrantSpec => []ViewsAgree` |

The inductive invariants are short (`RowsInv`, `GrantInv`: what is stored is the one spelling of
a list of names); the work is in what the string functions compute.
`Split`, `Walk`, `FlattenSeq` are folds, and a fold is shown to be determined by its value for
the empty list and one step (`FoldSteps`). By induction on lists then: splitting a joined path gives its
names back (`ComponentsOfJoin`), so that every absolute path has exactly one canonical
spelling; a joined path starts with another one and a separator exactly if its names start
with those (`JoinedBelow`), which is what `scan_root_covers`, `allows` and `underPrefix` each
rely on; filling in `{user}` is filling it in name by name (`JoinSubstituted`). LIKE is
a recursion on two positions: `MatchExists` shows, by induction on the distance to the ends, that
it defines a function, `PrefixMatches` and `TailMatches` that the pattern of `scopeClause`
matches exactly the texts that begin with the prefix and a separator (`LikeIsPrefix`), whatever wildcards
and backslashes the prefix has. A row whose name is not UTF-8 is rendered, and
rendering keeps every prefix that is UTF-8 (`RenderedKeeps`).

Of the search, for any index, stats and list of rules, with every connector and negation:

| Theorem | Says |
|---|---|
| `InductiveSearch` | `SearchSpec => []SearchInv` |
| `SearchIsScoped` | `SearchSpec => []SearchStaysInScope` |
| `NegationIsComplement` | `SearchSpec => []NotIsComplement` |
| `DecorationIsOfOneMoment` | `SearchSpec => []DecoratedAsOfOneMoment` |

`SearchInv` says that the rows of a response are of the scope from the statement on, and that
until the lookup the response is the page of the statement without aggregates, with the stats
that stand among those of `during`: whichever the lookup sees explains the answer, and
a lookup that fails after any of its rows leaves a page that the same stats explain (`LookupKeeps`).
Nothing is assumed of the counts.

### UiProofs

For any index, names, texts, values, and any number of calls, whatever the user
does and however replies arrive. Assumed: the pasted texts are JSON of a query; what
limits the admin page (`MaxRows`, `MaxCalls`) is at least 1; no row is lower than
`estimateHeight`, which is that of one line of text.

| Theorem | Says |
|---|---|
| `Inductive` | `UiSpec => []IInv` |
| `SupersededRepliesNeverLand` | `UiSpec => []SupersededNeverLands` |
| `RefusalsAreShown` | `UiSpec => []RefusalIsShown` |
| `PanelShowsItsOwn` | `UiSpec => []ChildrenBelong` |
| `TableAnswersLastQuery` | `UiSpec => []AnswersLastAsked` |
| `TableIsServers` | `UiSpec => []ListIsServers` |
| `PreviewsAreCurrent` | `UiSpec => []PreviewIsCurrent` |
| `InductiveForm` | `UiSpec => []FormInv` |
| `TextRoundTrips` | `UiSpec => []TextIsTheForm` |
| `QueriesAreTaken` | `UiSpec => []ServerTakesQuery` |
| `InductiveRows` | `RowsSpec => []RowsInv` |
| `RowsFillTheViewport` | `RowsSpec => []WindowCoversViewport` |

`CallsOK`: of each kind at most one call is live, and it is for what the page shows or will
show; with `ShownOK` a reply that lands is the one asked for last. `ListOK` and
`PreviewOK` follow a table of the admin page from the moment fs_api answers to the moment the
answer lands, with changes carried out in between. `FormInv` is the type of a form, which
every handler keeps: each condition has an operator its field has, whatever was pasted,
and the text is that of the form until somebody types.

`RowsInv`: a height that was measured is the one the row has, and unless a frame is due the range is
the one `compute` finds for the scroller as it is, with the anchor of that time. A sum of
heights is shown by induction to grow by at least the estimate with each row (`SumGrows`), and the rows as
they are to reach as far as `compute` assumed (`SumAbove`); the overscan rows before and after those in view
therefore make up for a table that has moved by no more than the overscan.

### ScreenProofs

For any entries, any sizes and any pane whose sides are within the assumption; for any number of
requests, answered, failed or abandoned in any order, and any setup of the login.

| Theorem | Says |
|---|---|
| `TilesAreComplete` | `TilesInit => TilesCover` |
| `InductiveShell` | `Spec => []ShellInv` |
| `NobodyWaitsInVain` | `Spec => []NothingAwaitedInVain` |

Fractions are in lowest terms, so that the division by the greatest common divisor has to be
shown exact (Euclid's algorithm, by induction on the second number) before sums, products
and comparisons can be read as those of numbers; two fractions are the same exactly if they are
crosswise. `sized` is a CHOOSE, and the sorted list it chooses is shown to exist by
inserting one entry after another; `drawn` and `rest` share it out, which is the
statement that no entry is lost.

The loop keeps `Layout`: the tiles placed are in the pane and apart from each other and from the
corner that is left, and the area of that corner is the sum of the areas queued. A row takes a strip off
the corner (`StripIs`) and fills it, whatever `RowLength` picks; so the sums agree again, and the queue is shorter.
As the corner always has the area of what is queued, and each queued tile at least `MIN_TILE_AREA`, the
guard of a hundredth of a pixel never ends the loop while something is queued (`RoomIsLeft`).

`NothingAwaitedInVain` is the safety half of `LoginOffered`: the blank screen, "Loading..." and the
disabled button each have a request under way whose sender is still there. That is not
inductive without `OfLoginPage`: a login page that went leaves neither a mode nor a request that is
still listened to, so that the next one starts anew.

### SequenceLemmas

The theorems of the library that state induction take an operator as a parameter, which
the provers cannot instantiate. Induction is stated for sets instead: a set of numbers with 0 and with the successor
of each of its members is `Nat` (`NumberInduction`, from the well-foundedness of `Nat`), a set of
lists with the empty one and with each of its members made longer is `Seq(A)`
(`ListInduction`). On them rest the facts on folds, `Without`, `FlattenSeq` and prefixes that
the other modules cite.

## 6. What is only model-checked, and what is not modelled

Only model-checked:

- liveness (`RunEnds`, `RequestsAreServed`, `LoadingEnds`, `LoginOffered`, `GoneIsNoticed`): the
  prover lacks ENABLED, on which fairness rests;
- what the code does not do (the four runs of section 4): a counterexample is their point.

Abstracted throughout: the hash of a path is the path (the hash width, which does matter,
is a variable); numbers other than the sums of the aggregator and the counts of the
search are model values; text that only people read is left out.

Not modelled

| Part | Why |
|---|---|
| Configuration, `${VAR}`, connection strings (`fs_common`, `config.go`) | read once by one process; the tests of the repository cover the cases |
| SHA-256 cut to 16 bytes, in Rust and in Go | a collision is out of reach; the tests compare vectors |
| Two runs of one program at a time; schema changes that wait for locks | planned (`ScanSessions`) |
| Local login, its rate limiter | planned (`LoginLimiter`) |
| The login redirect, its state cookie; which claim names a user, which domains may enter | one request and its cookie; data handling under unit tests |
| Preview of an identity; the filter of the usage page | planned, against `Access` |
| 404 of a missing directory, the 32-bit count in listings | planned (`Listing`) |
| Text operators, sizes with units, regular expressions, sorting and paging of the search | the shape of one SQL text |
| CSV export, copying to the clipboard, the selected row of a result; the theme; the label of the running scan | one handler each, no state that meets another |
| Rounding of the treemap to doubles | exact fractions stand for them |
| Usage, history and splash pages, presentation, generated documentation | no state that outlives a request |
| Routing, static files, debug log | no state after start |
| Units, timer, package, image | no program; what they decide about the programs is taken from them |

## 7. The plan

Written, in this order: `Indexer` with its proofs, as everything else shows what it wrote;
`Aggregator` against `StatsContract`; `OidcSession`; `Identities`, and
`Access` composed with it; `Paths`, `ScanRoots`, `GrantScope`; `FileBrowser`, `SearchPage`,
composed in `Ui`; `Search`; then the rest of the UI that keeps state: `SearchForm`, `AdminPage`,
the panel, `Shell`, `WindowedRows`, `Treemap`; then the proofs: of all safety properties that
the runs check, of the three refinements, and of the safety part of `Shell`.

To come, in this order:

1. `LoginLimiter`: attempts that pass `loginAllowed` before the lock, successes that
   clear it, the bound of the table of attempts; composed with the sessions of local mode.
2. `ScanSessions`: two runs of one program; the reap of a session that is still alive.
3. `Listing`: the 404 of a directory without rows, the 32-bit count, the preview of
   an identity and the usage filter against `Access`.
