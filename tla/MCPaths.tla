------------------------------ MODULE MCPaths ------------------------------
(***************************************************************************)
(* What the index holds and what is found in it: ScanRoots, GrantScope and *)
(* Search, side by side.  Nothing ties a root to a grant, or a rule to     *)
(* either, so a behaviour is about one of four questions: which            *)
(* configurations are accepted, what runs over one index leave in it, what *)
(* grants let through, and what a search answers.  The variables of the    *)
(* others stand still.                                                     *)
(*                                                                         *)
(* The names are those that prefix tests confuse: "a" and "a." share their *)
(* first bytes ("." sorts before "/"), "x" and "r" have one rendering, "%" *)
(* and "_" are wildcards of LIKE, and "U" stands for {user}.               *)
(***************************************************************************)
EXTENDS ScanRoots, GrantScope, Search

CONSTANTS MaxSpelling, MaxPrefix, MaxRequest    \* bounds: lengths of the strings

\* Of Search: a file, two directories, and a name.
CONSTANTS f1, d1, d2, bob
MCRow == {f1, d1, d2}
Halves == {{f1, d1}, {d2}}

\* Bound: the stats a search may start from.  Any may be published while it runs.
StatsBefore ==
    {[row \in Row |-> {}],
     [row \in Row |-> CASE row = f1 -> {1} [] row = d1 -> {3} [] OTHER -> {}]}

VARIABLE question

a  == <<"a">>
ad == <<"a", ".">>
x  == <<"x">>
r  == <<"r">>

Tree == {<<>>, <<a>>, <<a, a>>, <<ad>>, <<ad, a>>, <<x>>, <<r>>}

Some == {<<"/">>, <<"/", "a">>, <<"/", "a", ".">>, <<"/", "a", "/", "a">>, <<"/", "r">>}
Spellings == BoundedSeq({"/", "a", "."}, MaxSpelling)

\* One root in every spelling, alone or beside another, and three together.
EverySpelling ==
    {{s} : s \in Spellings} \cup {{s, t} : s \in Spellings, t \in Some}
    \cup {o \in SUBSET Some : Cardinality(o) = 3}

\* What an operator may switch between.
Schedules ==
    {{<<"/">>}, {<<"/", ".", "/">>}, {<<"/", "a">>}, {<<"/", "a", "/">>}, {<<"/", "a", ".">>},
     {<<"/", "/", "a", "/", ".", "/", "a">>}, {<<"/", "r">>},
     {<<"/", "a">>, <<"/", "a", "/">>, <<"/", "a", ".">>}, {<<"/", "r", "/">>, <<"/", "a", "/", "a">>},
     {<<"/", "a">>, <<"/", "a", "/", "a">>}}

\* Every string of these letters up to a length, as an admin or a client may
\* enter it, and every path of up to two components.
Absolute(letters, n) == {Root \o s : s \in BoundedSeq(letters \cup {Slash}, n - 1)}
Entered == Absolute({"a", ".", "%", "_", "\\", "U"}, MaxPrefix)
Requests == Absolute({"a", "."}, MaxRequest)
Pieces == {a, ad, x, <<".", "a">>, <<"%">>, <<"_">>, <<"\\">>, <<"a", "%">>, <<"a", "a">>}
UnixNames == {<<>>, a, Dot, Dots, <<"a", "/", "a">>, ad}

MCIndexed == BoundedSeq(Pieces, 2)

NoGrants == grants = {} /\ name = <<>>
NoSearch == SearchInit /\ owner = [row \in Row |-> NULL] /\ stats = [row \in Row |-> {}] /\ scope = Row

MCInit ==
    \/ /\ question = "spelling" /\ config \in EverySpelling /\ roots = RootsOf(config)
       /\ disk = Entry /\ rows = {} /\ NoGrants /\ NoSearch
    \/ question = "runs" /\ Init /\ NoGrants /\ NoSearch
    \/ /\ question \in {"grants", "search"}
       /\ config = {Root} /\ roots = RootsOf(config) /\ disk = {<<>>} /\ rows = {}
       /\ IF question = "grants" THEN GrantInit /\ NoSearch
          ELSE NoGrants /\ SearchInit /\ stats \in StatsBefore

MCNext ==
    /\ UNCHANGED question
    /\ \/ question = "spelling" /\ UNCHANGED <<vars, grantVars, searchVars>>
       \/ question = "runs" /\ Next /\ UNCHANGED <<grantVars, searchVars>>
       \/ question = "grants" /\ GrantNext /\ UNCHANGED <<vars, searchVars>>
       \/ question = "search" /\ SearchNext /\ UNCHANGED <<vars, grantVars>>

MCSpec == MCInit /\ [][MCNext]_<<vars, question, grantVars, searchVars>>
=============================================================================
