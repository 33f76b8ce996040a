----------------------------- MODULE ScanRoots -----------------------------
(***************************************************************************)
(* The scan roots, as strings: what fs_common accepts, what the walker     *)
(* emits below them, and which rows the cleanup of fs_indexer deletes.     *)
(* Runs with different roots share one index.  The walk itself, its        *)
(* failures and its interleaving with the disk are in Indexer; here a run  *)
(* is one step, and every path is spelled out.                             *)
(***************************************************************************)
EXTENDS Paths, FiniteSets

CONSTANTS
    Entry,            \* what may be on disk: lists of components
    RootConfig        \* what root_path and root_paths may hold together

ASSUME RootsAssumption ==
    /\ Entry \subseteq Seq(EntryName)
    /\ <<>> \in Entry /\ \A e \in Entry : e # <<>> => Front(e) \in Entry
    /\ RootConfig \subseteq (SUBSET Seq(STRING)) \ {{}}

VARIABLES
    config,           \* root_path and root_paths, as written
    roots,            \* IndexerConfig::roots of it, {} when it is refused
    disk,             \* what is on disk
    rows              \* filesystem_index

vars == <<config, roots, disk, rows>>

\* An error: no accepted root is the empty string.
Refused == <<>>

\* Mutation: trailing separators and "." are kept.
normalizeAsWritten(raw) == IF IsAbsolute(raw) /\ ~ Contains(Split(raw), Dots) THEN raw ELSE Refused

normalize_scan_root(raw) ==
    IF IsAbsolute(raw) /\ ~ Contains(Split(raw), Dots)
    THEN Join(Without(Split(raw), {<<>>, Dot}))
    ELSE Refused

\* Mutation: no trailing separator.
scan_root_prefix_bare(root) == root

scan_root_prefix(root) == IF root = Root THEN root ELSE root \o Root

scan_root_covers(root, path) == path = root \/ IsPrefix(scan_root_prefix(root), path)

\* The roots of a configuration, or {} when it is refused.
RootsOf(raws) ==
    LET normal == {normalize_scan_root(raw) : raw \in raws}
    IN  IF \/ Refused \in normal
           \/ \E a, b \in normal : a # b /\ scan_root_covers(a, b)
        THEN {}
        ELSE normal

\* The walker reports a root under the string it was handed and whatever is
\* below it as that string joined with names.
Emitted(root) ==
    LET base == Components(root)
        Under(names) == IF names = <<>> THEN root
                        ELSE IF Last(root) = Slash THEN Front(root) \o Join(names)
                        ELSE root \o Join(names)
    IN  {Under(SubSeq(e, Len(base) + 1, Len(e))) : e \in {d \in disk : Below(d, base)}}

\* The bytes of a row: COALESCE(path_raw, convert_to(path, 'UTF8')).
Bytes(row) == IF row.path_raw = NoRaw THEN row.path ELSE row.path_raw

\* Mutation: the rendering is compared.
InScopeRendered(row, rs) ==
    \/ Root \in rs
    \/ \E root \in rs :
         \/ row.path = root
         \/ IsPrefix(scan_root_prefix(root), row.path)

\* The scope of cleanup_stale_entries.
InScope(row, rs) ==
    \/ Root \in rs
    \/ \E root \in rs :
         \/ Bytes(row) = root
         \/ IsPrefix(scan_root_prefix(root), Bytes(row))

\* get_parent_path: what parent_hash is taken over.
Parent(bytes) ==
    LET last == SelectLastInSeq(bytes, LAMBDA c : c = Slash)
    IN  IF last = 1 THEN Root ELSE SubSeq(bytes, 1, last - 1)

Init ==
    /\ config \in RootConfig /\ roots = RootsOf(config)
    /\ disk = Entry /\ rows = {}

\* The operator edits fs_config.yml before the next run.
Configure ==
    /\ config' \in RootConfig /\ roots' = RootsOf(config')
    /\ UNCHANGED <<disk, rows>>

\* A whole run; with a refused configuration there is none.
Run ==
    /\ roots # {}
    /\ rows' = {row \in rows : ~ InScope(row, roots)}
               \cup {RowOf(bytes) : bytes \in UNION {Emitted(root) : root \in roots}}
    /\ UNCHANGED <<config, roots, disk>>

Appear ==
    /\ \E e \in Entry \ disk : e # <<>> /\ Front(e) \in disk /\ disk' = disk \cup {e}
    /\ UNCHANGED <<config, roots, rows>>

Vanish ==
    /\ \E e \in disk \ {<<>>} : disk' = {d \in disk : ~ Below(d, e)}
    /\ UNCHANGED <<config, roots, rows>>

Next == Configure \/ Run \/ Appear \/ Vanish
Spec == Init /\ [][Next]_vars

-----------------------------------------------------------------------------
Names(row) == Components(Bytes(row))

\* What roots() promises: the accepted roots are separate subtrees, and a
\* configuration is refused only for a path that is not absolute, for "..", or
\* because two of its roots do overlap.
RootsAreSeparate ==
    LET bases == {Components(raw) : raw \in config}
        legal == \A raw \in config : IsAbsolute(raw) /\ ~ Contains(Split(raw), Dots)
        apart == \A p, q \in bases : Below(p, q) => p = q
    IN  /\ roots # {} <=> legal /\ apart
        /\ roots # {} => {Components(root) : root \in roots} = bases

\* A row is stored under the one string the API asks for, and its parent link
\* is the string its directory is stored under: no scanned directory reads as
\* empty in /api/list, whatever the spelling of the root.
RowsAreAddressable ==
    \A row \in rows : /\ Bytes(row) = Join(Names(row))
                      /\ Names(row) # <<>> => Parent(Bytes(row)) = Join(Front(Names(row)))

\* A run leaves below its roots exactly what is on disk, and elsewhere exactly
\* the rows that earlier runs wrote: separate roots can be scanned on separate
\* schedules against one index.
RunRewritesItsRoots ==
    [][Run => /\ \A row \in rows \cup rows' :
                   IF \E root \in roots : Below(Names(row), Components(root))
                   THEN row \in rows' <=> Names(row) \in disk
                   ELSE row \in rows' <=> row \in rows
              /\ \A e \in disk : (\E root \in roots : Below(e, Components(root)))
                                => RowOf(Join(e)) \in rows']_vars
=============================================================================
