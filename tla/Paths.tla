------------------------------- MODULE Paths -------------------------------
(***************************************************************************)
(* Paths as strings, for the modules about the code that cuts, joins and   *)
(* compares them.  A string is a sequence of characters; what a path names *)
(* is the list of its components.  Rust (fs_common) and Go (fs_api) bring  *)
(* paths to the same form with code of their own: normalize_scan_root and  *)
(* path.Clean.                                                             *)
(***************************************************************************)
EXTENDS Naturals, SeqFilter

Slash == "/"
Root  == <<Slash>>
Dot   == <<".">>
Dots  == <<".", ".">>

\* A byte that is not UTF-8, and the character from_utf8_lossy puts for it.
Invalid     == "x"
Replacement == "r"

\* The name of a directory entry: the kernel allows no separator in one, and
\* keeps "." and ".." to itself.
EntryName == {n \in Seq(STRING) : n \notin {<<>>, Dot, Dots} /\ ~ Contains(n, Slash)}

IsAbsolute(s) == s # <<>> /\ s[1] = Slash

\* The pieces between separators, the empty ones included.
Split(s) ==
    FoldLeft(LAMBDA pieces, c : IF c = Slash
                                THEN Append(pieces, <<>>)
                                ELSE [pieces EXCEPT ![Len(pieces)] = Append(@, c)],
             << <<>> >>, s)

Join(names) ==
    IF names = <<>> THEN Root ELSE FlattenSeq([i \in DOMAIN names |-> Root \o names[i]])

\* What the pieces of an absolute path name: empty ones and "." are skipped,
\* ".." goes up.
Walk(pieces) ==
    FoldLeft(LAMBDA names, piece :
                 CASE piece \in {<<>>, Dot}          -> names
                   [] piece = Dots /\ names = <<>>   -> names
                   [] piece = Dots /\ names # <<>>   -> Front(names)
                   [] OTHER                          -> Append(names, piece),
             <<>>, pieces)

Components(s) == Walk(Split(s))

\* path.Clean of Go's library, for absolute paths.
Clean(s) == Join(Components(s))

\* The reference for every prefix test: component by component.
Below(names, ancestor) == IsPrefix(ancestor, names)

\* String::from_utf8_lossy, and the row stored for the bytes of a path.
Rendered(bytes) == [i \in DOMAIN bytes |-> IF bytes[i] = Invalid THEN Replacement ELSE bytes[i]]
NoRaw == <<>>
RowOf(bytes) ==
    [path |-> Rendered(bytes), path_raw |-> IF Rendered(bytes) = bytes THEN NoRaw ELSE bytes]
=============================================================================
