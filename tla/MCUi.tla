-------------------------------- MODULE MCUi --------------------------------
(* A root with a directory with a file, which itself has no listing; texts   *)
(* of queries that are none, name an unknown field, and are of an older      *)
(* build, whose operators, columns and limit are not today's.                *)
EXTENDS Ui
CONSTANTS root, dir, file, n1

MCPath  == {root, dir, file}
MCChild == [p \in MCPath |-> IF p = root THEN {dir} ELSE IF p = dir THEN {file} ELSE {}]

OldRule == [field |-> "mtime", operator |-> "not_equals", value |-> "v",
            connector |-> "XOR", negate |-> TRUE]
Saved(rule, sort, limit, columns) ==
    [rules |-> <<rule>>, sort_by |-> sort, order |-> "DESC", limit |-> limit,
     columns |-> columns]
MCPasted ==
    {[rules |-> <<>>],
     Saved([OldRule EXCEPT !.field = "inode"], "path", 0, {}),
     Saved(OldRule, "user", 20000, {"user", "inode"}),
     Saved([OldRule EXCEPT !.field = "path", !.value = ""], "path", 0, {})}
=============================================================================
