---------------------------- MODULE MCRunBoundary ----------------------------
(* A small instance: one directory, one or two names, one file on disk.    *)
EXTENDS RunBoundary, TLC

CONSTANTS d1, a, b, x, y, z

PathA == <<d1, a>>
PathB == <<d1, b>>

MCSeed == [p \in Path |-> IF p = PathA THEN x ELSE None]

(* Directives that collide, miss their source, move, delete, or carry a    *)
(* content that does not survive the wire; the move is to the same place.  *)
MCVerbs ==
  { [op |-> "create", path |-> PathB, content |-> y, force |-> FALSE],
    [op |-> "modify", path |-> PathA, content |-> y],
    [op |-> "modify", path |-> PathA, content |-> z],
    [op |-> "delete", path |-> PathA],
    [op |-> "rename", path |-> PathA, newName |-> b, force |-> FALSE],
    [op |-> "move", path |-> PathA, toDir |-> d1, force |-> FALSE],
    [op |-> "copy", path |-> PathB, to |-> PathA, force |-> TRUE],
    [op |-> "copyIn", to |-> PathB, force |-> FALSE] }

(* Fewer, where the author's promises float: a modify that a delete        *)
(* before it makes fail.                                                   *)
MCFloatingVerbs ==
  { [op |-> "modify", path |-> PathA, content |-> y],
    [op |-> "delete", path |-> PathA] }

==============================================================================
