----------------------------- MODULE FileStore ------------------------------
(***************************************************************************)
(* What the writable FAT32 volume promises to its users: a tree of named   *)
(* files and directories in which one step changes one name, and in which  *)
(* a file always has the whole contents that somebody gave it.  A call     *)
(* that fails may have taken its step or not; a file that is moved to      *)
(* another directory is created there before its old name is deleted.      *)
(*                                                                         *)
(* Fat32Write.tla is shown to implement this specification.                *)
(***************************************************************************)
EXTENDS Naturals

CONSTANTS
    Root,          \* the root directory
    Directories,   \* what identifies a directory other than the root
    Names,
    Contents       \* what a file may contain

VARIABLE tree      \* the set of all entries

File(d, n, c) == [dir |-> d, name |-> n, kind |-> "file", contents |-> c]
Directory(d, n, i) == [dir |-> d, name |-> n, kind |-> "directory", contents |-> i]

Existing == {Root} \cup {e.contents : e \in {f \in tree : f.kind = "directory"}}
Taken(d, n) == \E e \in tree : e.dir = d /\ e.name = n

Init == tree = {}

Create(d, n) ==
    /\ d \in Existing
    /\ ~Taken(d, n)
    /\ \/ \E c \in Contents : tree' = tree \cup {File(d, n, c)}
       \/ \E i \in Directories \ Existing : tree' = tree \cup {Directory(d, n, i)}

Replace(e) ==
    /\ e.kind = "file"
    /\ \E c \in Contents : tree' = (tree \ {e}) \cup {File(e.dir, e.name, c)}

Rename(e, n) ==
    /\ ~Taken(e.dir, n)
    /\ tree' = (tree \ {e}) \cup {[e EXCEPT !.name = n]}

\* Only a directory without entries can be deleted.
Delete(e) ==
    /\ e.kind = "directory" => \A f \in tree : f.dir # e.contents
    /\ tree' = tree \ {e}

Next ==
    \/ \E d \in Existing, n \in Names : Create(d, n)
    \/ \E e \in tree : Replace(e) \/ Delete(e) \/ \E n \in Names : Rename(e, n)

Spec == Init /\ [][Next]_tree
=============================================================================
