-------------------------------- MODULE Vfs ---------------------------------
(***************************************************************************)
(* The virtual file system that the shell, the editor and the File Manager *)
(* call (kernel/filesystem/vfs.cpp): a table of file descriptors and one   *)
(* of directory handles over the volume.  The volume is the abstract       *)
(* FileStore that Fat32Write is shown to implement; what a call answers is *)
(* translated from the volume's code.  A disk error may make any call      *)
(* fail, and a call that changes the volume and fails may have taken       *)
(* effect.  At most MaxFaults calls fail.  How many clusters are free is   *)
(* left out: a call that takes clusters may find too few of them.          *)
(*                                                                         *)
(* A path is the sequence of its components, <<>> the root; a name is a    *)
(* number, and a directory is listed in the order of its names.            *)
(***************************************************************************)
EXTENDS Naturals, FiniteSetsExt, SequencesExt

CONSTANTS
    Root, Directories, Names, Contents,   \* of FileStore
    FileDescriptors,    \* kFirstFileDescriptor .. kFileDescriptorCount - 1
    DirHandles,         \* 0 .. kDirectoryHandleCount - 1
    MaxFaults

VARIABLES
    tree,               \* the entries of the volume
    file_descriptors,   \* what each descriptor in use stands for, or Unused
    directory_handles,
    faults              \* the calls that failed so far

vfs_vars == <<tree, file_descriptors, directory_handles, faults>>

Store == INSTANCE FileStore

Unused == [in_use |-> FALSE]

VfsInit(volume) ==
    /\ tree = volume
    /\ file_descriptors = [fd \in FileDescriptors |-> Unused]
    /\ directory_handles = [handle \in DirHandles |-> Unused]
    /\ faults = 0

-----------------------------------------------------------------------------
(***************************************************************************)
(* What the volume answers.                                                *)
(***************************************************************************)
Found(kind, contents) == [status |-> "Ok", kind |-> kind, contents |-> contents]
Absent(status) == [status |-> status, kind |-> "none", contents |-> <<>>]

component(found, name) ==
    IF found.status # "Ok" THEN found
    ELSE IF found.kind # "directory" THEN Absent("NotDirectory")
    ELSE IF ~Store!Taken(found.contents, name) THEN Absent("NotFound")
    ELSE LET e == CHOOSE e \in tree : e.dir = found.contents /\ e.name = name
         IN Found(e.kind, e.contents)

lookup(path) == FoldLeft(component, Found("directory", Root), path)

\* The entries of a directory, as readdir hands them out one by one.
listing(directory) ==
    SetToSortSeq({[name |-> e.name, is_directory |-> e.kind = "directory"] :
                     e \in {f \in tree : f.dir = directory}},
                 LAMBDA a, b : a.name < b.name)

\* A call that only reads: the answer, or a disk error.
Reads(answer) ==
    {answer} \cup (IF faults < MaxFaults THEN {Absent("IoError")} ELSE {})

-----------------------------------------------------------------------------
(***************************************************************************)
(* The calls that change the volume: the status, the tree a successful     *)
(* call leaves, and the trees a call that fails may leave.                 *)
(***************************************************************************)
Answer(status, after) ==
    [status |-> status, tree |-> after, torn |-> {tree, after}, allocates |-> FALSE]
Refused(status) == Answer(status, tree)

\* A call that takes clusters: for contents, or for a directory that has no
\* free slot left.
Allocates(after) == [Answer("Ok", after) EXCEPT !.allocates = TRUE]

resolve_path(path) ==
    IF path = <<>> THEN "InvalidName"
    ELSE LET parent == lookup(Front(path)) IN
         IF parent.status = "Ok" /\ parent.kind # "directory" THEN "NotDirectory"
         ELSE parent.status

parent_of(path) == lookup(Front(path)).contents
exists(path) == lookup(path).status = "Ok"
is_directory(path) == lookup(path).kind = "directory"
entry_at(path) == CHOOSE e \in tree : e.dir = parent_of(path) /\ e.name = Last(path)

touch(path) ==
    IF resolve_path(path) # "Ok" THEN Refused(resolve_path(path))
    ELSE IF exists(path) THEN Refused(IF is_directory(path) THEN "IsDirectory" ELSE "Ok")
    ELSE Allocates(tree \cup {Store!File(parent_of(path), Last(path), <<>>)})

mkdir(path) ==
    IF resolve_path(path) # "Ok" THEN Refused(resolve_path(path))
    ELSE IF exists(path) THEN Refused("AlreadyExists")
    ELSE IF Directories \subseteq Store!Existing THEN Refused("NoSpace")
    ELSE LET fresh == CHOOSE d \in Directories : d \notin Store!Existing
         IN Allocates(tree \cup {Store!Directory(parent_of(path), Last(path), fresh)})

remove(path) ==
    IF resolve_path(path) # "Ok" THEN Refused(resolve_path(path))
    ELSE IF ~exists(path) THEN Refused("NotFound")
    ELSE IF \E e \in tree : e.dir = lookup(path).contents THEN Refused("DirectoryNotEmpty")
    ELSE Answer("Ok", tree \ {entry_at(path)})

write_file(path, data) ==
    IF resolve_path(path) # "Ok" THEN Refused(resolve_path(path))
    ELSE IF exists(path) /\ is_directory(path) THEN Refused("IsDirectory")
    ELSE LET after == {e \in tree : e.dir # parent_of(path) \/ e.name # Last(path)}
                          \cup {Store!File(parent_of(path), Last(path), data)}
         IN IF exists(path) /\ data = <<>> THEN Answer("Ok", after) ELSE Allocates(after)

copy_file(source, destination) ==
    IF resolve_path(source) # "Ok" THEN Refused(resolve_path(source))
    ELSE IF ~exists(source) THEN Refused("NotFound")
    ELSE IF is_directory(source) THEN Refused("IsDirectory")
    ELSE IF resolve_path(destination) # "Ok" THEN Refused(resolve_path(destination))
    ELSE IF exists(destination) THEN Refused("AlreadyExists")
    ELSE Allocates(tree \cup {Store!File(parent_of(destination), Last(destination),
                                         lookup(source).contents)})

move(source, destination) ==
    IF resolve_path(source) # "Ok" THEN Refused(resolve_path(source))
    ELSE IF ~exists(source) THEN Refused("NotFound")
    ELSE IF resolve_path(destination) # "Ok" THEN Refused(resolve_path(destination))
    ELSE IF exists(destination) THEN Refused("AlreadyExists")
    ELSE IF is_directory(source) /\ parent_of(source) # parent_of(destination)
         THEN Refused("Unsupported")
    ELSE LET moved == [entry_at(source) EXCEPT !.dir = parent_of(destination),
                                               !.name = Last(destination)]
             after == (tree \ {entry_at(source)}) \cup {moved}
         IN IF parent_of(source) = parent_of(destination) THEN Answer("Ok", after)
            ELSE [Allocates(after) EXCEPT !.torn = {tree, tree \cup {moved}, after}]

\* A call that changes the volume: its answer, a failure that tore it, or
\* a full volume, which changes nothing.
Mutates(answer) ==
    {answer}
    \cup (IF faults < MaxFaults /\ answer.status = "Ok"
          THEN {Answer("IoError", t) : t \in answer.torn} ELSE {})
    \cup (IF answer.allocates THEN {Refused("NoSpace")} ELSE {})

\* The faults after a call that was given this answer.
CountFault(answer) ==
    faults' = faults + (IF answer.status = "IoError" THEN 1 ELSE 0)

-----------------------------------------------------------------------------
(***************************************************************************)
(* The tables.  opendir and open answer the status and the handle; the     *)
(* handle is the first free one.                                           *)
(***************************************************************************)
free(table) == {h \in DOMAIN table : ~table[h].in_use}

opendir_status(answer) ==
    IF answer.status # "Ok" THEN answer.status
    ELSE IF answer.kind # "directory" THEN "NotDirectory"
    ELSE IF free(directory_handles) = {} THEN "TooManyOpenDirectories" ELSE "Ok"

opendir_early(path, answer) ==
    directory_handles' =
        IF free(directory_handles) = {} THEN directory_handles
        ELSE [directory_handles EXCEPT ![Min(free(directory_handles))] =
                 [in_use |-> TRUE, path |-> path, next_index |-> 0]]

opendir(path, answer) ==
    directory_handles' =
        IF opendir_status(answer) # "Ok" THEN directory_handles
        ELSE [directory_handles EXCEPT ![Min(free(directory_handles))] =
                 [in_use |-> TRUE, path |-> path, next_index |-> 0]]

open_status(answer) ==
    IF answer.status # "Ok" THEN answer.status
    ELSE IF answer.kind = "directory" THEN "IsDirectory"
    ELSE IF free(file_descriptors) = {} THEN "TooManyOpenFiles" ELSE "Ok"

open(path, answer) ==
    file_descriptors' =
        IF open_status(answer) # "Ok" THEN file_descriptors
        ELSE [file_descriptors EXCEPT ![Min(free(file_descriptors))] =
                 [in_use |-> TRUE, path |-> path, offset |-> 0,
                  size |-> Len(answer.contents)]]

\* readdir reads the directory anew for every entry: `rest` is what the
\* listing of the handle's path holds from next_index on.
rest(handle) ==
    LET slot == directory_handles[handle] IN
    LET found == lookup(slot.path) IN
    [found EXCEPT !.contents =
        IF found.status = "Ok" /\ found.kind = "directory"
        THEN SubSeq(listing(found.contents), slot.next_index + 1,
                    Len(listing(found.contents)))
        ELSE <<>>]

readdir(handle, answer) ==
    directory_handles' =
        IF answer.status # "Ok" \/ answer.contents = <<>> THEN directory_handles
        ELSE [directory_handles EXCEPT ![handle].next_index = @ + 1]

closedir(handle) ==
    directory_handles' = [directory_handles EXCEPT ![handle] = Unused]

\* At most `size` bytes of the file from the descriptor's offset on.  A file
\* whose size is not the one seen by open is taken for a corrupt one.
read_answer(fd, size) ==
    LET slot == file_descriptors[fd] IN
    LET found == lookup(slot.path) IN
    IF found.status = "Ok" /\ found.kind = "file" /\ Len(found.contents) = slot.size
    THEN Found("file", SubSeq(found.contents, slot.offset + 1,
                              Min({slot.offset + size, slot.size})))
    ELSE Absent(IF found.status # "Ok" THEN found.status
                ELSE IF found.kind # "file" THEN "IsDirectory" ELSE "Corrupt")

read_again(fd, answer) == UNCHANGED file_descriptors

read(fd, answer) ==
    file_descriptors' =
        IF answer.status # "Ok" THEN file_descriptors
        ELSE [file_descriptors EXCEPT ![fd].offset = @ + Len(answer.contents)]

close(fd) ==
    file_descriptors' = [file_descriptors EXCEPT ![fd] = Unused]
=============================================================================
