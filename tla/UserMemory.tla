---------------------------- MODULE UserMemory ----------------------------
(***************************************************************************)
(* The physical pages of user processes: load_process_image takes them     *)
(* (user/elf.cpp), create_user_address_space and map_user_page build page  *)
(* tables of them (memory/user_space.cpp), and reap_one gives them back    *)
(* (process/process.cpp).  Start-up loads the images one after the other;  *)
(* when one fails, all processes are discarded.                            *)
(*                                                                         *)
(* A virtual page is named by the path to it, <<pml4, pdpt, pd, pt>> in    *)
(* indices; its tables are named by the prefixes of the path.              *)
(*                                                                         *)
(* What the pages hold is left out, and so are the checks of the ELF file: *)
(* an image is the sequence of the virtual pages of its segments, or it is *)
(* rejected.  The checks let only pages in the range of images pass, and   *)
(* no page twice.                                                          *)
(***************************************************************************)
EXTENDS PageBitmap, Sequences

CONSTANTS
    Slots,         \* indices of g_processes, from 1
    Startup,       \* number of images that start-up loads
    Images,        \* images: sequences of virtual pages; <<>> is rejected
    Stack,         \* the virtual pages of the user stack
    Executable     \* virtual pages of executable segments

Entries(s) == {s[i] : i \in DOMAIN s}
Leaves == UNION {Entries(s) : s \in Images} \cup Entries(Stack)
Prefix(v, n) == SubSeq(v, 1, n)
Root == <<>>
KernelStack == <<-1>>
Tables == {Root} \cup {Prefix(v, n) : v \in Leaves, n \in 1 .. 3}
Places == Tables \cup Leaves \cup {KernelStack}
None == -1

ASSUME LayoutAssumption ==
    /\ Slots \subseteq Nat
    /\ Startup \in Nat
    /\ \A v \in Leaves : v \notin Tables \cup {KernelStack}
    /\ KernelStack \notin Tables
    /\ Images \subseteq Seq(Leaves) /\ Stack \in Seq(Leaves) \ {<<>>}
    /\ \A image \in Images : \A i, j \in DOMAIN (image \o Stack) :
         (image \o Stack)[i] = (image \o Stack)[j] => i = j

VARIABLES
    nxe,           \* nxe_enabled()
    state,         \* Process::state
    page,          \* the page at each place of each process, or None
    at,            \* where start-up is
    loaded,        \* images loaded so far
    current,       \* the process being loaded
    todo,          \* virtual pages still to be mapped
    user_pages,    \* user_pages of load_process_image
    leaf,          \* physical_page of load_process_image
    kernel,        \* history: pages in use before start-up
    refused        \* history: a call of free_page was refused

loader == <<at, loaded, current, todo, user_pages, leaf>>
vars == <<bitmap, nxe, state, page, loader, kernel, refused>>

Empty == [q \in Places |-> None]

\* The kernel has taken some pages for tables of its own.  None of them is
\* for the two root entries of user memory, so create_user_address_space
\* never finds these entries in use.
Init ==
    /\ nxe \in BOOLEAN
    /\ \E n \in {0} \cup {i + 1 : i \in Pages \ Reserved} :
         /\ kernel = Reserved \cup 0 .. n - 1
         /\ next_hint = IF n = PageCount THEN 0 ELSE n
    /\ used = kernel
    /\ free_count = PageCount - Cardinality(kernel)
    /\ state = [p \in Slots |-> "Unused"]
    /\ page = [p \in Slots |-> Empty]
    /\ at = "allocate" /\ loaded = 0
    /\ current \in Slots
    /\ todo = <<>> /\ user_pages = {} /\ leaf = None
    /\ refused = FALSE

-----------------------------------------------------------------------------
(* load_process_image.                                                     *)

put(q, i) == page' = [page EXCEPT ![current][q] = i]
becomes(s) == state' = [state EXCEPT ![current] = s]

\* process::allocate, and the part of load_process_image that reads the file
\* and checks it.
allocate_process ==
    /\ at = "allocate"
    /\ \E p \in Slots, image \in Images :
         /\ state[p] = "Unused" /\ \A q \in Slots : q < p => state[q] # "Unused"
         /\ current' = p
         /\ IF image = <<>>
            THEN at' = "discard" /\ todo' = <<>> /\ UNCHANGED state
            ELSE at' = "space" /\ todo' = image \o Stack
                 /\ state' = [state EXCEPT ![p] = "Created"]
    /\ UNCHANGED <<bitmap, nxe, page, loaded, user_pages, leaf, kernel, refused>>

create_user_address_space ==
    /\ at = "space"
    /\ \/ \E i \in Pages : allocate_page(i) /\ put(Root, i)
          /\ at' = "page" /\ UNCHANGED state
       \/ /\ exhausted /\ becomes("Unused") /\ at' = "discard"
          /\ UNCHANGED <<bitmap, page>>
    /\ UNCHANGED <<nxe, loaded, current, todo, user_pages, leaf, kernel, refused>>

\* make_user_page_flags
flags_allowed(v) == v \in Executable \/ nxe

\* A page for the next virtual page.
allocate_leaf ==
    /\ at = "page"
    /\ \/ \E i \in Pages :
            /\ allocate_page(i)
            /\ user_pages' = user_pages \cup {i} /\ leaf' = i
            /\ at' = IF flags_allowed(Head(todo)) THEN "table" ELSE "cleanup"
       \/ /\ exhausted /\ at' = "cleanup"
          /\ UNCHANGED <<bitmap, user_pages, leaf>>
    /\ UNCHANGED <<nxe, state, page, loaded, current, todo, kernel, refused>>

\* Mutant: the last table is taken for granted.
missing_above(v) == {n \in 1 .. 2 : page[current][Prefix(v, n)] = None}
\* The tables on the way to v that are still missing, from the root.
missing(v) == {n \in 1 .. 3 : page[current][Prefix(v, n)] = None}

\* child, where the entry is not present.
child ==
    /\ at = "table"
    /\ \E n \in missing(Head(todo)) :
         /\ \A m \in missing(Head(todo)) : n <= m
         /\ \/ /\ \E i \in Pages : allocate_page(i) /\ put(Prefix(Head(todo), n), i)
               /\ UNCHANGED at
            \/ /\ exhausted /\ at' = "cleanup"
               /\ UNCHANGED <<bitmap, page>>
    /\ UNCHANGED <<nxe, state, loaded, current, todo, user_pages, leaf, kernel, refused>>

\* The end of map_user_page.
map_user_page ==
    /\ at = "table"
    /\ missing(Head(todo)) = {}
    /\ put(Head(todo), leaf)
    /\ todo' = Tail(todo)
    /\ at' = IF Tail(todo) = <<>> THEN "stack" ELSE "page"
    /\ UNCHANGED <<bitmap, nxe, state, loaded, current, user_pages, leaf, kernel, refused>>

after_load == IF loaded + 1 = Startup THEN "run" ELSE "allocate"

\* The kernel stack, and the process is ready.
kernel_stack ==
    /\ at = "stack"
    /\ \/ /\ \E i \in Pages : allocate_page(i) /\ put(KernelStack, i)
          /\ becomes("Ready")
          /\ user_pages' = {} /\ leaf' = None
          /\ loaded' = loaded + 1 /\ at' = after_load
       \/ /\ exhausted /\ at' = "cleanup"
          /\ UNCHANGED <<bitmap, page, state, user_pages, leaf, loaded>>
    /\ UNCHANGED <<nxe, current, todo, kernel, refused>>

-----------------------------------------------------------------------------
(* Giving pages back.                                                      *)

pages_at(p, places) == {page[p][q] : q \in places} \ {None}

\* Mutant: only the root is given back.
destroyed_root == {Root}

\* The places whose pages destroy_user_address_space gives back.
destroyed == Tables

\* free_page is refused for a page that is reserved, not in use, or given
\* back before.
refusal(S) == ~(S \subseteq used \ Reserved)
overlap(p, A, B) == pages_at(p, A) \cap pages_at(p, B) # {}

cleanup ==
    LET S == user_pages \cup pages_at(current, destroyed)
    IN /\ at = "cleanup"
       /\ free_pages(S)
       /\ refused' = (refused \/ refusal(S) \/ user_pages \cap pages_at(current, destroyed) # {})
       /\ page' = [page EXCEPT ![current] = Empty]
       /\ becomes("Unused")
       /\ user_pages' = {} /\ leaf' = None /\ todo' = <<>>
       /\ at' = "discard"
       /\ UNCHANGED <<nxe, loaded, current, kernel>>

\* What reap_one gives back: what is mapped, then the tables, then the
\* kernel stack.
reaped == Leaves \cup destroyed \cup {KernelStack}

\* reap_exited, when the processes ps have exited.
reap(ps) ==
    LET S == UNION {pages_at(p, reaped) : p \in ps}
    IN /\ free_pages(S)
       /\ refused' = (\/ refused \/ refusal(S)
                      \/ \E p \in ps : \/ overlap(p, Leaves, destroyed)
                                       \/ overlap(p, Leaves \cup destroyed, {KernelStack})
                      \/ \E p, q \in ps : p # q /\ pages_at(p, reaped) \cap pages_at(q, reaped) # {})
       /\ page' = [p \in Slots |-> IF p \in ps THEN Empty ELSE page[p]]
       /\ state' = [p \in Slots |-> IF p \in ps THEN "Unused" ELSE state[p]]

discard_startup_processes ==
    /\ at = "discard"
    /\ reap({p \in Slots : state[p] # "Unused"})
    /\ at' = "run"
    /\ UNCHANGED <<nxe, loaded, current, todo, user_pages, leaf, kernel>>

mark_exited(p) ==
    /\ at = "run"
    /\ state[p] = "Ready"
    /\ state' = [state EXCEPT ![p] = "Exited"]
    /\ UNCHANGED <<bitmap, nxe, page, loader, kernel, refused>>

reap_exited ==
    /\ at = "run"
    /\ \E p \in Slots : state[p] = "Exited"
    /\ reap({p \in Slots : state[p] = "Exited"})
    /\ UNCHANGED <<nxe, loader, kernel>>

Next ==
    \/ allocate_process \/ create_user_address_space \/ allocate_leaf
    \/ child \/ map_user_page \/ kernel_stack
    \/ cleanup \/ discard_startup_processes
    \/ \E p \in Slots : mark_exited(p)
    \/ reap_exited

Spec == Init /\ [][Next]_vars

-----------------------------------------------------------------------------
(* Properties.                                                             *)

States == {"Unused", "Created", "Ready", "Exited"}
Points == {"allocate", "space", "page", "table", "stack", "cleanup", "discard", "run"}

TypeOK ==
    /\ used \subseteq Pages /\ free_count \in 0 .. PageCount /\ next_hint \in Pages
    /\ nxe \in BOOLEAN /\ refused \in BOOLEAN /\ kernel \subseteq Pages
    /\ state \in [Slots -> States]
    /\ page \in [Slots -> [Places -> Pages \cup {None}]]
    /\ at \in Points /\ loaded \in 0 .. Startup /\ current \in Slots
    /\ todo \in Seq(Leaves) /\ user_pages \subseteq Pages /\ leaf \in Pages \cup {None}

\* Every page in use has one owner: the kernel, or one place of one process
\* that is not Unused, or load_process_image, which has not mapped it yet.
\* free_count says how many pages are left.
owned(i) == \E p \in Slots, q \in Places : page[p][q] = i
unmapped == {i \in user_pages : ~owned(i)}
OneOwner ==
    /\ \A i \in Pages : i \in used <=> i \in kernel \/ i \in unmapped \/ owned(i)
    /\ \A i \in kernel : i \notin user_pages /\ ~owned(i)
    /\ \A p, r \in Slots : \A q, s \in Places :
         page[p][q] = page[r][s] /\ page[p][q] # None => p = r /\ q = s
    /\ \A p \in Slots : state[p] = "Unused" => page[p] = Empty
    /\ \A i, j \in unmapped : i = j
    /\ free_count = PageCount - Cardinality(used)

\* free_page is never refused: nothing is given back twice, and nothing that
\* is reserved.
FreesSucceed == ~refused

\* Pages are neither lost nor shared nor given back twice, whatever fails
\* while an image is loaded and however a process ends.
PagesSound == OneOwner /\ FreesSucceed

\* A process that is ready can reach every page of one image and of its
\* stack through its tables, and has a kernel stack.
ReadyIsWhole ==
    \A p \in Slots : state[p] = "Ready" =>
        /\ \E image \in Images \ {<<>>} :
             \A v \in Leaves : page[p][v] # None <=> v \in Entries(image \o Stack)
        /\ \A v \in Leaves, n \in 0 .. 3 : page[p][v] # None => page[p][Prefix(v, n)] # None
        /\ page[p][KernelStack] # None

\* Loading gives up for want of memory only when no page is left: the search
\* from the hint misses none.
GivesUpOnlyWhenFull ==
    [][(nxe /\ at' = "cleanup") \/ (at = "space" /\ at' = "discard") => used = Pages]_vars
=============================================================================
