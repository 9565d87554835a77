----------------------------- MODULE Fat32Write -----------------------------
(***************************************************************************)
(* kernel/filesystem/fat32_write.cpp: the operations that change the FAT32 *)
(* volume on the Test disk.                                                *)
(*                                                                         *)
(* One step is one write that matters to the disk: a mirrored FAT entry,   *)
(* or the sectors of one cluster.  pc names the call that is under way; a  *)
(* state between two steps is what a power loss at that point leaves.  A   *)
(* sector write that fails may have changed the sector or not              *)
(* (ata::write_sector also fails after the data has been transferred), and *)
(* a device may stop answering for good, until the next start-up.          *)
(*                                                                         *)
(* A cluster holds SlotsPerCluster units: directory entries, or sectors of *)
(* a file.  A file of n sectors has the contents n.  Paths have one or two *)
(* components.  Early returns that leave everything as it is (a target     *)
(* that exists, a directory that is not empty, a chain whose copies        *)
(* disagree, ...) are the guards of the operations.                        *)
(***************************************************************************)
EXTENDS Integers, Sequences, FiniteSets

CONSTANTS
    LastCluster,       \* data clusters are 2 .. LastCluster; 2 is the root
    FatCount,          \* copies of the FAT
    SlotsPerCluster,
    Names,
    Sizes,             \* the sizes, in sectors, that files are given
    Operations,        \* the operations that are called
    MaxFaults,         \* bound: sector operations that fail
    MaxLosses          \* bound: times the device goes away

ASSUME GeometryAssumption ==
    /\ LastCluster \in Nat /\ LastCluster > 2
    /\ FatCount \in Nat \ {0}
    /\ SlotsPerCluster \in Nat /\ SlotsPerCluster > 1
ASSUME BoundsAssumption == Sizes \subseteq Nat /\ {MaxFaults, MaxLosses} \subseteq Nat

Clusters == 2 .. LastCluster
Copies == 1 .. FatCount
Slots == 1 .. SlotsPerCluster
Root == 2
Free == 0
EOC == 1
None == 0

VARIABLES
    fat,       \* fat[k][c]: the entry of cluster c in copy k
    disk,      \* disk[c]: what the sectors of cluster c hold
    faults,    \* failed sector operations so far
    losses,    \* times the device has gone away
    device,    \* "up" or "gone"
    pc,        \* the call under way
    job,       \* its arguments and local variables
    shown,     \* history: the tree that the volume shows
    twins      \* history: whether a failed move left a file with two names

health == <<faults, losses, device>>
vars == <<fat, disk, health, pc, job, shown, twins>>

\* Units.  Stale is what formatting or earlier use left in a free cluster: to
\* a search it looks like an entry in use.
End == [kind |-> "end"]
Deleted == [kind |-> "deleted"]
Dot == [kind |-> "dot"]
Stale == [kind |-> "stale"]
File(name, first, size) ==
    [kind |-> "file", name |-> name, first |-> first, size |-> size]
Dir(name, first) == [kind |-> "dir", name |-> name, first |-> first]
Data(size, sector) == [kind |-> "data", size |-> size, sector |-> sector]

Filled(unit) == [s \in Slots |-> unit]

Range(s) == {s[i] : i \in DOMAIN s}
Least(S) == CHOOSE i \in S : \A j \in S : i <= j

-----------------------------------------------------------------------------
(* Walking chains and directories.                                         *)

\* The clusters that copy f of the FAT chains to c, c included; a walk ends
\* after as many steps as there are clusters.
walk(f, c) ==
    LET w[d \in Clusters, n \in Clusters] ==
          IF f[d] \in Clusters /\ n < LastCluster THEN <<d>> \o w[f[d], n + 1] ELSE <<d>>
    IN w[c, 2]

tail_of(f, c) == LET w == walk(f, c) IN w[Len(w)]
terminated(f, c) == f[tail_of(f, c)] = EOC
agree(c) == \A k \in Copies : fat[k][c] = fat[1][c]

\* chain_next with check_copies, along the whole chain.
valid_chain(c) ==
    /\ c \in Clusters
    /\ terminated(fat[1], c)
    /\ \A d \in Range(walk(fat[1], c)) : agree(d)

file_cluster_count(size) ==
    size \div SlotsPerCluster + (IF size % SlotsPerCluster # 0 THEN 1 ELSE 0)

validate_file_chain(e) ==
    IF e.size = 0 THEN e.first = None
    ELSE valid_chain(e.first) /\ Len(walk(fat[1], e.first)) = file_cluster_count(e.size)

\* The clusters of an entry, according to the copy of the FAT that is read.
owned(e) == IF e.kind \in {"file", "dir"} /\ e.first # None
            THEN Range(walk(fat[1], e.first)) ELSE {}

\* All places of a directory in the order in which they are read, and what
\* the sectors k hold there.
places(f, d) ==
    LET w == walk(f, d)
    IN [i \in 1 .. Len(w) * SlotsPerCluster |->
          <<w[(i - 1) \div SlotsPerCluster + 1], ((i - 1) % SlotsPerCluster) + 1>>]
unit(k, p) == k[p[1]][p[2]]

\* What find_in_directory looks at: all places up to the first end marker.
searched(f, k, d) ==
    LET all == places(f, d)
        ends == {i \in DOMAIN all : unit(k, all[i]) = End}
    IN IF ends = {} THEN all ELSE SubSeq(all, 1, Least(ends))

\* The places with an entry in use, and those with a given name.
visible(f, k, d) ==
    {p \in Range(searched(f, k, d)) : unit(k, p) \notin {End, Deleted, Dot}}
named(d, name) ==
    {p \in visible(fat[1], disk, d) :
       unit(disk, p).kind \in {"file", "dir"} /\ unit(disk, p).name = name}
exists(d, name) == named(d, name) # {}
slot_of(d, name) == CHOOSE p \in named(d, name) : TRUE

directory_is_empty(d) == valid_chain(d) /\ visible(fat[1], disk, d) = {}

subdirectories(f, k, d) ==
    {unit(k, p).first : p \in {q \in visible(f, k, d) : unit(k, q).kind = "dir"}}
Parents(f, k) == {Root} \cup subdirectories(f, k, Root)

-----------------------------------------------------------------------------
(* The disk.                                                               *)

Fault(n) == /\ faults + n <= MaxFaults
            /\ faults' = faults + n
            /\ UNCHANGED <<losses, device>>
Loss == /\ losses < MaxLosses
        /\ losses' = losses + 1
        /\ device' = "gone"
        /\ UNCHANGED faults

io_fails == \/ device = "gone" /\ UNCHANGED health
            \/ device = "up" /\ (Fault(1) \/ Loss)

\* Writes that take the sectors from disk to new.
write_sectors(new) == device = "up" /\ disk' = new /\ UNCHANGED health
write_fails(new) ==
    /\ io_fails
    /\ disk' = disk \/ (device = "up" /\ disk' = new)

\* put_directory_entry.  After a failed write the sector is read again, to learn
\* whether the entry is certainly as it was; after a failed read it is not.
put_directory_entry(p, e, outcome) ==
    LET new == [disk EXCEPT ![p[1]][p[2]] = e]
    IN /\ UNCHANGED fat
       /\ \/ outcome = "written" /\ write_sectors(new)
          \/ outcome = "unchanged" /\ device = "up" /\ Fault(1) /\ disk' = disk
          \/ outcome = "unknown" /\ write_fails(new)
Outcomes == {"written", "unchanged", "unknown"}

\* write_fat_entry.  When copy k fails the copies before it are restored,
\* unless that fails as well; a device that goes away restores nothing.
\* What a cluster holds when it becomes free is only remembered as Stale.
write_fat_entry(c, value) ==
    /\ device = "up"
    /\ agree(c)
    /\ fat' = [k \in Copies |-> [fat[k] EXCEPT ![c] = value]]
    /\ disk' = IF value = Free THEN [disk EXCEPT ![c] = Filled(Stale)] ELSE disk
    /\ UNCHANGED health

write_fat_entry_fails(c, value) ==
    /\ UNCHANGED disk
    /\ \/ device = "gone" /\ UNCHANGED <<fat, health>>
       \/ device = "up" /\ ~agree(c) /\ UNCHANGED <<fat, health>>
       \/ /\ device = "up" /\ agree(c)
          /\ \E k \in Copies, hit \in BOOLEAN, kept \in SUBSET Copies :
               /\ \A j \in kept : j < k
               /\ \/ Fault(1 + Cardinality(kept))
                  \/ Loss /\ kept = 1 .. k - 1
               /\ fat' = [j \in Copies |->
                            IF j \in kept \/ (j = k /\ hit)
                            THEN [fat[j] EXCEPT ![c] = value] ELSE fat[j]]

-----------------------------------------------------------------------------
(* Control.  A job is one call of an operation:                            *)
(*   op, parent, name   the operation and the entry it creates or changes  *)
(*   from, slot, old    where the entry it found is, and that entry        *)
(*   size, want, chain  the size of the file to write, the clusters to     *)
(*                      allocate for it, and those allocated               *)
(*   vacant, grown      the slot to publish in; the cluster added for it   *)
(*   unpublished        definitely_unpublished                             *)
(*   cluster, after     the cluster a chain call is at; where it returns to *)
(*   status             what the operation will return                     *)
(*   was                history: the clusters of the entry it found        *)

NoJob == [op |-> "none", from |-> None, parent |-> None, name |-> None, slot |-> <<>>, old |-> End,
          was |-> {}, size |-> 0, want |-> 0, chain |-> <<>>, vacant |-> <<>>, grown |-> None,
          unpublished |-> TRUE, cluster |-> None, after |-> "done", status |-> "Ok"]

Goto(next, j) == pc' = next /\ job' = j

\* The operation is over; only its arguments and its result matter now.
Over(status) == [NoJob EXCEPT !.op = job.op, !.from = job.from, !.parent = job.parent, !.name = job.name,
                              !.slot = job.slot, !.old = job.old, !.was = job.was,
                              !.size = job.size, !.status = status]
Continue(next, status) ==
    Goto(next, IF next = "done" THEN Over(status) ELSE [job EXCEPT !.status = status])
Done(status) == Continue("done", status)

\* Give a chain back: free_chain(c), then on to after.
Discard(c, after, status) ==
    IF c = None THEN Continue(after, status)
    ELSE Goto("check", [job EXCEPT !.cluster = c, !.after = after, !.status = status])

first_of(chain) == IF chain = <<>> THEN None ELSE chain[1]
fresh == first_of(job.chain)

CreateFails(status) == Continue("create_failed", status)

\* The entry that create_directory_entry or update_directory_entry writes.
entry == IF job.op = "mkdir" THEN Dir(job.name, fresh)
         ELSE IF job.op = "move" THEN [job.old EXCEPT !.name = job.name]
         ELSE File(job.name, fresh, job.size)

Start(j, next) == Goto(next, j) /\ UNCHANGED <<fat, disk, health>>

\* Nothing is allocated for an empty file.
Allocating(size, next) == IF file_cluster_count(size) = 0 THEN next ELSE "alloc"

touch(d, n) ==
    /\ ~exists(d, n)
    /\ Start([NoJob EXCEPT !.op = "touch", !.parent = d, !.name = n], "create")

mkdir(d, n) ==
    /\ ~exists(d, n)
    /\ Start([NoJob EXCEPT !.op = "mkdir", !.parent = d, !.name = n, !.want = 1], "alloc")

remove(d, n) ==
    /\ exists(d, n)
    /\ LET slot == slot_of(d, n)
           old == unit(disk, slot)
       IN /\ IF old.kind = "dir" THEN directory_is_empty(old.first)
                                 ELSE validate_file_chain(old)
          /\ Start([NoJob EXCEPT !.op = "remove", !.parent = d, !.name = n,
                                 !.slot = slot, !.old = old, !.was = owned(old)],
                   "delete")

write_file(d, n, size) ==
    IF exists(d, n)
    THEN LET slot == slot_of(d, n)
             old == unit(disk, slot)
         IN /\ old.kind = "file"
            /\ validate_file_chain(old)
            /\ Start([NoJob EXCEPT !.op = "write_file", !.parent = d, !.name = n,
                                   !.slot = slot, !.old = old, !.was = owned(old),
                                   !.size = size, !.want = file_cluster_count(size)],
                     Allocating(size, "update"))
    ELSE Start([NoJob EXCEPT !.op = "write_file", !.parent = d, !.name = n,
                             !.size = size, !.want = file_cluster_count(size)],
               Allocating(size, "create"))

copy_file(from, source, d, n) ==
    /\ exists(from, source)
    /\ ~exists(d, n)
    /\ LET slot == slot_of(from, source)
           old == unit(disk, slot)
       IN /\ old.kind = "file"
          /\ validate_file_chain(old)
          /\ Start([NoJob EXCEPT !.op = "copy_file", !.from = from, !.parent = d, !.name = n,
                                 !.slot = slot, !.old = old,
                                 !.size = old.size, !.want = file_cluster_count(old.size)],
                   Allocating(old.size, "create"))

move(from, source, d, n) ==
    /\ exists(from, source)
    /\ ~exists(d, n)
    /\ LET slot == slot_of(from, source)
           old == unit(disk, slot)
       IN /\ IF old.kind = "dir" THEN from = d /\ valid_chain(old.first)
                                 ELSE validate_file_chain(old)
          /\ Start([NoJob EXCEPT !.op = "move", !.from = from, !.parent = d, !.name = n,
                                 !.slot = slot, !.old = old],
                   IF from = d THEN "rename" ELSE "create")

-----------------------------------------------------------------------------
(* allocate_chain(want): first fit, each cluster marked and then linked.   *)

\* The scan goes on behind the cluster it found last.
candidates(after) == {c \in Clusters : c > after /\ fat[1][c] = Free}
previous == IF job.chain = <<>> THEN None ELSE job.chain[Len(job.chain)]

Allocated(chain) ==
    Goto(IF Len(chain) < job.want THEN "alloc" ELSE "fill", [job EXCEPT !.chain = chain])

Allocate ==
    /\ pc = "alloc"
    /\ LET free == candidates(previous)
           c == Least(free)
       IN \/ /\ free = {} /\ device = "up"
             /\ Discard(fresh, "done", "NoSpace")
             /\ UNCHANGED <<fat, disk, health>>
          \/ /\ free # {}
             /\ write_fat_entry(c, EOC)
             /\ IF job.chain = <<>> THEN Allocated(<<c>>)
                ELSE Goto("link", [job EXCEPT !.cluster = c])
          \/ /\ IF free = {} THEN io_fails /\ UNCHANGED <<fat, disk>>
                              ELSE write_fat_entry_fails(c, EOC)
             /\ Discard(fresh, "done", "Failed")

Link ==
    /\ pc = "link"
    /\ \/ /\ write_fat_entry(previous, job.cluster)
          /\ Allocated(Append(job.chain, job.cluster))
       \/ /\ write_fat_entry_fails(previous, job.cluster)
          /\ Goto("unmark", job)

Unmark ==
    /\ pc = "unmark"
    /\ write_fat_entry(job.cluster, Free) \/ write_fat_entry_fails(job.cluster, Free)
    /\ Discard(fresh, "done", "Failed")

-----------------------------------------------------------------------------
(* free_chain: the whole chain is validated before its first entry goes.   *)

\* Mutant: the caller does not learn that free_chain failed.
Leave_quietly(status) == Continue(job.after, job.status)
Leave(status) == Continue(job.after, status)

Check ==
    /\ pc = "check"
    /\ UNCHANGED <<fat, disk>>
    /\ \/ /\ device = "up" /\ valid_chain(job.cluster)
          /\ Goto("free", job) /\ UNCHANGED health
       \/ /\ device = "up" /\ ~valid_chain(job.cluster)
          /\ Leave("Failed") /\ UNCHANGED health
       \/ io_fails /\ Leave("Failed")

FreeCluster ==
    /\ pc = "free"
    /\ LET c == job.cluster
           next == fat[1][c]
       IN \/ /\ write_fat_entry(c, Free)
             /\ IF next = EOC THEN Leave(job.status)
                ELSE Goto("free", [job EXCEPT !.cluster = next])
          \/ /\ write_fat_entry_fails(c, Free)
             /\ Leave("Failed")

-----------------------------------------------------------------------------
(* The contents of a new chain, and the entries that exist already.        *)

\* What the i-th cluster of the new chain is to hold: for a file, the sectors
\* that its size asks for, and behind them what was there.
file_sectors(i, sectors) ==
    [s \in Slots |-> LET n == (i - 1) * SlotsPerCluster + s
                     IN IF n <= job.size THEN sectors[n] ELSE disk[job.chain[i]][s]]
copied ==
    LET w == walk(fat[1], job.old.first)
    IN [n \in 1 .. job.size |->
          disk[w[(n - 1) \div SlotsPerCluster + 1]][((n - 1) % SlotsPerCluster) + 1]]
written == [n \in 1 .. job.size |-> Data(job.size, n)]

\* Mutant: a new directory is not cleared.
contents_uncleared(i) ==
    IF job.op = "mkdir" THEN [disk[job.chain[i]] EXCEPT ![1] = Dot, ![2] = Dot]
    ELSE file_sectors(i, written)
contents(i) ==
    IF job.op = "mkdir" THEN [s \in Slots |-> IF s <= 2 THEN Dot ELSE End]
    ELSE IF job.op = "copy_file" THEN file_sectors(i, copied)
    ELSE file_sectors(i, written)

\* Mutant: all data goes to the first cluster.
filled_first(n) == [disk EXCEPT ![job.chain[1]] = contents(n)]
filled(n) == [c \in Clusters |->
                IF \E i \in 1 .. n : job.chain[i] = c
                THEN contents(CHOOSE i \in 1 .. n : job.chain[i] = c) ELSE disk[c]]

Fill ==
    /\ pc = "fill"
    /\ UNCHANGED fat
    /\ \/ /\ write_sectors(filled(job.want))
          /\ Goto(IF job.op = "write_file" /\ job.old # End THEN "update" ELSE "create", job)
       \/ /\ \E n \in 1 .. job.want :
               /\ write_fails(filled(n))
               /\ Discard(fresh, "done", "Failed")

\* update_directory_entry as write_file uses it: after a failure write_file
\* itself reads the entry again, and compares it with the one it found.
update_directory_entry(p, e, outcome) ==
    \/ \E put \in Outcomes :
          /\ put_directory_entry(p, e, put)
          /\ outcome = IF put # "written" /\ device' = "up" /\ disk' = disk
                       THEN "unchanged" ELSE put
    \/ /\ outcome = "unknown"
       /\ device = "up" /\ Fault(2)
       /\ UNCHANGED <<fat, disk>>

\* Mutant: a failed update always frees the new chain.
Update_frees_blindly ==
    /\ pc = "update"
    /\ \E outcome \in Outcomes :
         /\ update_directory_entry(job.slot, entry, outcome)
         /\ \/ outcome = "written" /\ Discard(job.old.first, "done", "Ok")
            \/ outcome # "written" /\ Discard(fresh, "done", "Failed")

\* write_file on an existing file: the new chain goes live, the old one goes.
Update ==
    /\ pc = "update"
    /\ \E outcome \in Outcomes :
         /\ update_directory_entry(job.slot, entry, outcome)
         /\ \/ outcome = "written" /\ Discard(job.old.first, "done", "Ok")
            \/ outcome = "unchanged" /\ Discard(fresh, "done", "Failed")
            \/ outcome = "unknown" /\ Done("Failed")

\* Mutant: the chain of the removed entry is forgotten.
Delete_keeps_chain ==
    /\ pc = "delete"
    /\ \E outcome \in Outcomes :
         /\ put_directory_entry(job.slot, Deleted, outcome)
         /\ Done(IF outcome = "written" THEN "Ok" ELSE "Failed")

Delete ==
    /\ pc = "delete"
    /\ \E outcome \in Outcomes :
         /\ put_directory_entry(job.slot, Deleted, outcome)
         /\ IF outcome = "written" THEN Discard(job.old.first, "done", "Ok")
                                   ELSE Done("Failed")

Rename ==
    /\ pc = "rename"
    /\ \E outcome \in Outcomes :
         /\ put_directory_entry(job.slot, entry, outcome)
         /\ Done(IF outcome = "written" THEN "Ok" ELSE "Failed")

-----------------------------------------------------------------------------
(* create_directory_entry.                                                 *)

\* Publish in the first vacant slot.  The slot behind a used end marker has
\* to become one; behind the last slot of the chain that takes a cluster.
Create ==
    /\ pc = "create"
    /\ UNCHANGED fat
    /\ LET all == places(fat[1], job.parent)
           search == searched(fat[1], disk, job.parent)
           free == {i \in DOMAIN search : unit(disk, search[i]) \in {End, Deleted}}
           v == Least(free)
           at_end == free # {} /\ unit(disk, all[v]) = End
           grows == free = {} \/ (at_end /\ v = Len(all))
           found == [job EXCEPT !.vacant = IF free = {} THEN <<>> ELSE all[v]]
           marked == [disk EXCEPT ![all[v + 1][1]][all[v + 1][2]] = End]
       IN \/ IF grows
             THEN device = "up" /\ Goto("grow", found) /\ UNCHANGED <<disk, health>>
             ELSE IF at_end
             THEN \/ write_sectors(marked) /\ Goto("publish", found)
                  \/ write_fails(marked) /\ CreateFails("Failed")
             ELSE device = "up" /\ Goto("publish", found) /\ UNCHANGED <<disk, health>>
          \/ io_fails /\ UNCHANGED disk /\ CreateFails("Failed")

\* allocate_chain(1).
Grow ==
    /\ pc = "grow"
    /\ LET free == candidates(None)
           c == Least(free)
       IN \/ /\ free = {} /\ device = "up"
             /\ CreateFails("NoSpace")
             /\ UNCHANGED <<fat, disk, health>>
          \/ /\ free # {}
             /\ write_fat_entry(c, EOC)
             /\ Goto("zero", [job EXCEPT !.grown = c])
          \/ /\ IF free = {} THEN io_fails /\ UNCHANGED <<fat, disk>>
                              ELSE write_fat_entry_fails(c, EOC)
             /\ CreateFails("Failed")

\* Mutant: the cluster is linked as it is.
Zero_nothing == pc = "zero" /\ Goto("attach", job) /\ UNCHANGED <<fat, disk, health>>

\* Every sector of the cluster is cleared before anything leads to it, and
\* its FAT entry is written once more.
Zero ==
    /\ pc = "zero"
    /\ UNCHANGED fat
    /\ LET cleared == [disk EXCEPT ![job.grown] = Filled(End)]
       IN \/ write_sectors(cleared) /\ Goto("attach", job)
          \/ write_fails(cleared) /\ Discard(job.grown, "create_failed", "Failed")

tail == tail_of(fat[1], job.parent)

\* Mutant: the cluster is freed even if a copy may lead to it.
Attach_reclaims_blindly ==
    /\ pc = "attach"
    /\ \/ /\ write_fat_entry(tail, job.grown)
          /\ Goto("publish", IF job.vacant = <<>> THEN [job EXCEPT !.vacant = <<job.grown, 1>>]
                                                 ELSE job)
       \/ /\ write_fat_entry_fails(tail, job.grown)
          /\ Discard(job.grown, "create_failed", "Failed")

\* After a failure, reclaim_if_unlinked: the cluster is freed only if no copy
\* leads to it.
Attach ==
    /\ pc = "attach"
    /\ \/ /\ write_fat_entry(tail, job.grown)
          /\ Goto("publish", IF job.vacant = <<>> THEN [job EXCEPT !.vacant = <<job.grown, 1>>]
                                                 ELSE job)
       \/ /\ write_fat_entry_fails(tail, job.grown)
          /\ IF device' = "up" /\ \A k \in Copies : fat'[k][tail] = EOC
             THEN Discard(job.grown, "create_failed", "Failed")
             ELSE CreateFails("Failed")

Publish ==
    /\ pc = "publish"
    /\ \E outcome \in Outcomes :
         /\ put_directory_entry(job.vacant, entry, outcome)
         /\ \/ /\ outcome = "written"
               /\ IF job.op = "move" THEN Goto("delete_source", job) ELSE Done("Ok")
            \/ /\ outcome = "unchanged"
               /\ IF job.grown # None THEN Goto("detach", job) ELSE CreateFails("Failed")
            \/ /\ outcome = "unknown"
               /\ Goto("create_failed", [job EXCEPT !.unpublished = FALSE, !.status = "Failed"])

\* The directory gives up the cluster that it got for an entry that was not
\* published.
Detach ==
    /\ pc = "detach"
    /\ LET last == walk(fat[1], job.parent)[Len(walk(fat[1], job.parent)) - 1]
       IN \/ /\ write_fat_entry(last, EOC)
             /\ Discard(job.grown, "create_failed", "Failed")
          \/ write_fat_entry_fails(last, EOC) /\ CreateFails("Failed")

\* Back in the operation: its new chain is freed only if nothing can lead to
\* it and a new search for the name finds nothing.
CreateFailed ==
    /\ pc = "create_failed"
    /\ UNCHANGED <<fat, disk>>
    /\ \/ /\ device = "up" /\ job.unpublished /\ ~exists(job.parent, job.name)
          /\ Discard(fresh, "done", job.status)
          /\ UNCHANGED health
       \/ /\ ~job.unpublished \/ exists(job.parent, job.name)
          /\ Done(job.status)
          /\ UNCHANGED health
       \/ /\ job.unpublished
          /\ io_fails
          /\ Done(job.status)

\* Mutant: the destination is deleted although the source may be gone.
DeleteSource_rolls_back_blindly ==
    /\ pc = "delete_source"
    /\ \E outcome \in Outcomes :
         /\ put_directory_entry(job.slot, Deleted, outcome)
         /\ IF outcome = "written" THEN Done("Ok") ELSE Goto("rollback", job)

\* The rest of a move to another directory.
DeleteSource ==
    /\ pc = "delete_source"
    /\ \E outcome \in Outcomes :
         /\ put_directory_entry(job.slot, Deleted, outcome)
         /\ \/ outcome = "written" /\ Done("Ok")
            \/ outcome = "unchanged" /\ Goto("rollback", job)
            \/ outcome = "unknown" /\ Done("Failed")

Rollback ==
    /\ pc = "rollback"
    /\ \E outcome \in Outcomes :
         /\ put_directory_entry(job.vacant, Deleted, outcome)
         /\ Done("Failed")

-----------------------------------------------------------------------------
(* What the volume shows, and what its entries own.                        *)

\* The directories of the tree, which are Parents(fat[1], disk).
Directories == {Root} \cup {e.contents : e \in {x \in shown : x.kind = "directory"}}
LivePlaces == UNION {visible(fat[1], disk, d) : d \in Directories}

SharedAmong(live) ==
    \E p \in live :
        LET mine == owned(unit(disk, p))
        IN mine # {} /\ \E q \in live \ {p} : mine \cap owned(unit(disk, q)) # {}

Return == pc = "done" /\ Goto("idle", NoJob) /\ UNCHANGED <<fat, disk, health>>

\* The next start-up, and mount: the volume is only there if the boot sector,
\* which nothing here writes, can be read.
Restart ==
    /\ pc = "idle" /\ device = "gone"
    /\ \/ device' = "up" /\ UNCHANGED faults
       \/ device' = "gone" /\ faults < MaxFaults /\ faults' = faults + 1
    /\ UNCHANGED <<fat, disk, losses, pc, job>>

\* A move that fails may leave a file with two names (fat32_write_test.cpp
\* expects it).  Nothing keeps them apart from other files: remove and
\* write_file, called for one name, give back the chain of the other.
LeavesTwins ==
    pc = "done" /\ job.op = "move" /\ job.status # "Ok" /\ SharedAmong(LivePlaces)
SpoilsTwins ==
    /\ pc = "idle" /\ job'.op \in {"remove", "write_file"} /\ job'.was # {}
    /\ \E p \in LivePlaces \ {job'.slot} : owned(unit(disk, p)) \cap job'.was # {}

\* What a reader gets from a file; Torn unless it is one whole version.
Torn == -1
reads(f, k, e) ==
    LET w == walk(f, e.first)
    IN IF \/ e.size = 0
          \/ /\ Len(w) = file_cluster_count(e.size)
             /\ \A n \in 1 .. e.size :
                  k[w[(n - 1) \div SlotsPerCluster + 1]][((n - 1) % SlotsPerCluster) + 1]
                    = Data(e.size, n)
       THEN e.size ELSE Torn

\* The entries that a search of the volume finds.
Shown(f, k, d, e) ==
    IF e.kind = "file"
    THEN [dir |-> d, name |-> e.name, kind |-> "file", contents |-> reads(f, k, e)]
    ELSE IF e.kind = "dir"
    THEN [dir |-> d, name |-> e.name, kind |-> "directory", contents |-> e.first]
    ELSE [dir |-> d, name |-> None, kind |-> e.kind, contents |-> Torn]
Tree(f, k) ==
    UNION {{Shown(f, k, d, unit(k, p)) : p \in visible(f, k, d)} : d \in Parents(f, k)}

Init ==
    /\ fat = [k \in Copies |-> [c \in Clusters |-> IF c = Root THEN EOC ELSE Free]]
    /\ disk = [c \in Clusters |-> IF c = Root THEN [Filled(Stale) EXCEPT ![1] = End]
                                               ELSE Filled(Stale)]
    /\ faults = 0 /\ losses = 0 /\ device = "up"
    /\ pc = "idle" /\ job = NoJob
    /\ shown = {} /\ twins = "none"

Operation ==
    /\ pc = "idle"
    /\ device = "up"
    /\ \E d \in Directories, n \in Names :
        \/ touch(d, n)
        \/ d = Root /\ mkdir(d, n)
        \/ remove(d, n)
        \/ \E size \in Sizes : write_file(d, n, size)
        \/ \E from \in Directories, source \in Names :
              copy_file(from, source, d, n) \/ move(from, source, d, n)
    /\ job'.op \in Operations

Step ==
    \/ Allocate \/ Link \/ Unmark \/ Check \/ FreeCluster
    \/ Fill \/ Update \/ Delete \/ Rename
    \/ Create \/ Grow \/ Zero \/ Attach \/ Publish \/ Detach \/ CreateFailed
    \/ DeleteSource \/ Rollback \/ Return

Next ==
    /\ Operation \/ Step \/ Restart
    /\ shown' = IF UNCHANGED <<fat, disk>> THEN shown ELSE Tree(fat'[1], disk')
    /\ twins' = IF twins = "none" /\ LeavesTwins THEN "kept"
                ELSE IF twins = "kept" /\ SpoilsTwins THEN "spoiled" ELSE twins

Spec == Init /\ [][Next]_vars

-----------------------------------------------------------------------------
(* Properties.                                                             *)

\* A visible file has, in every copy of the FAT, exactly the clusters that
\* its size asks for: nothing that may have been published is freed.  And no
\* cluster has two owners, but for the two names of one file that a move has
\* between its two writes, or leaves when it fails: nothing that may still be
\* led to is handed out again.
FilesSound ==
    LET live == LivePlaces
    IN /\ \A p \in live :
            unit(disk, p).kind = "file" => validate_file_chain(unit(disk, p))
       /\ SharedAmong(live) =>
            /\ job.op = "move" \/ twins = "kept"
            /\ \A p, q \in live : \/ owned(unit(disk, p)) \cap owned(unit(disk, q)) = {}
                                 \/ unit(disk, p).first = unit(disk, q).first

\* Whatever copy of the FAT is followed, a directory ends properly, and it
\* shows nothing but entries that were put there: a cluster is cleared before
\* it is linked, and the slot behind a used end marker becomes one.
DirectoriesSound ==
    /\ \A d \in Directories, k \in Copies : terminated(fat[k], d)
    /\ \A e \in shown : e.kind \in {"file", "directory"}

\* The volume can be mounted and read after every single write, whatever the
\* operation under way and wherever the device fails, until remove or
\* write_file is called for one of the two names that a failed move has left.
VolumeSound == twins # "spoiled" => FilesSound /\ DirectoriesSound

\* The design document asks never to free clusters that may be referenced:
\* no cluster of a visible file is free in any copy of the FAT.  The code does
\* not keep this when one of two names that a move left is removed.
NeverFreesVisible ==
    \A p \in LivePlaces, k \in Copies :
        unit(disk, p).kind = "file" => \A c \in owned(unit(disk, p)) : fat[k][c] # Free

\* Without failures nothing is lost: between operations every cluster that
\* is not free belongs to an entry or to the root.
NothingLeaks ==
    pc = "idle" /\ faults = 0 /\ losses = 0 =>
        /\ \A c \in Clusters : agree(c)
        /\ {c \in Clusters : fat[1][c] # Free} =
              UNION {owned(unit(disk, p)) : p \in LivePlaces} \cup Range(walk(fat[1], Root))

FS == INSTANCE FileStore WITH tree <- shown, Directories <- Clusters, Contents <- Sizes \cup {0}

\* Every write to the disk leaves the tree as it is or changes one name, from
\* one complete version to another: copy-on-write in write_file and
\* copy_file, zero-before-link and publish-last in mkdir and in the growth of
\* directories, delete-before-free in remove.  The exception is VolumeSound's.
ImplementsFileStore == FS!Init /\ [][FS!Next \/ twins' = "spoiled"]_shown

\* A file that is moved has at least one of its names at any time.
MoveKeepsFile ==
    job.op = "move" /\ twins # "spoiled" =>
        \E e \in shown : \/ e = Shown(fat[1], disk, job.from, job.old)
                         \/ e = Shown(fat[1], disk, job.parent, entry)

\* An operation that returns Ok has had its effect, and the whole chain that
\* it replaced or removed is free in every copy of the FAT.
OkMeansDone ==
    pc = "done" /\ job.status = "Ok" =>
        /\ IF job.op = "remove" THEN ~exists(job.parent, job.name)
           ELSE \E e \in shown :
                  /\ e.dir = job.parent /\ e.name = job.name
                  /\ job.op \in {"write_file", "copy_file"} => e.contents = job.size
                  /\ job.op = "move" => unit(disk, job.slot) # job.old
        /\ \A k \in Copies, c \in job.was : fat[k][c] = Free
=============================================================================
