----------------------------- MODULE Fat32Read -----------------------------
(***************************************************************************)
(* kernel/filesystem/fat32.cpp: looking up, listing and reading, on the    *)
(* volume that Fat32Write changes.                                         *)
(*                                                                         *)
(* A path is the sequence of its components, none for the root.  A unit of *)
(* a cluster is a sector of a file.  A result has the status that the code *)
(* returns; a device that is gone answers no read.                         *)
(***************************************************************************)
EXTENDS Fat32Write

cluster_count == LastCluster - 1
valid_data_cluster(c) == c \in Clusters

RootEntry == Dir(None, Root)

\* Mutant: deleted entries are not told from the others.
decode_deleted(u) == IF u = End THEN "End" ELSE IF u = Dot THEN "Skip" ELSE "Normal"

\* decode_directory_entry: what a stale unit holds passes for an entry.
decode_directory_entry(u) ==
    IF u = End THEN "End" ELSE IF u \in {Deleted, Dot} THEN "Skip" ELSE "Normal"

next_cluster(c) ==
    LET value == fat[1][c]
        After(status, next, eoc) == [status |-> status, next |-> next, eoc |-> eoc]
    IN IF ~valid_data_cluster(c) THEN After("Corrupt", None, FALSE)
       ELSE IF device = "gone" THEN After("IoError", None, FALSE)
       ELSE IF value = EOC THEN After("Ok", None, TRUE)
       ELSE IF valid_data_cluster(value) THEN After("Ok", value, FALSE)
       ELSE After("Corrupt", None, FALSE)

\* The loop that emit_directory, find_entry and read_directory_entry_at have
\* in common: the entries from the given cluster on, and the status with
\* which the loop ends when nobody stops it.
scan_directory(first) ==
    LET Scan(entries, status) == [entries |-> entries, status |-> status]
        normal(u) == decode_directory_entry(u) = "Normal"
        scan[walked \in 0 .. cluster_count, c \in Clusters \cup {None}] ==
            LET ends == {s \in Slots : decode_directory_entry(disk[c][s]) = "End"}
                read == IF ends = {} THEN disk[c] ELSE SubSeq(disk[c], 1, Least(ends) - 1)
                here == SelectSeq(read, normal)
                next == next_cluster(c)
                rest == scan[walked + 1, next.next]
            IN IF walked = cluster_count \/ ~valid_data_cluster(c) THEN Scan(<<>>, "Corrupt")
               ELSE IF device = "gone" THEN Scan(<<>>, "IoError")
               ELSE IF ends # {} THEN Scan(here, "Ok")
               ELSE IF next.status # "Ok" \/ next.eoc THEN Scan(here, next.status)
               ELSE Scan(here \o rest.entries, rest.status)
    IN scan[0, first]

Result(status, found) == [status |-> status, entry |-> found]

find_among(scan, wanted) ==
    LET matches == {i \in DOMAIN scan.entries :
                      scan.entries[i].kind # "stale" /\ scan.entries[i].name = wanted}
    IN IF matches # {} THEN Result("Ok", scan.entries[Least(matches)])
       ELSE Result(IF scan.status = "Ok" THEN "NotFound" ELSE scan.status, End)
find_entry(first, wanted) == find_among(scan_directory(first), wanted)

\* What was found, if it is a directory whose first cluster there may be.
usable_directory(found) ==
    IF found.status # "Ok" THEN found
    ELSE IF found.entry.kind # "dir" THEN Result("NotDirectory", End)
    ELSE IF ~valid_data_cluster(found.entry.first) THEN Result("Corrupt", End)
    ELSE found

find_below(directory, wanted) ==
    IF directory.status # "Ok" THEN directory ELSE find_entry(directory.entry.first, wanted)

resolve_entry(path) ==
    LET at[n \in 0 .. Len(path)] ==
            IF n = 0 THEN Result("Ok", RootEntry)
            ELSE find_below(usable_directory(at[n - 1]), path[n])
    IN IF path = <<>> THEN Result("InvalidName", End) ELSE at[Len(path)]

stat_path(path) == IF path = <<>> THEN Result("Ok", RootEntry) ELSE resolve_entry(path)

\* resolve_directory_cluster: the directory's entry stands for its cluster.
resolve_directory(path) == usable_directory(stat_path(path))

\* The entries for which the visitor is called before the listing ends.
listed(directory) ==
    IF directory.status # "Ok" THEN [entries |-> <<>>, status |-> directory.status]
    ELSE scan_directory(directory.entry.first)
list_directory(path) == listed(resolve_directory(path))

\* End is the entry of a directory that has no entry with this index.
entry_at(listing, index) ==
    IF index < Len(listing.entries) THEN Result("Ok", listing.entries[index + 1])
    ELSE Result(listing.status, End)
read_directory_entry(path, index) == entry_at(list_directory(path), index)

Bytes(status, data, file_size) == [status |-> status, data |-> data, file_size |-> file_size]
Lesser(a, b) == IF a < b THEN a ELSE b

\* Mutant: every read begins in the first cluster.
skip_no_cluster(first, n) == [status |-> "Ok", cluster |-> first]

\* The cluster that skipping n clusters of a chain leads to.
skip_clusters(first, n) ==
    LET skipped[i \in 0 .. n] ==
            IF i = 0 THEN [status |-> "Ok", cluster |-> first]
            ELSE LET before == skipped[i - 1]
                     next == next_cluster(before.cluster)
                 IN IF before.status # "Ok" THEN before
                    ELSE IF i > cluster_count \/ next.eoc
                    THEN [status |-> "Corrupt", cluster |-> None]
                    ELSE [status |-> next.status, cluster |-> next.next]
    IN skipped[n]

\* The sectors read from the given one of a cluster on.  The end of the file
\* has to be the end of its chain.
read_clusters(skipped, first, sector, remaining, reaches_eof, file_size) ==
    LET read[walked \in 0 .. cluster_count, c \in Clusters \cup {None},
             from \in Slots, left \in 0 .. remaining] ==
            LET amount == Lesser(left, SlotsPerCluster - from + 1)
                data == SubSeq(disk[c], from, from + amount - 1)
                next == next_cluster(c)
                rest == read[walked + 1, next.next, 1, left - amount]
            IN IF walked = cluster_count \/ ~valid_data_cluster(c)
               THEN Bytes("Corrupt", <<>>, file_size)
               ELSE IF device = "gone" THEN Bytes("IoError", <<>>, file_size)
               ELSE IF left = amount /\ ~reaches_eof THEN Bytes("Ok", data, file_size)
               ELSE IF next.status # "Ok" THEN Bytes(next.status, data, file_size)
               ELSE IF left = amount
               THEN Bytes(IF next.eoc THEN "Ok" ELSE "Corrupt", data, file_size)
               ELSE IF next.eoc THEN Bytes("Corrupt", data, file_size)
               ELSE Bytes(rest.status, data \o rest.data, file_size)
    IN read[skipped, first, sector, remaining]

\* The loop of read_file, begun in the cluster that skip_clusters gave.
read_from(start, offset, remaining, file_size) ==
    IF start.status # "Ok" THEN Bytes(start.status, <<>>, file_size)
    ELSE read_clusters(offset \div SlotsPerCluster, start.cluster, (offset % SlotsPerCluster) + 1,
                       remaining, remaining = file_size - offset, file_size)

read_found(found, offset, buffer_size) ==
    LET e == found.entry
        file_size == e.size
    IN IF found.status # "Ok" THEN Bytes(found.status, <<>>, 0)
       ELSE IF e.kind = "dir" THEN Bytes("IsDirectory", <<>>, 0)
       ELSE IF offset >= file_size \/ buffer_size = 0 THEN Bytes("Ok", <<>>, file_size)
       ELSE IF ~valid_data_cluster(e.first) THEN Bytes("Corrupt", <<>>, file_size)
       ELSE read_from(skip_clusters(e.first, offset \div SlotsPerCluster), offset,
                      Lesser(file_size - offset, buffer_size), file_size)
read_file(path, offset, buffer_size) == read_found(resolve_entry(path), offset, buffer_size)

-----------------------------------------------------------------------------
(* What a reader gets, in every state that a power loss may leave.         *)

\* The paths of the directories there are, each with its first cluster.
PathOf(d) ==
    IF d = Root THEN <<>>
    ELSE <<(CHOOSE e \in shown : e.kind = "directory" /\ e.contents = d).name>>

\* What a read of the whole file returns: every piece, in order.
WholeFile(size) == [n \in 1 .. size |-> Data(size, n)]

\* Readers see the tree that the writers build, and never one of their
\* intermediate states: in every state, an interrupted or failed operation's
\* included, a directory lists exactly its entries, whether by visitor or by
\* index, each name resolves to its entry and no other name to any, and every
\* part of a file, from any offset and with any buffer, is what belongs there.
ReaderAgrees ==
    device = "up" /\ twins # "spoiled" =>
        \A d \in Directories :
            LET path == PathOf(d)
                here == {e \in shown : e.dir = d}
                directory == resolve_directory(path)
                listing == listed(directory)
            IN /\ listing.status = "Ok"
               /\ {Shown(fat[1], disk, d, e) : e \in Range(listing.entries)} = here
               /\ Len(listing.entries) = Cardinality(here)
               /\ \A i \in 0 .. Len(listing.entries) :
                    entry_at(listing, i) =
                      Result("Ok", IF i = Len(listing.entries) THEN End
                                   ELSE listing.entries[i + 1])
               /\ \A n \in Names :
                    LET found == stat_path(Append(path, n)) IN
                    IF found.status # "Ok"
                    THEN found.status = "NotFound" /\ \A e \in here : e.name # n
                    ELSE LET e == Shown(fat[1], disk, d, found.entry)
                             units == e.contents
                         IN /\ e \in here
                            /\ e.kind = "file" =>
                                 \A offset \in 0 .. units : \A size \in 1 .. units - offset + 1 :
                                   read_found(found, offset, size) =
                                     Bytes("Ok", SubSeq(WholeFile(e.contents), offset + 1,
                                                        Lesser(offset + size, units)), units)
=============================================================================
