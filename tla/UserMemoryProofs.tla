------------------------- MODULE UserMemoryProofs -------------------------
(***************************************************************************)
(* The accounting of physical pages, for any amount of memory, any images  *)
(* and any number of processes.                                            *)
(*                                                                         *)
(* The inductive invariant adds to the properties what load_process_image  *)
(* has done at each point: the pages that it has taken are those that are  *)
(* mapped, and at most one more; and no virtual page is mapped that is     *)
(* still to come.                                                          *)
(***************************************************************************)
EXTENDS UserMemory, FiniteSetTheorems, TLAPS

Loading == {"space", "page", "table", "stack", "cleanup"}

Typed ==
    /\ used \subseteq Pages /\ kernel \subseteq Pages /\ user_pages \subseteq Pages
    /\ free_count = PageCount - Cardinality(used) /\ next_hint \in Pages
    /\ state \in [Slots -> States]
    /\ page \in [Slots -> [Places -> Pages \cup {None}]]
    /\ at \in Points /\ current \in Slots
    /\ todo \in Seq(Leaves)
    /\ Reserved \subseteq kernel

Progress ==
    /\ at \notin Loading => user_pages = {}
    /\ \A p \in Slots : state[p] = "Created" <=> p = current /\ at \in Loading
    /\ at \in Loading =>
         /\ page[current][KernelStack] = None
         /\ \A v \in Leaves : page[current][v] \in user_pages \cup {None}
         /\ \A i \in user_pages : owned(i) => \E v \in Leaves : page[current][v] = i
    /\ at = "space" => user_pages = {} /\ page[current] = Empty
    /\ at \in {"page", "stack"} => unmapped = {}
    /\ at = "table" => unmapped = {leaf}
    /\ at \in {"space", "page", "table"} =>
         /\ todo # <<>>
         /\ \A i \in DOMAIN todo : page[current][todo[i]] = None
         /\ \A i, j \in DOMAIN todo : todo[i] = todo[j] => i = j

MInv == Typed /\ Progress /\ OneOwner /\ FreesSucceed

\* There are PageCount pages.
LEMMA PagesFinite == IsFiniteSet(Pages) /\ Cardinality(Pages) = PageCount
<1>1. 0 \in Int /\ PageCount - 1 \in Int /\ 0 <= PageCount - 1
    BY PagesAssumption
<1>2. /\ IsFiniteSet(0 .. PageCount - 1)
      /\ Cardinality(0 .. PageCount - 1) =
           IF 0 > PageCount - 1 THEN 0 ELSE PageCount - 1 - 0 + 1
    BY <1>1, FS_Interval
<1> QED
    BY <1>1, <1>2, PagesAssumption DEF Pages

\* A set of pages is finite.
LEMMA UsedFinite ==
    ASSUME NEW U \in SUBSET Pages
    PROVE  IsFiniteSet(U) /\ Cardinality(U) \in Nat
BY PagesFinite, FS_Subset, FS_CardinalityType

\* allocate_page takes a page that is free and keeps the count.
LEMMA Allocated ==
    ASSUME Typed, NEW i \in Pages, allocate_page(i)
    PROVE  /\ i \notin used /\ used' = used \cup {i} /\ used' \subseteq Pages
           /\ free_count' = PageCount - Cardinality(used')
           /\ next_hint' \in Pages
<1> USE PagesAssumption DEF Typed
<1>1. i \notin used /\ used' = used \cup {i} /\ free_count' = free_count - 1
    BY DEF allocate_page, found, first_free
<1>2. IsFiniteSet(used) /\ Cardinality(used) \in Nat
    BY UsedFinite
<1>3. Cardinality(used') = Cardinality(used) + 1
    BY <1>1, <1>2, FS_AddElement, Zenon
<1>4. next_hint' \in Pages
    BY DEF allocate_page, Pages
<1> QED
    BY <1>1, <1>2, <1>3, <1>4

\* allocate_page fails only if no page is free.
LEMMA Exhausted ==
    ASSUME Typed, exhausted
    PROVE  used = Pages
<1> USE PagesAssumption DEF Typed
<1>1. CASE free_count = 0
    <2>1. Cardinality(Pages) = Cardinality(used)
        BY <1>1, PagesFinite, UsedFinite
    <2> QED
        BY <2>1, PagesFinite, FS_Subset, Zenon
<1>2. CASE none_free(next_hint, PageCount) /\ none_free(0, next_hint)
    <2> SUFFICES ASSUME NEW i \in Pages PROVE i \in used
        BY Zenon
    <2>1. i \in next_hint .. PageCount - 1 \/ i \in 0 .. next_hint - 1
        BY DEF Pages
    <2> QED
        BY <1>2, <2>1 DEF none_free
<1> QED
    BY <1>1, <1>2 DEF exhausted

\* free_page gives back pages in use that are not reserved, and keeps the
\* count.
LEMMA Freed ==
    ASSUME Typed, NEW S \in SUBSET (used \ Reserved), free_pages(S)
    PROVE  /\ used' = used \ S
           /\ free_count' = PageCount - Cardinality(used')
           /\ next_hint' \in Pages
<1> USE PagesAssumption DEF Typed
<1>1. freed(S) = S
    BY Zenon DEF freed
<1>2. used' = used \ S /\ free_count' = free_count + Cardinality(S)
    BY <1>1 DEF free_pages
<1>3. IsFiniteSet(used) /\ Cardinality(used) \in Nat
    BY UsedFinite
<1>4. IsFiniteSet(S) /\ Cardinality(S) \in Nat
    BY UsedFinite
<1>5. Cardinality(used \ S) = Cardinality(used) - Cardinality(S)
    <2>1. used \cap S = S
        BY Zenon
    <2> QED
        BY <1>3, <2>1, FS_Difference, Zenon
<1>6. next_hint' \in Pages
    BY <1>1, Zenon DEF free_pages
<1> QED
    BY <1>2, <1>3, <1>4, <1>5, <1>6

\* What a step does that puts a free page i in place q of the current process.
FreshIn(q, i) ==
    /\ page' \in [Slots -> [Places -> Pages \cup {None}]]
    /\ \A p \in Slots : \A s \in Places :
         page'[p][s] = IF p = current /\ s = q THEN i ELSE page[p][s]
    /\ \A j \in Pages : owned(j)' <=> owned(j) \/ j = i
    /\ i \notin kernel /\ i \notin user_pages /\ ~owned(i)
    /\ \A p, r \in Slots : \A a, b \in Places :
         page'[p][a] = page'[r][b] /\ page'[p][a] # None => p = r /\ a = b

\* A free page that is put in an empty place has no other owner.
LEMMA PutFresh ==
    ASSUME Typed, OneOwner, NEW q \in Places, page[current][q] = None,
           NEW i \in Pages, i \notin used, put(q, i)
    PROVE  FreshIn(q, i)
<1> USE DEF Typed
<1>1. i # None /\ \A j \in Pages : j # None
    BY PagesAssumption DEF Pages, None
<1>2. i \notin kernel /\ ~owned(i) /\ i \notin user_pages
    BY DEF OneOwner, unmapped
<1>3. page' \in [Slots -> [Places -> Pages \cup {None}]]
    BY DEF put
<1>4. \A p \in Slots : \A s \in Places :
        page'[p][s] = IF p = current /\ s = q THEN i ELSE page[p][s]
    BY DEF put
<1>5. \A j \in Pages : owned(j)' <=> owned(j) \/ j = i
    <2> TAKE j \in Pages
    <2>1. owned(j)' => owned(j) \/ j = i
        BY <1>4 DEF owned
    <2>2. owned(j) => owned(j)'
        <3>1. SUFFICES ASSUME NEW p \in Slots, NEW s \in Places, page[p][s] = j
                       PROVE  page'[p][s] = j
            BY DEF owned
        <3> QED
            BY <1>1, <1>4, <3>1
    <2>3. j = i => owned(j)'
        BY <1>4 DEF owned
    <2> QED
        BY <2>1, <2>2, <2>3
<1>6. \A p \in Slots : \A s \in Places : page[p][s] # i
    BY <1>2 DEF owned
<1>7. \A p, r \in Slots : \A a, b \in Places :
        page[p][a] = page[r][b] /\ page[p][a] # None => p = r /\ a = b
    BY DEF OneOwner
<1>8. \A p, r \in Slots : \A a, b \in Places :
        page'[p][a] = page'[r][b] /\ page'[p][a] # None => p = r /\ a = b
    BY <1>4, <1>6, <1>7
<1> QED
    BY <1>2, <1>3, <1>4, <1>5, <1>8 DEF FreshIn

\* The places of a table, of a mapped page and of the kernel stack differ.
LEMMA PlacesDiffer ==
    /\ \A q \in Places : q \in Tables \/ q \in Leaves \/ q = KernelStack
    /\ \A q \in Tables : q \in Places /\ q \notin Leaves /\ q # KernelStack
    /\ \A v \in Leaves : v \in Places /\ v \notin Tables /\ v # KernelStack
    /\ KernelStack \in Places /\ Root \in Tables
BY LayoutAssumption DEF Places, Tables

\* No page is None.
LEMMA NoneIsNoPage == None \notin Pages
BY PagesAssumption DEF Pages, None

\* A page that is taken and put in an empty place of the process that is
\* being loaded has that one owner.
LEMMA TakenIsOwned ==
    ASSUME MInv, NEW q \in Places, page[current][q] = None,
           NEW i \in Pages, allocate_page(i), put(q, i),
           kernel' = kernel, user_pages' \subseteq user_pages,
           \A j \in Pages : j \in user_pages /\ j \notin user_pages' => owned(j),
           state[current] = "Created",
           \A p \in Slots : state'[p] = "Unused" => state[p] = "Unused" /\ p # current
    PROVE  OneOwner'
<1> USE DEF MInv
<1>1. /\ i \notin used /\ used' = used \cup {i}
      /\ free_count' = PageCount - Cardinality(used')
    BY Allocated
<1>1a. FreshIn(q, i)
    BY <1>1, PutFresh
<1>2. /\ \A p \in Slots : \A s \in Places :
           page'[p][s] = IF p = current /\ s = q THEN i ELSE page[p][s]
      /\ \A j \in Pages : owned(j)' <=> owned(j) \/ j = i
      /\ i \notin kernel /\ i \notin user_pages /\ ~owned(i)
    BY <1>1a DEF FreshIn
<1>3. \A p, r \in Slots : \A a, b \in Places :
        page'[p][a] = page'[r][b] /\ page'[p][a] # None => p = r /\ a = b
    BY <1>1a DEF FreshIn
<1>4. \A j \in Pages : j \in unmapped' <=> j \in unmapped
    BY <1>2 DEF unmapped
<1>5. unmapped' \subseteq Pages /\ unmapped \subseteq Pages
    BY DEF unmapped, Typed
<1>6. \A j \in Pages : j \in used' <=> j \in kernel' \/ j \in unmapped' \/ owned(j)'
    BY <1>1, <1>2, <1>4 DEF OneOwner
<1>7. \A j \in kernel' : j \notin user_pages' /\ ~owned(j)'
    BY <1>2 DEF OneOwner, Typed
<1>8. \A p \in Slots : state'[p] = "Unused" => page'[p] = Empty
    <2> SUFFICES ASSUME NEW p \in Slots, state'[p] = "Unused" PROVE page'[p] = page[p]
        BY DEF OneOwner
    <2> QED
        BY DEF put, Typed
<1>9. \A j, k \in unmapped' : j = k
    BY <1>4, <1>5 DEF OneOwner
<1> QED
    BY <1>1, <1>3, <1>6, <1>7, <1>8, <1>9 DEF OneOwner

\* What is in a sequence over S is in S.
LEMMA ElementOfSeq ==
    ASSUME NEW S, NEW s \in Seq(S), NEW i \in DOMAIN s
    PROVE  s[i] \in S
OBVIOUS

\* Nothing is loaded yet.
LEMMA InitMInv == Init => MInv
<1> SUFFICES ASSUME Init PROVE MInv
    OBVIOUS
<1> USE DEF Init
<1>1. PICK n \in {0} \cup {i + 1 : i \in Pages \ Reserved} :
        kernel = Reserved \cup 0 .. n - 1 /\ next_hint = IF n = PageCount THEN 0 ELSE n
    OBVIOUS
<1>2. n \in 0 .. PageCount
    BY PagesAssumption DEF Pages
<1>3. kernel \subseteq Pages /\ next_hint \in Pages /\ Reserved \subseteq kernel
    BY <1>1, <1>2, PagesAssumption DEF Pages
<1>4. Typed
    BY <1>3 DEF Typed, States, Points, Empty
<1>5. \A i \in Pages : ~owned(i)
    BY NoneIsNoPage DEF owned, Empty
<1>6. unmapped = {}
    BY DEF unmapped
<1>7. OneOwner
    BY <1>3, <1>5, <1>6, Zenon DEF OneOwner, Empty
<1>8. Progress
    BY DEF Progress, Loading
<1> QED
    BY <1>4, <1>7, <1>8 DEF MInv, FreesSucceed

\* A process is chosen for the next image.
LEMMA AllocateMInv == MInv /\ allocate_process => MInv'
<1> SUFFICES ASSUME MInv, allocate_process PROVE MInv'
    OBVIOUS
<1> USE DEF MInv
<1>1. PICK p \in Slots, image \in Images :
        /\ state[p] = "Unused"
        /\ current' = p
        /\ IF image = <<>>
           THEN at' = "discard" /\ todo' = <<>> /\ state' = state
           ELSE at' = "space" /\ todo' = image \o Stack
                /\ state' = [state EXCEPT ![p] = "Created"]
    BY DEF allocate_process
<1>2. /\ used' = used /\ free_count' = free_count /\ next_hint' = next_hint
      /\ page' = page /\ user_pages' = user_pages /\ kernel' = kernel /\ refused' = refused
      /\ leaf' = leaf /\ at = "allocate"
    BY DEF bitmap, allocate_process
<1>3. user_pages = {} /\ page[p] = Empty
    BY <1>1, <1>2 DEF Progress, OneOwner, Loading
<1>4. image \in Seq(Leaves) /\ Stack \in Seq(Leaves) /\ Stack # <<>>
    BY LayoutAssumption
<1>5. image \o Stack \in Seq(Leaves) /\ image \o Stack # <<>>
    BY <1>4
<1>6. Typed'
    <2>0. <<>> \in Seq(Leaves)
        OBVIOUS
    <2>1. todo' \in Seq(Leaves) /\ current' \in Slots
        BY <1>1, <1>5, <2>0, Zenon
    <2>2. state' \in [Slots -> States] /\ at' \in Points
        BY <1>1 DEF Typed, States, Points
    <2> QED
        BY <1>2, <2>1, <2>2 DEF Typed
<1>7. \A i \in Pages : owned(i)' <=> owned(i)
    BY <1>2 DEF owned
<1>8. unmapped = {} /\ unmapped' = {}
    BY <1>2, <1>3 DEF unmapped
<1>9. \A q \in Slots : state'[q] = "Unused" => page'[q] = Empty
    BY <1>1, <1>2 DEF OneOwner, Typed
<1>10. OneOwner'
    BY <1>2, <1>7, <1>8, <1>9 DEF OneOwner, Typed
<1>11. \A q \in Slots : state'[q] = "Created" <=> q = current' /\ at' \in Loading
    BY <1>1, <1>2 DEF Progress, Loading, Typed
<1>12. CASE image = <<>>
    BY <1>1, <1>2, <1>3, <1>6, <1>10, <1>11, <1>12 DEF Progress, Loading, FreesSucceed
<1>13. CASE image # <<>>
    <2>1. \A i \in DOMAIN todo' : todo'[i] \in Leaves
        <3>1. todo' \in Seq(Leaves)
            BY <1>1, <1>5, <1>13, Zenon
        <3> QED
            BY <3>1, ElementOfSeq
    <2>2. \A i, j \in DOMAIN todo' : todo'[i] = todo'[j] => i = j
        BY <1>1, <1>13, LayoutAssumption, Zenon
    <2>3. \A q \in Places : page'[current'][q] = None
        BY <1>1, <1>2, <1>3 DEF Empty
    <2>4. at' = "space" /\ todo' # <<>> /\ page'[current'] = Empty
        BY <1>1, <1>2, <1>3, <1>5, <1>13
    <2>5. \A i \in DOMAIN todo' : page'[current'][todo'[i]] = None
        BY <2>1, <2>3, PlacesDiffer
    <2>6. user_pages' = {}
        BY <1>2, <1>3
    <2>7. page'[current'][KernelStack] = None /\ \A v \in Leaves : page'[current'][v] = None
        BY <2>3, PlacesDiffer
    <2>8. Progress'
        BY <1>11, <2>2, <2>4, <2>5, <2>6, <2>7 DEF Progress
    <2> QED
        BY <1>2, <1>6, <1>10, <2>8 DEF FreesSucceed
<1> QED
    BY <1>12, <1>13

\* A step that leaves the bitmap and the page tables alone, and releases no
\* slot, leaves every page with its owner.
LEMMA SameOwners ==
    ASSUME Typed, OneOwner, used' = used, free_count' = free_count, kernel' = kernel,
           user_pages' = user_pages, page' = page,
           \A p \in Slots : state'[p] = "Unused" => state[p] = "Unused"
    PROVE  OneOwner'
<1>1. \A i : owned(i)' <=> owned(i)
    BY DEF owned
<1>2. unmapped' = unmapped
    BY <1>1 DEF unmapped
<1>3. \A i \in Pages : i \in used' <=> i \in kernel' \/ i \in unmapped' \/ owned(i)'
    BY <1>1, <1>2 DEF OneOwner
<1>4. \A i \in kernel' : i \notin user_pages' /\ ~owned(i)'
    BY <1>1 DEF OneOwner
<1>5. \A p, r \in Slots : \A a, b \in Places :
        page'[p][a] = page'[r][b] /\ page'[p][a] # None => p = r /\ a = b
    BY DEF OneOwner
<1>6. \A p \in Slots : state'[p] = "Unused" => page'[p] = Empty
    BY DEF OneOwner
<1>7. (\A i, j \in unmapped' : i = j) /\ free_count' = PageCount - Cardinality(used')
    BY <1>2 DEF OneOwner
<1> QED
    BY <1>3, <1>4, <1>5, <1>6, <1>7 DEF OneOwner

\* Going to the cleanup changes nothing else.
LEMMA GiveUpMInv ==
    ASSUME MInv, at \in Loading, at' = "cleanup",
           UNCHANGED <<bitmap, state, page, current, todo, user_pages, kernel, refused>>
    PROVE  MInv'
<1> USE DEF MInv
<1>1. /\ used' = used /\ free_count' = free_count /\ next_hint' = next_hint
      /\ state' = state /\ page' = page /\ user_pages' = user_pages /\ kernel' = kernel
      /\ current' = current /\ todo' = todo /\ refused' = refused
    BY DEF bitmap
<1>2. Typed'
    BY <1>1 DEF Typed, Points
<1>3. \A i \in Pages : owned(i)' <=> owned(i)
    BY <1>1 DEF owned
<1>5. OneOwner'
    BY <1>1, SameOwners
<1>6. Progress'
    BY <1>1, <1>3 DEF Progress, Loading, Typed
<1> QED
    BY <1>1, <1>2, <1>5, <1>6 DEF FreesSucceed

\* A page is taken for a table.
LEMMA TableMInv ==
    ASSUME MInv, NEW q \in Tables, page[current][q] = None,
           NEW i \in Pages, allocate_page(i), put(q, i),
           (at = "space" /\ at' = "page") \/ (at = "table" /\ at' = "table"),
           UNCHANGED <<state, current, todo, user_pages, leaf, kernel, refused>>
    PROVE  MInv'
<1> USE DEF MInv
<1>1. /\ state' = state /\ user_pages' = user_pages /\ kernel' = kernel
      /\ current' = current /\ todo' = todo /\ refused' = refused /\ leaf' = leaf
    OBVIOUS
<1>2. at \in Loading /\ at' \in Loading /\ state[current] = "Created"
    BY DEF Progress, Loading, Typed
<1>3. q \in Places /\ q \notin Leaves /\ q # KernelStack
    BY PlacesDiffer
<1>4. i \notin used /\ used' \subseteq Pages /\ next_hint' \in Pages
      /\ free_count' = PageCount - Cardinality(used')
    BY Allocated
<1>5. /\ page' \in [Slots -> [Places -> Pages \cup {None}]]
      /\ \A p \in Slots : \A s \in Places :
           page'[p][s] = IF p = current /\ s = q THEN i ELSE page[p][s]
      /\ \A j \in Pages : owned(j)' <=> owned(j) \/ j = i
      /\ i \notin kernel /\ i \notin user_pages /\ ~owned(i)
    <2>1. FreshIn(q, i)
        BY <1>3, <1>4, PutFresh
    <2> QED
        BY <2>1 DEF FreshIn
<1>6. OneOwner'
    <2>1. \A p \in Slots : state'[p] = "Unused" => state[p] = "Unused" /\ p # current
        BY <1>1, <1>2
    <2> QED
        BY <1>1, <1>2, <1>3, <2>1, TakenIsOwned
<1>7. Typed'
    BY <1>1, <1>4, <1>5 DEF Typed, Points
<1>8. unmapped' = unmapped
    BY <1>1, <1>5 DEF unmapped, Typed
<1>9. \A v \in Leaves : v \in Places /\ page'[current'][v] = page[current][v]
    BY <1>1, <1>3, <1>5, PlacesDiffer DEF Typed
<1>10. page'[current'][KernelStack] = page[current][KernelStack]
    BY <1>1, <1>3, <1>5, PlacesDiffer DEF Typed
<1>11. \A j \in DOMAIN todo : todo[j] \in Leaves
    BY ElementOfSeq DEF Typed
<1>12. \A j \in user_pages : owned(j)' <=> owned(j)
    BY <1>5 DEF Typed
<1>13. page[current][KernelStack] = None
    BY <1>2 DEF Progress
<1>14. at = "space" => unmapped = {}
    BY DEF Progress, unmapped
<1>15. /\ at' \notin Loading => user_pages' = {}
       /\ \A p \in Slots : state'[p] = "Created" <=> p = current' /\ at' \in Loading
       /\ at' \notin {"space", "stack"}
    BY <1>1, <1>2 DEF Progress
<1>16. /\ \A v \in Leaves : page'[current'][v] \in user_pages' \cup {None}
       /\ \A j \in user_pages' : owned(j)' => \E v \in Leaves : page'[current'][v] = j
    BY <1>1, <1>2, <1>9, <1>12 DEF Progress
<1>17. (at' = "page" => unmapped' = {}) /\ (at' = "table" => unmapped' = {leaf'})
    BY <1>1, <1>8, <1>14 DEF Progress
<1>18. /\ todo' # <<>>
       /\ \A j \in DOMAIN todo' : page'[current'][todo'[j]] = None
       /\ \A j, k \in DOMAIN todo' : todo'[j] = todo'[k] => j = k
    <2>1. /\ todo # <<>>
          /\ \A j \in DOMAIN todo : page[current][todo[j]] = None
          /\ \A j, k \in DOMAIN todo : todo[j] = todo[k] => j = k
        BY DEF Progress
    <2> QED
        BY <1>1, <1>9, <1>11, <2>1
<1>19. Progress'
    BY <1>10, <1>13, <1>15, <1>16, <1>17, <1>18 DEF Progress
<1> QED
    BY <1>1, <1>6, <1>7, <1>19 DEF FreesSucceed

\* create_user_address_space
LEMMA SpaceMInv == MInv /\ create_user_address_space => MInv'
<1> SUFFICES ASSUME MInv, create_user_address_space PROVE MInv'
    OBVIOUS
<1> USE DEF MInv
<1>1. /\ at = "space" /\ current' = current /\ todo' = todo /\ user_pages' = user_pages
      /\ leaf' = leaf /\ kernel' = kernel /\ refused' = refused
    BY DEF create_user_address_space
<1>2. page[current] = Empty /\ user_pages = {} /\ state[current] = "Created"
    BY <1>1 DEF Progress, Loading, Typed
<1>3. CASE \E i \in Pages : allocate_page(i) /\ put(Root, i) /\ at' = "page" /\ UNCHANGED state
    <2>1. Root \in Tables /\ page[current][Root] = None
        BY <1>2, PlacesDiffer DEF Empty
    <2>2. PICK i \in Pages : allocate_page(i) /\ put(Root, i)
        BY <1>3
    <2>3. at' = "page" /\ state' = state
        BY <1>3
    <2>4. (at = "space" /\ at' = "page") \/ (at = "table" /\ at' = "table")
        BY <1>1, <2>3
    <2>5. UNCHANGED <<state, current, todo, user_pages, leaf, kernel, refused>>
        BY <1>1, <2>3
    <2> QED
        BY <2>1, <2>2, <2>4, <2>5, TableMInv
<1>4. CASE becomes("Unused") /\ at' = "discard" /\ UNCHANGED <<bitmap, page>>
    <2>1. /\ used' = used /\ free_count' = free_count /\ next_hint' = next_hint
          /\ page' = page /\ at' = "discard" /\ state' = [state EXCEPT ![current] = "Unused"]
        BY <1>4 DEF bitmap, becomes
    <2>2. \A i \in Pages : owned(i)' <=> owned(i)
        BY <2>1 DEF owned
    <2>3. unmapped' = {} /\ unmapped = {}
        BY <1>1, <1>2 DEF unmapped
    <2>4. Typed'
        BY <1>1, <2>1 DEF Typed, States, Points
    <2>5. \A p \in Slots : state'[p] = "Unused" => page'[p] = Empty
        BY <1>2, <2>1 DEF OneOwner, Typed
    <2>6. OneOwner'
        <3>1. \A i \in Pages : i \in used' <=> i \in kernel' \/ i \in unmapped' \/ owned(i)'
            BY <1>1, <2>1, <2>2, <2>3 DEF OneOwner
        <3>2. \A i \in kernel' : i \notin user_pages' /\ ~owned(i)'
            BY <1>1, <2>2 DEF OneOwner, Typed
        <3>3. \A p, r \in Slots : \A q, s \in Places :
                page'[p][q] = page'[r][s] /\ page'[p][q] # None => p = r /\ q = s
            BY <2>1 DEF OneOwner
        <3> QED
            BY <2>1, <2>3, <2>4, <2>5, <3>1, <3>2, <3>3 DEF OneOwner, Typed
    <2>7. \A p \in Slots : state'[p] # "Created"
        BY <1>1, <2>1 DEF Progress, Typed
    <2>8. Progress'
        BY <1>1, <1>2, <2>1, <2>7 DEF Progress, Loading
    <2> QED
        BY <1>1, <2>4, <2>6, <2>8 DEF FreesSucceed
<1> QED
    BY <1>3, <1>4 DEF create_user_address_space

\* A page for the next virtual page.
LEMMA LeafMInv == MInv /\ allocate_leaf => MInv'
<1> SUFFICES ASSUME MInv, allocate_leaf PROVE MInv'
    OBVIOUS
<1> USE DEF MInv
<1>1. /\ at = "page" /\ state' = state /\ page' = page /\ current' = current
      /\ todo' = todo /\ kernel' = kernel /\ refused' = refused
    BY DEF allocate_leaf
<1>2. at \in Loading /\ unmapped = {}
    BY <1>1 DEF Progress, Loading
<1>3. CASE \E i \in Pages :
             /\ allocate_page(i)
             /\ user_pages' = user_pages \cup {i} /\ leaf' = i
             /\ at' = IF flags_allowed(Head(todo)) THEN "table" ELSE "cleanup"
    <2>1. PICK i \in Pages :
             /\ allocate_page(i)
             /\ user_pages' = user_pages \cup {i} /\ leaf' = i
             /\ at' = IF flags_allowed(Head(todo)) THEN "table" ELSE "cleanup"
        BY <1>3
    <2>2. at' \in {"table", "cleanup"} /\ at' \in Loading
        BY <2>1 DEF Loading
    <2>3. /\ i \notin used /\ used' = used \cup {i} /\ used' \subseteq Pages
          /\ free_count' = PageCount - Cardinality(used') /\ next_hint' \in Pages
        BY <2>1, Allocated
    <2>4. Typed'
        BY <1>1, <2>1, <2>2, <2>3 DEF Typed, Points
    <2>5. \A j \in Pages : owned(j)' <=> owned(j)
        BY <1>1 DEF owned
    <2>6. i \notin kernel /\ ~owned(i)
        BY <2>3 DEF OneOwner
    <2>7. unmapped' = {i}
        BY <1>2, <2>1, <2>5, <2>6 DEF unmapped, Typed
    <2>8. OneOwner'
        <3>1. \A j \in Pages : j \in used' <=> j \in kernel' \/ j \in unmapped' \/ owned(j)'
            BY <1>1, <1>2, <2>1, <2>3, <2>5, <2>7 DEF OneOwner
        <3>2. \A j \in kernel' : j \notin user_pages' /\ ~owned(j)'
            BY <1>1, <1>2, <2>1, <2>5, <2>6 DEF OneOwner, Typed
        <3>3. /\ \A p, r \in Slots : \A a, b \in Places :
                   page'[p][a] = page'[r][b] /\ page'[p][a] # None => p = r /\ a = b
              /\ \A p \in Slots : state'[p] = "Unused" => page'[p] = Empty
            BY <1>1 DEF OneOwner
        <3> QED
            BY <2>3, <2>7, <3>1, <3>2, <3>3 DEF OneOwner
    <2>9. /\ at' \notin Loading => user_pages' = {}
          /\ \A p \in Slots : state'[p] = "Created" <=> p = current' /\ at' \in Loading
          /\ page'[current'][KernelStack] = None
        BY <1>1, <1>2, <2>2 DEF Progress
    <2>10. /\ \A v \in Leaves : page'[current'][v] \in user_pages' \cup {None}
           /\ \A j \in user_pages' : owned(j)' => \E v \in Leaves : page'[current'][v] = j
        <3>1. /\ \A v \in Leaves : page[current][v] \in user_pages \cup {None}
              /\ \A j \in user_pages : owned(j) => \E v \in Leaves : page[current][v] = j
              /\ user_pages \subseteq Pages
            BY <1>1, <1>2 DEF Progress, Typed
        <3> QED
            BY <1>1, <2>1, <2>5, <2>6, <3>1
    <2>11. /\ todo' # <<>>
           /\ \A j \in DOMAIN todo' : page'[current'][todo'[j]] = None
           /\ \A j, k \in DOMAIN todo' : todo'[j] = todo'[k] => j = k
        BY <1>1 DEF Progress
    <2>12. Progress'
        BY <2>1, <2>2, <2>7, <2>9, <2>10, <2>11 DEF Progress
    <2> QED
        BY <1>1, <2>4, <2>8, <2>12 DEF FreesSucceed
<1>4. CASE at' = "cleanup" /\ UNCHANGED <<bitmap, user_pages, leaf>>
    BY <1>1, <1>2, <1>4, GiveUpMInv
<1> QED
    BY <1>3, <1>4 DEF allocate_leaf

\* child
LEMMA ChildMInv == MInv /\ child => MInv'
<1> SUFFICES ASSUME MInv, child PROVE MInv'
    OBVIOUS
<1>1. /\ at = "table" /\ state' = state /\ current' = current /\ leaf' = leaf
      /\ todo' = todo /\ user_pages' = user_pages /\ kernel' = kernel /\ refused' = refused
    BY DEF child
<1>2. PICK n \in missing(Head(todo)) :
        \/ (\E i \in Pages : allocate_page(i) /\ put(Prefix(Head(todo), n), i)) /\ UNCHANGED at
        \/ at' = "cleanup" /\ UNCHANGED <<bitmap, page>>
    BY DEF child
<1>3. CASE (\E i \in Pages : allocate_page(i) /\ put(Prefix(Head(todo), n), i)) /\ UNCHANGED at
    <2>1. n \in 1 .. 3 /\ page[current][Prefix(Head(todo), n)] = None
        BY DEF missing
    <2>2. Head(todo) \in Leaves
        BY <1>1 DEF MInv, Progress, Typed
    <2>3. Prefix(Head(todo), n) \in Tables
        BY <2>1, <2>2 DEF Tables
    <2>4. PICK i \in Pages : allocate_page(i) /\ put(Prefix(Head(todo), n), i)
        BY <1>3
    <2> QED
        BY <1>1, <1>3, <2>1, <2>3, <2>4, TableMInv
<1>4. CASE at' = "cleanup" /\ UNCHANGED <<bitmap, page>>
    BY <1>1, <1>4, GiveUpMInv DEF Loading
<1> QED
    BY <1>2, <1>3, <1>4

\* The end of map_user_page.
LEMMA MapMInv == MInv /\ map_user_page => MInv'
<1> SUFFICES ASSUME MInv, map_user_page PROVE MInv'
    OBVIOUS
<1> USE DEF MInv
<1> DEFINE v == Head(todo)
<1>1. /\ at = "table" /\ put(v, leaf) /\ todo' = Tail(todo)
      /\ at' = (IF Tail(todo) = <<>> THEN "stack" ELSE "page")
      /\ used' = used /\ free_count' = free_count /\ next_hint' = next_hint
      /\ state' = state /\ current' = current /\ user_pages' = user_pages
      /\ kernel' = kernel /\ refused' = refused
    BY DEF map_user_page, bitmap
<1>2. at \in Loading /\ at' \in Loading /\ at' \in {"page", "stack"} /\ state[current] = "Created"
    BY <1>1 DEF Progress, Loading, Typed
<1>3. /\ todo \in Seq(Leaves) /\ todo # <<>>
      /\ \A j \in DOMAIN todo : page[current][todo[j]] = None
      /\ \A j, k \in DOMAIN todo : todo[j] = todo[k] => j = k
    BY <1>1 DEF Progress, Typed
<1>4. v \in Leaves /\ page[current][v] = None /\ Tail(todo) \in Seq(Leaves)
    BY <1>3
<1>5. /\ \A j \in DOMAIN Tail(todo) :
           /\ j + 1 \in DOMAIN todo /\ Tail(todo)[j] = todo[j + 1] /\ Tail(todo)[j] # v
           /\ Tail(todo)[j] \in Leaves
      /\ \A j, k \in DOMAIN Tail(todo) : Tail(todo)[j] = Tail(todo)[k] => j = k
    <2>1. \A j \in DOMAIN Tail(todo) :
            j \in Nat /\ j >= 1 /\ j + 1 \in DOMAIN todo /\ Tail(todo)[j] = todo[j + 1]
        BY <1>3
    <2>2. 1 \in DOMAIN todo /\ v = todo[1]
        BY <1>3
    <2>3. \A j \in DOMAIN Tail(todo) : todo[j + 1] # v
        BY <1>3, <2>1, <2>2
    <2>4. \A j, k \in DOMAIN Tail(todo) : Tail(todo)[j] = Tail(todo)[k] => j + 1 = k + 1
        BY <1>3, <2>1
    <2>5. \A j, k \in DOMAIN Tail(todo) : j + 1 = k + 1 => j = k
        BY <2>1
    <2> QED
        BY <1>4, <2>1, <2>3, <2>4, <2>5, ElementOfSeq
<1> HIDE DEF v
<1>6. unmapped = {leaf} /\ leaf \in user_pages /\ ~owned(leaf) /\ leaf \in Pages /\ leaf # None
    BY <1>1, NoneIsNoPage DEF Progress, unmapped, Typed
<1>7. v \in Places /\ v # KernelStack
    BY <1>4, PlacesDiffer
<1>8. /\ page' \in [Slots -> [Places -> Pages \cup {None}]]
      /\ \A p \in Slots : \A s \in Places :
           page'[p][s] = IF p = current /\ s = v THEN leaf ELSE page[p][s]
    <2>1. current \in Slots /\ page \in [Slots -> [Places -> Pages \cup {None}]]
          /\ page' = [page EXCEPT ![current][v] = leaf]
        BY <1>1 DEF put, Typed
    <2> QED
        BY <1>6, <1>7, <2>1
<1>9. \A j \in Pages : owned(j)' <=> owned(j) \/ j = leaf
    <2> TAKE j \in Pages
    <2>1. owned(j)' => owned(j) \/ j = leaf
        BY <1>8 DEF owned
    <2>2. owned(j) => owned(j)'
        <3>1. SUFFICES ASSUME NEW p \in Slots, NEW s \in Places, page[p][s] = j
                       PROVE  page'[p][s] = j
            BY DEF owned
        <3>2. ~(p = current /\ s = v)
            BY <1>4, <3>1, NoneIsNoPage
        <3> QED
            BY <1>8, <3>1, <3>2
    <2>3. j = leaf => owned(j)'
        BY <1>7, <1>8 DEF owned, Typed
    <2> QED
        BY <2>1, <2>2, <2>3
<1>10. unmapped' = {}
    BY <1>1, <1>6, <1>9 DEF unmapped, Typed
<1>11. Typed'
    BY <1>1, <1>2, <1>4, <1>8 DEF Typed, Points
<1>12. OneOwner'
    <2>1. \A j \in Pages : j \in used' <=> j \in kernel' \/ j \in unmapped' \/ owned(j)'
        BY <1>1, <1>6, <1>9, <1>10 DEF OneOwner
    <2>2. \A j \in kernel' : j \notin user_pages' /\ ~owned(j)'
        BY <1>1, <1>6, <1>9 DEF OneOwner, Typed
    <2>3. \A p, r \in Slots : \A a, b \in Places :
            page'[p][a] = page'[r][b] /\ page'[p][a] # None => p = r /\ a = b
        <3>1. \A p \in Slots : \A s \in Places : page[p][s] # leaf
            BY <1>6 DEF owned
        <3>2. \A p, r \in Slots : \A a, b \in Places :
                page[p][a] = page[r][b] /\ page[p][a] # None => p = r /\ a = b
            BY DEF OneOwner
        <3> QED
            BY <1>8, <3>1, <3>2
    <2>4. \A p \in Slots : state'[p] = "Unused" => page'[p] = Empty
        <3> SUFFICES ASSUME NEW p \in Slots, state'[p] = "Unused" PROVE page'[p] = page[p]
            BY <1>1 DEF OneOwner
        <3> QED
            BY <1>1, <1>2 DEF put, Typed
    <2> QED
        BY <1>1, <1>10, <2>1, <2>2, <2>3, <2>4 DEF OneOwner
<1>13. /\ at' \notin Loading => user_pages' = {}
       /\ \A p \in Slots : state'[p] = "Created" <=> p = current' /\ at' \in Loading
    BY <1>1, <1>2 DEF Progress
<1>14. page'[current'][KernelStack] = None
    <2>1. page[current][KernelStack] = None /\ KernelStack \in Places /\ current \in Slots
        BY <1>2 DEF Progress, Typed, Places
    <2> QED
        BY <1>1, <1>7, <1>8, <2>1
<1>15. \A w \in Leaves : page'[current'][w] \in user_pages' \cup {None}
    <2>1. current \in Slots /\ \A w \in Leaves : page[current][w] \in user_pages \cup {None}
        BY <1>2 DEF Progress, Typed
    <2> QED
        BY <1>1, <1>6, <1>8, <2>1, PlacesDiffer
<1>16. \A j \in user_pages' : owned(j)' => \E w \in Leaves : page'[current'][w] = j
    <2> SUFFICES ASSUME NEW j \in user_pages', owned(j)'
                 PROVE  \E w \in Leaves : page'[current'][w] = j
        OBVIOUS
    <2>1. CASE j = leaf
        BY <1>1, <1>4, <1>7, <1>8, <2>1 DEF Typed
    <2>2. CASE owned(j) /\ j # leaf
        <3>1. PICK w \in Leaves : page[current][w] = j
            BY <1>1, <1>2, <2>2 DEF Progress
        <3>2. w # v /\ w \in Places
            BY <1>1, <1>4, <3>1, NoneIsNoPage, PlacesDiffer DEF Typed
        <3> QED
            BY <1>1, <1>8, <3>1, <3>2 DEF Typed
    <2> QED
        BY <1>1, <1>9, <2>1, <2>2 DEF Typed
<1>17. at' = "page" =>
         /\ todo' # <<>>
         /\ \A j \in DOMAIN todo' : page'[current'][todo'[j]] = None
         /\ \A j, k \in DOMAIN todo' : todo'[j] = todo'[k] => j = k
    <2>1. \A j \in DOMAIN todo' : todo'[j] \in Places
        BY <1>1, <1>5, PlacesDiffer
    <2>2. \A j \in DOMAIN todo' : page[current][todo'[j]] = None /\ todo'[j] # v
        <3>1. todo' = Tail(todo)
            BY <1>1
        <3> QED
            BY <1>3, <1>5, <3>1
    <2>3. \A j \in DOMAIN todo' : page'[current'][todo'[j]] = None
        <3>1. current' = current /\ current \in Slots
            BY <1>1 DEF Typed
        <3> QED
            BY <1>8, <2>1, <2>2, <3>1
    <2> QED
        BY <1>1, <1>5, <2>3
<1>18. Progress'
    BY <1>2, <1>10, <1>13, <1>14, <1>15, <1>16, <1>17 DEF Progress
<1> QED
    BY <1>1, <1>11, <1>12, <1>18 DEF FreesSucceed

\* The kernel stack.
LEMMA StackMInv == MInv /\ kernel_stack => MInv'
<1> SUFFICES ASSUME MInv, kernel_stack PROVE MInv'
    OBVIOUS
<1> USE DEF MInv
<1>1. /\ at = "stack" /\ current' = current /\ todo' = todo /\ kernel' = kernel
      /\ refused' = refused
    BY DEF kernel_stack
<1>2. at \in Loading /\ unmapped = {} /\ state[current] = "Created"
    BY <1>1 DEF Progress, Loading, Typed
<1>3. CASE /\ \E i \in Pages : allocate_page(i) /\ put(KernelStack, i)
           /\ becomes("Ready") /\ user_pages' = {} /\ at' = after_load
    <2>1. PICK i \in Pages : allocate_page(i) /\ put(KernelStack, i)
        BY <1>3
    <2>2. at' \in {"run", "allocate"} /\ state' = [state EXCEPT ![current] = "Ready"]
        BY <1>3 DEF after_load, becomes
    <2>3. KernelStack \in Places /\ page[current][KernelStack] = None
        BY <1>2, PlacesDiffer DEF Progress
    <2>4. i \notin used /\ used' \subseteq Pages /\ next_hint' \in Pages
          /\ free_count' = PageCount - Cardinality(used')
        BY <2>1, Allocated
    <2>5. page' \in [Slots -> [Places -> Pages \cup {None}]]
        BY <2>1, <2>3, <2>4, PutFresh DEF FreshIn
    <2>6. Typed'
        BY <1>1, <1>3, <2>2, <2>4, <2>5, Zenon DEF Typed, States, Points
    <2>7. OneOwner'
        <3>1. \A j \in Pages : j \in user_pages /\ j \notin user_pages' => owned(j)
            BY <1>2 DEF unmapped
        <3>2. user_pages' \subseteq user_pages
            BY <1>3
        <3>3. \A p \in Slots : state'[p] = "Unused" => state[p] = "Unused" /\ p # current
            BY <2>2 DEF Typed
        <3> QED
            BY <1>1, <1>2, <2>1, <2>3, <3>1, <3>2, <3>3, TakenIsOwned, Zenon
    <2>8. \A p \in Slots : state'[p] # "Created"
        BY <1>1, <2>2 DEF Progress, Typed
    <2>9. Progress'
        BY <1>3, <2>2, <2>8 DEF Progress, Loading
    <2> QED
        BY <1>1, <2>6, <2>7, <2>9 DEF FreesSucceed
<1>4. CASE at' = "cleanup" /\ UNCHANGED <<bitmap, page, state, user_pages, leaf, loaded>>
    BY <1>1, <1>2, <1>4, GiveUpMInv
<1> QED
    BY <1>3, <1>4 DEF kernel_stack

\* When the pages of whole processes are given back, none of the calls of
\* free_page is refused, and what is left has its owner.
LEMMA ReapOwner ==
    ASSUME MInv, NEW ps \in SUBSET Slots, reap(ps), user_pages = {},
           UNCHANGED <<current, todo, user_pages, kernel>>, at' \in Points
    PROVE  Typed' /\ OneOwner' /\ FreesSucceed'
<1> USE DEF MInv
<1> DEFINE S == UNION {pages_at(p, reaped) : p \in ps}
<1>1. /\ free_pages(S)
      /\ refused' = (\/ refused \/ refusal(S)
                     \/ \E p \in ps : \/ overlap(p, Leaves, destroyed)
                                      \/ overlap(p, Leaves \cup destroyed, {KernelStack})
                     \/ \E p, q \in ps : p # q /\ pages_at(p, reaped) \cap pages_at(q, reaped) # {})
      /\ page' = [p \in Slots |-> IF p \in ps THEN Empty ELSE page[p]]
      /\ state' = [p \in Slots |-> IF p \in ps THEN "Unused" ELSE state[p]]
    BY DEF reap
<1>2. /\ current' = current /\ todo' = todo /\ user_pages' = {} /\ kernel' = kernel
    OBVIOUS
<1>3. reaped = Places /\ destroyed = Tables
    BY DEF reaped, destroyed, Places
<1>4. \A i : i \in S <=> i # None /\ \E p \in ps, q \in Places : page[p][q] = i
    BY <1>3 DEF pages_at
<1> HIDE DEF S
<1>5. \A p \in Slots : \A q \in Places : page[p][q] \in Pages \cup {None}
    BY DEF Typed
<1>6. S \subseteq Pages /\ \A i \in S : owned(i)
    BY <1>4, <1>5 DEF owned
<1>7. S \in SUBSET (used \ Reserved)
    BY <1>6 DEF OneOwner, Typed
<1>8. /\ used' = used \ S /\ free_count' = PageCount - Cardinality(used')
      /\ next_hint' \in Pages
    BY <1>1, <1>7, Freed
<1>9. \A p, r \in Slots : \A q, s \in Places :
        page[p][q] = page[r][s] /\ page[p][q] # None => p = r /\ q = s
    BY DEF OneOwner
<1>10. FreesSucceed'
    <2>1. ~refusal(S)
        BY <1>7 DEF refusal
    <2>0. \A p \in ps : \A A, B \in SUBSET Places : A \cap B = {} => ~overlap(p, A, B)
        <3>1. SUFFICES ASSUME NEW p \in ps, NEW A \in SUBSET Places, NEW B \in SUBSET Places,
                              A \cap B = {}, NEW i \in pages_at(p, A), i \in pages_at(p, B)
                       PROVE  FALSE
            BY DEF overlap
        <3>2. PICK q \in A, s \in B : page[p][q] = i /\ page[p][s] = i /\ i # None
            BY <3>1 DEF pages_at
        <3> QED
            BY <1>9, <3>1, <3>2
    <2>2. \A p \in ps : ~overlap(p, Leaves, destroyed)
        <3>1. Leaves \in SUBSET Places /\ destroyed \in SUBSET Places /\ Leaves \cap destroyed = {}
            BY <1>3, PlacesDiffer
        <3> QED
            BY <2>0, <3>1
    <2>3. \A p \in ps : ~overlap(p, Leaves \cup destroyed, {KernelStack})
        <3>1. /\ Leaves \cup destroyed \in SUBSET Places /\ {KernelStack} \in SUBSET Places
              /\ (Leaves \cup destroyed) \cap {KernelStack} = {}
            BY <1>3, PlacesDiffer DEF Places
        <3> QED
            BY <2>0, <3>1
    <2>4. \A p, q \in ps : p # q => pages_at(p, reaped) \cap pages_at(q, reaped) = {}
        <3>1. SUFFICES ASSUME NEW p \in ps, NEW q \in ps, p # q,
                              NEW i \in pages_at(p, Places), i \in pages_at(q, Places)
                       PROVE  FALSE
            BY <1>3
        <3>2. PICK r \in Places, s \in Places : page[p][r] = i /\ page[q][s] = i /\ i # None
            BY <3>1 DEF pages_at
        <3> QED
            BY <1>9, <3>1, <3>2
    <2> QED
        BY <1>1, <2>1, <2>2, <2>3, <2>4 DEF FreesSucceed
<1>11. \A p \in Slots : \A q \in Places :
         page'[p][q] = IF p \in ps THEN None ELSE page[p][q]
    BY <1>1 DEF Empty
<1>12. page' \in [Slots -> [Places -> Pages \cup {None}]] /\ state' \in [Slots -> States]
    BY <1>1 DEF Empty, Typed, States
<1>13. Typed'
    BY <1>2, <1>8, <1>12 DEF Typed
<1>14. \A i \in Pages : owned(i)' <=> owned(i) /\ i \notin S
    <2> TAKE i \in Pages
    <2>1. i # None
        BY NoneIsNoPage
    <2>2. ASSUME owned(i)' PROVE owned(i) /\ i \notin S
        <3>1. PICK p \in Slots, q \in Places : page'[p][q] = i
            BY <2>2 DEF owned
        <3>2. p \notin ps /\ page[p][q] = i
            BY <1>11, <2>1, <3>1
        <3>3. i \notin S
            BY <1>4, <1>9, <2>1, <3>2
        <3> QED
            BY <3>2, <3>3 DEF owned
    <2>3. ASSUME owned(i), i \notin S PROVE owned(i)'
        <3>1. PICK p \in Slots, q \in Places : page[p][q] = i
            BY <2>3 DEF owned
        <3>2. p \notin ps
            BY <1>4, <2>1, <2>3, <3>1
        <3>3. page'[p][q] = i
            BY <1>11, <3>1, <3>2
        <3> QED
            BY <3>3 DEF owned
    <2> QED
        BY <2>2, <2>3
<1>15. unmapped' = {} /\ unmapped = {}
    BY <1>2 DEF unmapped
<1>16. \A i \in kernel : i \in Pages /\ i \notin S /\ ~owned(i)
    BY <1>6 DEF OneOwner, Typed
<1>17. \A i \in Pages : i \in used' <=> i \in kernel' \/ i \in unmapped' \/ owned(i)'
    BY <1>2, <1>8, <1>14, <1>15, <1>16 DEF OneOwner
<1>18. \A i \in kernel' : i \notin user_pages' /\ ~owned(i)'
    BY <1>2, <1>14, <1>16
<1>19. \A p, r \in Slots : \A q, s \in Places :
        page'[p][q] = page'[r][s] /\ page'[p][q] # None => p = r /\ q = s
    <2>1. SUFFICES ASSUME NEW p \in Slots, NEW r \in Slots, NEW q \in Places, NEW s \in Places,
                          page'[p][q] = page'[r][s], page'[p][q] # None
                   PROVE  p = r /\ q = s
        OBVIOUS
    <2>2. page'[p][q] = page[p][q] /\ page'[r][s] = page[r][s]
        BY <1>11, <2>1
    <2>3. page[p][q] = page[r][s] /\ page[p][q] # None
        BY <2>1, <2>2, Zenon
    <2> QED
        BY <1>9, <2>3, SMTT(30)
<1>20. \A p \in Slots : state'[p] = "Unused" => page'[p] = Empty
    BY <1>1 DEF OneOwner
<1> QED
    BY <1>8, <1>10, <1>13, <1>15, <1>17, <1>18, <1>19, <1>20 DEF OneOwner

\* discard_startup_processes
LEMMA DiscardMInv == MInv /\ discard_startup_processes => MInv'
<1> SUFFICES ASSUME MInv, discard_startup_processes PROVE MInv'
    OBVIOUS
<1> DEFINE ps == {p \in Slots : state[p] # "Unused"}
<1>1. /\ at = "discard" /\ at' = "run" /\ reap(ps)
      /\ UNCHANGED <<current, todo, user_pages, kernel>>
    BY DEF discard_startup_processes
<1>2. user_pages = {} /\ ps \in SUBSET Slots /\ at' \in Points
    BY <1>1 DEF MInv, Progress, Loading, Points
<1>3. Typed' /\ OneOwner' /\ FreesSucceed'
    BY <1>1, <1>2, ReapOwner
<1>4. \A p \in Slots : state'[p] # "Created"
    BY <1>1 DEF reap
<1>5. Progress'
    BY <1>1, <1>2, <1>4 DEF Progress, Loading
<1> QED
    BY <1>3, <1>5 DEF MInv

\* reap_exited
LEMMA ReapMInv == MInv /\ reap_exited => MInv'
<1> SUFFICES ASSUME MInv, reap_exited PROVE MInv'
    OBVIOUS
<1> DEFINE ps == {p \in Slots : state[p] = "Exited"}
<1>1. /\ at = "run" /\ at' = at /\ reap(ps)
      /\ UNCHANGED <<current, todo, user_pages, kernel>>
    BY DEF reap_exited, loader
<1>2. user_pages = {} /\ ps \in SUBSET Slots /\ at' \in Points
    BY <1>1 DEF MInv, Progress, Loading, Points
<1>3. Typed' /\ OneOwner' /\ FreesSucceed'
    BY <1>1, <1>2, ReapOwner
<1>4. \A p \in Slots : state'[p] # "Created"
    BY <1>1, Zenon DEF reap, MInv, Progress, Loading
<1>5. Progress'
    BY <1>1, <1>2, <1>4 DEF Progress, Loading
<1> QED
    BY <1>3, <1>5 DEF MInv

\* The cleanup of load_process_image.
LEMMA CleanupMInv == MInv /\ cleanup => MInv'
<1> SUFFICES ASSUME MInv, cleanup PROVE MInv'
    OBVIOUS
<1> USE DEF MInv
<1> DEFINE T == pages_at(current, destroyed)
           S == user_pages \cup T
<1>1. /\ at = "cleanup" /\ free_pages(S)
      /\ refused' = (refused \/ refusal(S) \/ user_pages \cap T # {})
      /\ page' = [page EXCEPT ![current] = Empty]
      /\ state' = [state EXCEPT ![current] = "Unused"]
      /\ user_pages' = {} /\ todo' = <<>> /\ at' = "discard"
      /\ current' = current /\ kernel' = kernel
    BY DEF cleanup, becomes
<1>2. \A i : i \in T <=> i # None /\ \E q \in Tables : page[current][q] = i
    BY DEF pages_at, destroyed
<1>3. \A i : i \in S <=> i \in user_pages \/ i \in T
    OBVIOUS
<1> HIDE DEF S, T
<1>4. \A p \in Slots : \A q \in Places : page[p][q] \in Pages \cup {None}
    BY DEF Typed
<1>5. \A p, r \in Slots : \A q, s \in Places :
        page[p][q] = page[r][s] /\ page[p][q] # None => p = r /\ q = s
    BY DEF OneOwner
<1>6. current \in Slots
    BY DEF Typed
<1>7. \A i \in T : i \in Pages /\ owned(i)
    BY <1>2, <1>4, <1>6, PlacesDiffer DEF owned
<1>8. /\ page[current][KernelStack] = None
      /\ \A v \in Leaves : page[current][v] \in user_pages \cup {None}
      /\ \A i \in user_pages : owned(i) => \E v \in Leaves : page[current][v] = i
    BY <1>1 DEF Progress, Loading
<1>9. user_pages \cap T = {}
    <2> SUFFICES ASSUME NEW i \in user_pages, i \in T PROVE FALSE
        OBVIOUS
    <2>1. PICK q \in Tables : page[current][q] = i
        BY <1>2
    <2>2. PICK v \in Leaves : page[current][v] = i
        BY <1>7, <1>8
    <2> QED
        BY <1>2, <1>5, <1>6, <2>1, <2>2, PlacesDiffer
<1>10. S \in SUBSET (used \ Reserved)
    <2>1. \A i \in user_pages : i \in Pages /\ i \in used /\ i \notin Reserved
        BY DEF OneOwner, Typed, unmapped
    <2>2. \A i \in T : i \in used /\ i \notin Reserved
        BY <1>7 DEF OneOwner, Typed
    <2> QED
        BY <1>3, <2>1, <2>2
<1>11. /\ used' = used \ S /\ free_count' = PageCount - Cardinality(used')
       /\ next_hint' \in Pages
    BY <1>1, <1>10, Freed
<1>12. FreesSucceed'
    BY <1>1, <1>9, <1>10, Zenon DEF FreesSucceed, refusal
<1>13. /\ page' \in [Slots -> [Places -> Pages \cup {None}]]
       /\ state' \in [Slots -> States]
       /\ \A p \in Slots : \A q \in Places :
            page'[p][q] = IF p = current THEN None ELSE page[p][q]
    BY <1>1 DEF Empty, Typed, States
<1>14. Typed'
    <2>1. <<>> \in Seq(Leaves)
        OBVIOUS
    <2>2. used' \subseteq Pages /\ user_pages' \subseteq Pages /\ at' \in Points
        BY <1>1, <1>11 DEF Typed, Points
    <2> QED
        BY <1>1, <1>11, <1>13, <2>1, <2>2 DEF Typed
<1>15. \A i \in Pages : owned(i)' <=> owned(i) /\ i \notin S
    <2> SUFFICES ASSUME NEW i \in Pages PROVE owned(i)' <=> owned(i) /\ i \notin S
        OBVIOUS
    <2>1. ASSUME owned(i)' PROVE owned(i) /\ i \notin S
        <3>1. PICK p \in Slots, q \in Places : p # current /\ page[p][q] = i
            BY <1>13, <2>1, NoneIsNoPage DEF owned
        <3>2. owned(i)
            BY <3>1 DEF owned
        <3>3. \A s \in Places : page[current][s] # i
            BY <1>5, <1>6, <3>1, NoneIsNoPage
        <3> QED
            BY <1>2, <1>3, <1>8, <3>2, <3>3, PlacesDiffer
    <2>2. ASSUME owned(i), i \notin S PROVE owned(i)'
        <3>1. PICK p \in Slots, q \in Places : page[p][q] = i
            BY <2>2 DEF owned
        <3>2. i \notin user_pages /\ i \notin T /\ i # None
            BY <1>3, <2>2, NoneIsNoPage
        <3>3. p # current
            BY <1>2, <1>8, <3>1, <3>2, PlacesDiffer
        <3> QED
            BY <1>13, <3>1, <3>3 DEF owned
    <2> QED
        BY <2>1, <2>2
<1>16. unmapped' = {}
    BY <1>1 DEF unmapped
<1>17. \A i \in kernel : i \in Pages /\ i \notin S /\ ~owned(i)
    BY <1>3, <1>7 DEF OneOwner, Typed
<1>18. \A i \in Pages : i \in used' <=> i \in kernel' \/ i \in unmapped' \/ owned(i)'
    BY <1>1, <1>3, <1>11, <1>15, <1>16, <1>17 DEF OneOwner, unmapped
<1>19. \A i \in kernel' : i \notin user_pages' /\ ~owned(i)'
    BY <1>1, <1>15, <1>17
<1>20. \A p, r \in Slots : \A q, s \in Places :
        page'[p][q] = page'[r][s] /\ page'[p][q] # None => p = r /\ q = s
    BY <1>5, <1>13
<1>21. \A p \in Slots : state'[p] = "Unused" => page'[p] = Empty
    BY <1>1 DEF OneOwner, Typed
<1>22. OneOwner'
    BY <1>11, <1>16, <1>18, <1>19, <1>20, <1>21 DEF OneOwner
<1>23. \A p \in Slots : state'[p] # "Created"
    BY <1>1 DEF Progress, Typed
<1>24. Progress'
    BY <1>1, <1>23 DEF Progress, Loading
<1> QED
    BY <1>12, <1>14, <1>22, <1>24

\* mark_exited
LEMMA ExitMInv == \A p \in Slots : MInv /\ mark_exited(p) => MInv'
<1> SUFFICES ASSUME NEW p \in Slots, MInv, mark_exited(p) PROVE MInv'
    OBVIOUS
<1> USE DEF MInv
<1>1. /\ at = "run" /\ state[p] = "Ready" /\ state' = [state EXCEPT ![p] = "Exited"]
      /\ used' = used /\ free_count' = free_count /\ next_hint' = next_hint
      /\ page' = page /\ user_pages' = user_pages /\ kernel' = kernel
      /\ at' = at /\ current' = current /\ todo' = todo /\ refused' = refused
    BY DEF mark_exited, bitmap, loader
<1>2. user_pages = {}
    BY <1>1 DEF Progress, Loading
<1>3. Typed'
    BY <1>1 DEF Typed, States
<1>4. \A i \in Pages : owned(i)' <=> owned(i)
    BY <1>1 DEF owned
<1>5. unmapped' = {} /\ unmapped = {}
    BY <1>1, <1>2 DEF unmapped
<1>6. \A q \in Slots : state'[q] = "Unused" => state[q] = "Unused"
    BY <1>1 DEF Typed
<1>7. OneOwner'
    BY <1>1, <1>6, SameOwners
<1>8. \A q \in Slots : state'[q] # "Created"
    BY <1>1 DEF Progress, Typed, Loading
<1>9. Progress'
    BY <1>1, <1>2, <1>8, Zenon DEF Progress, Loading
<1> QED
    BY <1>1, <1>3, <1>7, <1>9 DEF FreesSucceed

\* Every step keeps the inductive invariant.
LEMMA NextMInv == MInv /\ [Next]_vars => MInv'
<1> SUFFICES ASSUME MInv, [Next]_vars PROVE MInv'
    OBVIOUS
<1>1. CASE Next
    BY <1>1, AllocateMInv, SpaceMInv, LeafMInv, ChildMInv, MapMInv, StackMInv,
       CleanupMInv, DiscardMInv, ExitMInv, ReapMInv DEF Next
<1>2. CASE UNCHANGED vars
    <2> USE <1>2 DEF vars, bitmap, loader
    <2>0. (\A i : owned(i)' <=> owned(i)) /\ unmapped' = unmapped
        <3>1. \A i : owned(i)' <=> owned(i)
            BY DEF owned
        <3> QED
            BY <3>1 DEF unmapped
    <2>1. Typed' /\ FreesSucceed'
        BY DEF MInv, Typed, FreesSucceed
    <2>2. Progress'
        BY <2>0, Zenon DEF MInv, Progress
    <2>3. OneOwner'
        BY SameOwners DEF MInv
    <2> QED
        BY <2>1, <2>2, <2>3 DEF MInv
<1> QED
    BY <1>1, <1>2

\* The inductive invariant holds in every state.
THEOREM MemoryInvariance == Spec => []MInv
BY InitMInv, NextMInv, PTL DEF Spec

\* Whatever fails while images are loaded, and however processes end, every
\* page that the allocator has given out has exactly one owner, free_count_
\* says how many are left, and the cleanup of load_process_image and reap_one
\* never make free_page refuse: nothing is given back twice.
THEOREM PagesStaySound == Spec => []PagesSound
<1>1. MInv => PagesSound
    BY DEF MInv, PagesSound
<1> QED
    BY <1>1, MemoryInvariance, PTL

\* An image is given up for want of memory only when the allocator has no
\* page left.
THEOREM SearchIsComplete == Spec => GivesUpOnlyWhenFull
<1> DEFINE A == (nxe /\ at' = "cleanup") \/ (at = "space" /\ at' = "discard") => used = Pages
<1>1. MInv /\ Next => A
    <2> SUFFICES ASSUME MInv, Next, exhausted => used = Pages PROVE A
        BY Exhausted DEF MInv
    <2>1. CASE allocate_process
        BY <2>1 DEF allocate_process
    <2>2. CASE create_user_address_space
        BY <2>2 DEF create_user_address_space
    <2>3. CASE allocate_leaf
        BY <2>3 DEF allocate_leaf, flags_allowed
    <2>4. CASE child
        BY <2>4 DEF child
    <2>5. CASE map_user_page
        BY <2>5 DEF map_user_page
    <2>6. CASE kernel_stack
        BY <2>6 DEF kernel_stack, after_load
    <2>7. CASE cleanup
        BY <2>7 DEF cleanup
    <2>8. CASE discard_startup_processes
        BY <2>8 DEF discard_startup_processes
    <2>9. CASE \E p \in Slots : mark_exited(p)
        BY <2>9 DEF mark_exited, loader
    <2>10. CASE reap_exited
        BY <2>10 DEF reap_exited, loader
    <2> QED
        BY <2>1, <2>2, <2>3, <2>4, <2>5, <2>6, <2>7, <2>8, <2>9, <2>10 DEF Next
<1>2. MInv /\ [Next]_vars => [A]_vars
    BY <1>1
<1> QED
    BY <1>2, MemoryInvariance, PTL DEF Spec, GivesUpOnlyWhenFull
=============================================================================
