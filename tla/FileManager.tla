---------------------------- MODULE FileManager -----------------------------
(***************************************************************************)
(* The File Manager (kernel/gui/file_manager_model.cpp and                 *)
(* file_manager_app.cpp): a directory's listing with a selection by name,  *)
(* the name dialog and the delete confirmation, and the operations that    *)
(* change the volume and then read the directory again.                    *)
(*                                                                         *)
(* A handler runs to its end before the desktop takes the next event; its  *)
(* calls to the Vfs are separate steps here because each may fail.  `task` *)
(* is the handler in progress: `by` is whose it is, `op` what it was asked *)
(* for, `pc` the call it makes next.  The walk over a directory is shared  *)
(* with the shell's `ls`.                                                  *)
(***************************************************************************)
EXTENDS Vfs

CONSTANTS
    kMaxEntries,     \* how many entries a listing keeps
    PageCapacity,    \* how many entries each view shows at a time
    NoName           \* no selection; a name that is not a valid one

VARIABLES
    fm,              \* the File Manager
    task,
    stale            \* history: the volume changed since fm's listing was read

Idle == [by |-> "nobody"]
idle == task = Idle

NewFileManager ==
    [open |-> FALSE, path |-> <<>>, entries |-> <<>>, truncated |-> FALSE,
     selected_name |-> NoName, view |-> "icons",
     dialog |-> "none", pending |-> "none", name_buffer |-> NoName]

FileManagerInit ==
    /\ fm = NewFileManager
    /\ task = Idle
    /\ stale = TRUE

-----------------------------------------------------------------------------
(***************************************************************************)
(* The model: what the listing and the selection become.                   *)
(***************************************************************************)
names(entries) == {entries[i].name : i \in DOMAIN entries}

\* The position of the selected entry in the listing, 0 if there is none.
selected_index(f) ==
    LET at == {i \in DOMAIN f.entries : f.entries[i].name = f.selected_name}
    IN IF at = {} THEN 0 ELSE Min(at)

select_name(f, name) ==
    IF name \in names(f.entries) THEN [f EXCEPT !.selected_name = name] ELSE f

select(f, index) ==
    IF index \in DOMAIN f.entries
    THEN [f EXCEPT !.selected_name = f.entries[index].name] ELSE f

load_path_keeps(f, path, entries, truncated) ==
    [f EXCEPT !.path = path, !.entries = entries, !.truncated = truncated]

\* The end of load_path: the listing replaces the old one as a whole, and
\* the selection is kept if its name is still there.
load_path(f, path, entries, truncated) ==
    [f EXCEPT !.path = path, !.entries = entries, !.truncated = truncated,
              !.selected_name = IF @ \in names(entries) THEN @ ELSE NoName]

cancel_dialog(f) == [f EXCEPT !.dialog = "none", !.pending = "none", !.name_buffer = NoName]

\* What the app does with the status of the operation it was asked for.
concluded(f, op, name, status) ==
    IF op = "remove" THEN cancel_dialog(f)
    ELSE IF op \in {"folder", "file", "rename"} /\ status = "Ok"
         THEN cancel_dialog(select_name(f, name))
    ELSE f

-----------------------------------------------------------------------------
(***************************************************************************)
(* The calls a handler makes.                                              *)
(***************************************************************************)
Task(by, op, pc, path) ==
    [by |-> by, op |-> op, pc |-> pc, path |-> path, name |-> NoName,
     handle |-> 0, got |-> <<>>, truncated |-> FALSE, status |-> "Ok"]

Load(op, path) == task' = Task("fm", op, "opendir", path)

\* The handler returns, the File Manager's with what it makes of the status.
Return(f, status) ==
    /\ fm' = IF task.by = "fm" THEN concluded(f, task.op, task.name, status) ELSE f
    /\ task' = Idle

opendir_call ==
    /\ ~idle /\ task.pc = "opendir"
    /\ \E answer \in Reads(lookup(task.path)) :
        /\ CountFault(answer)
        /\ opendir(task.path, answer)
        /\ IF opendir_status(answer) # "Ok"
           THEN Return(fm, opendir_status(answer))
           ELSE /\ task' = [task EXCEPT !.pc = "readdir",
                                        !.handle = Min(free(directory_handles))]
                /\ UNCHANGED fm
    /\ UNCHANGED <<tree, file_descriptors, stale>>

\* `ls` reads to the end and prints what it reads.
ls_read(answer) ==
    IF answer.status # "Ok" \/ answer.contents = <<>>
    THEN [task EXCEPT !.pc = "closedir", !.status = answer.status] ELSE task

\* The File Manager reads one entry more than it keeps, to know whether the
\* listing is truncated.
load_path_read(answer) ==
    IF answer.status # "Ok" \/ answer.contents = <<>>
    THEN [task EXCEPT !.pc = "closedir", !.status = answer.status]
    ELSE IF Len(task.got) = kMaxEntries
    THEN [task EXCEPT !.pc = "closedir", !.truncated = TRUE]
    ELSE [task EXCEPT !.got = Append(@, Head(answer.contents))]

readdir_call ==
    /\ ~idle /\ task.pc = "readdir"
    /\ \E answer \in Reads(rest(task.handle)) :
        /\ CountFault(answer)
        /\ readdir(task.handle, answer)
        /\ task' = IF task.by = "fm" THEN load_path_read(answer) ELSE ls_read(answer)
    /\ UNCHANGED <<tree, file_descriptors, fm, stale>>

closedir_call ==
    /\ ~idle /\ task.pc = "closedir"
    /\ closedir(task.handle)
    /\ IF task.by = "fm" /\ task.status = "Ok"
       THEN /\ Return(load_path(fm, task.path, task.got, task.truncated), "Ok")
            /\ stale' = FALSE
       ELSE /\ Return(fm, task.status)
            /\ UNCHANGED stale
    /\ UNCHANGED <<tree, file_descriptors, faults>>

\* create_file asks first whether the name is taken.
stat_call ==
    /\ ~idle /\ task.by = "fm" /\ task.pc = "stat"
    /\ \E answer \in Reads(lookup(Append(fm.path, task.name))) :
        /\ CountFault(answer)
        /\ IF answer.status = "NotFound"
           THEN task' = [task EXCEPT !.pc = "mutate"] /\ UNCHANGED fm
           ELSE Return(fm, IF answer.status = "Ok" THEN "AlreadyExists" ELSE answer.status)
    /\ UNCHANGED <<tree, file_descriptors, directory_handles, stale>>

mutation(t) ==
    LET selected == Append(fm.path, fm.selected_name)
        named == Append(fm.path, t.name)
    IN CASE t.op = "folder" -> mkdir(named)
         [] t.op = "file"   -> touch(named)
         [] t.op = "rename" -> move(selected, named)
         [] t.op = "remove" -> remove(selected)

mutate_call ==
    /\ ~idle /\ task.by = "fm" /\ task.pc = "mutate"
    /\ \E answer \in Mutates(mutation(task)) :
        /\ CountFault(answer)
        /\ tree' = answer.tree
        /\ stale' = (stale \/ tree' # tree)
        /\ IF answer.status = "Ok"
           THEN task' = [task EXCEPT !.pc = "opendir", !.path = fm.path] /\ UNCHANGED fm
           ELSE Return(fm, answer.status)
    /\ UNCHANGED <<file_descriptors, directory_handles>>

-----------------------------------------------------------------------------
(***************************************************************************)
(* The handlers: what a key or a click starts.                             *)
(***************************************************************************)
Show(f) == fm' = f /\ UNCHANGED task

open_window ==
    /\ ~fm.open
    /\ fm' = [fm EXCEPT !.open = TRUE]
    /\ Load("open", <<>>)

on_close == fm.open /\ Show([cancel_dialog(fm) EXCEPT !.open = FALSE])

navigate_parent ==
    IF fm.path = <<>> THEN UNCHANGED <<fm, task>>
    ELSE Load("parent", Front(fm.path)) /\ UNCHANGED fm

navigate_into ==
    LET i == selected_index(fm) IN
    IF i # 0 /\ fm.entries[i].is_directory
    THEN Load("into", Append(fm.path, fm.entries[i].name)) /\ UNCHANGED fm
    ELSE UNCHANGED <<fm, task>>

begin_name_dialog(operation) ==
    Show(IF operation = "rename" /\ selected_index(fm) = 0 THEN fm
         ELSE [fm EXCEPT !.dialog = "name", !.pending = operation,
                         !.name_buffer = IF operation = "rename"
                                         THEN fm.selected_name ELSE NoName])

begin_delete_confirmation ==
    Show(IF selected_index(fm) = 0 THEN fm
         ELSE [fm EXCEPT !.dialog = "delete", !.pending = "none"])

confirm_name ==
    IF \/ fm.name_buffer = NoName
       \/ fm.pending = "rename" /\ (selected_index(fm) = 0 \/ fm.name_buffer = fm.selected_name)
    THEN UNCHANGED <<fm, task>>
    ELSE /\ task' = [Task("fm", fm.pending, IF fm.pending = "file" THEN "stat" ELSE "mutate",
                          fm.path) EXCEPT !.name = fm.name_buffer]
         /\ UNCHANGED fm

confirm_delete ==
    /\ fm' = IF selected_index(fm) = 0 THEN cancel_dialog(fm) ELSE fm
    /\ task' = IF selected_index(fm) = 0 THEN task ELSE Task("fm", "remove", "mutate", fm.path)

toggle_view == Show([fm EXCEPT !.view = IF @ = "icons" THEN "details" ELSE "icons"])

arrow_up == select(fm, IF selected_index(fm) = 0 THEN Len(fm.entries)
                       ELSE Max({1, selected_index(fm) - 1}))
arrow_down == select(fm, IF selected_index(fm) = 0 THEN 1
                         ELSE Min({Len(fm.entries), selected_index(fm) + 1}))

FileManagerKeys ==
    {"escape", "backspace", "enter", "delete", "up", "down",
     "ctrl+n", "ctrl+f", "ctrl+r", "ctrl+v"}

name_dialog_key(key) ==
    \/ key = "escape" /\ Show(cancel_dialog(fm))
    \/ key = "backspace" /\ Show([fm EXCEPT !.name_buffer = NoName])
    \/ key = "enter" /\ confirm_name

delete_dialog_key(key) ==
    \/ key = "escape" /\ Show(cancel_dialog(fm))
    \/ key = "enter" /\ confirm_delete

listing_key(key) ==
    \/ key = "ctrl+n" /\ begin_name_dialog("folder")
    \/ key = "ctrl+f" /\ begin_name_dialog("file")
    \/ key = "ctrl+r" /\ begin_name_dialog("rename")
    \/ key = "ctrl+v" /\ toggle_view
    \/ key = "delete" /\ begin_delete_confirmation
    \/ key = "up" /\ Show(arrow_up)
    \/ key = "down" /\ Show(arrow_down)
    \/ key = "enter" /\ navigate_into
    \/ key = "backspace" /\ navigate_parent

on_key(key) ==
    /\ fm.open
    /\ \/ fm.dialog = "name" /\ name_dialog_key(key)
       \/ fm.dialog = "delete" /\ delete_dialog_key(key)
       \/ fm.dialog = "none" /\ listing_key(key)

\* Typing a name into the dialog.
on_characters(name) ==
    fm.open /\ fm.dialog = "name" /\ Show([fm EXCEPT !.name_buffer = name])

\* The entry that a place of the visible page shows: the page is the one
\* with the selection, and the window's size is in PageCapacity.
hit_test(f, place) ==
    LET page == PageCapacity[f.view]
        first == IF selected_index(f) = 0 THEN 0 ELSE ((selected_index(f) - 1) \div page) * page
    IN IF place <= page THEN first + place ELSE 0

FileManagerTargets == {"ok", "cancel", "parent", "folder", "file", "rename", "remove", "view"}

dialog_click(target) ==
    \/ target = "ok" /\ (IF fm.dialog = "name" THEN confirm_name ELSE confirm_delete)
    \/ target = "cancel" /\ Show(cancel_dialog(fm))

listing_click(target) ==
    \/ target = "parent" /\ navigate_parent
    \/ target \in {"folder", "file", "rename"} /\ begin_name_dialog(target)
    \/ target = "remove" /\ begin_delete_confirmation
    \/ target = "view" /\ toggle_view

on_mouse(target) ==
    /\ fm.open
    /\ IF fm.dialog # "none" THEN dialog_click(target) ELSE listing_click(target)

on_entry_click_always(place) ==
    /\ fm.open
    /\ Show(select(fm, hit_test(fm, place)))

on_entry_click(place) ==
    /\ fm.open
    /\ fm.dialog = "none"
    /\ Show(select(fm, hit_test(fm, place)))
=============================================================================
