-------------------------------- MODULE Apps --------------------------------
(***************************************************************************)
(* The desktop's users of the volume together: the File Manager in its     *)
(* window, and the Terminal, which is a shell (kernel/terminal/*.cpp) or   *)
(* the editor (kernel/gui/editor_file.cpp, terminal_app.cpp).  The desktop *)
(* hands its windows one event after the other, so a handler that is in    *)
(* progress finishes first, but the user may go back and forth between the *)
(* windows and change in one what the other shows.                         *)
(*                                                                         *)
(* MaxEvents bounds the events of a behaviour, Paths the paths that are    *)
(* typed in the shell, Screens the sizes of the Terminal in characters.    *)
(***************************************************************************)
EXTENDS FileManager, Editor

CONSTANTS
    Volumes,     \* what the disk may hold at first
    Paths, ShellData, Screens,
    kCatBuffer,  \* the size of the buffer of `cat`
    MaxEvents

VARIABLES
    mode,        \* of the Terminal: "shell" or "editor"
    ed,          \* the editor
    foreign,     \* history: somebody else changed the volume since the editor read or saved
    events

terminal_vars == <<mode, ed, foreign>>
vars == <<tree, file_descriptors, directory_handles, faults, fm, task, stale,
          mode, ed, foreign, events>>

Init ==
    /\ \E volume \in Volumes : VfsInit(volume)
    /\ FileManagerInit
    /\ mode = "shell"
    /\ ed = initialize(<<>>, <<>>, FALSE)
    /\ foreign = FALSE
    /\ events = 0

-----------------------------------------------------------------------------
(***************************************************************************)
(* The shell's commands.                                                   *)
(***************************************************************************)
shell_idle == idle /\ mode = "shell"

\* touch, mkdir, write, rm, cp and mv are one call each.
Calls ==
    UNION {{touch(p), mkdir(p), remove(p)} : p \in Paths}
    \cup {write_file(p, data) : p \in Paths, data \in ShellData}
    \cup {copy_file(p, q) : p \in Paths, q \in Paths}
    \cup {move(p, q) : p \in Paths, q \in Paths}

execute_filesystem_command ==
    /\ shell_idle
    /\ \E call \in Calls : \E answer \in Mutates(call) :
        /\ CountFault(answer)
        /\ tree' = answer.tree
        /\ stale' = (stale \/ tree' # tree)
    /\ UNCHANGED <<file_descriptors, directory_handles, fm, task>>
    /\ UNCHANGED terminal_vars

\* ls, cat and edit: the calls are steps of their own.
execute_command ==
    /\ shell_idle
    /\ \E path \in Paths \cup {<<>>} :
        task' \in {Task("ls", "ls", "opendir", path),
                   Task("cat", "cat", "open", path),
                   Task("edit", "edit", "edit_stat", path)}
    /\ UNCHANGED vfs_vars
    /\ UNCHANGED <<fm, stale>>
    /\ UNCHANGED terminal_vars

\* The editor is entered with this text.
Enter(path, text, file_exists) ==
    /\ ed' = initialize(path, text, file_exists)
    /\ mode' = "editor"
    /\ foreign' = FALSE

\* open_file: a path that does not exist is a new file, if its directory does.
edit_stat_call ==
    /\ ~idle /\ task.pc = "edit_stat"
    /\ \E answer \in Reads(lookup(task.path)) :
        /\ CountFault(answer)
        /\ IF answer.status = "NotFound" THEN task' = [task EXCEPT !.pc = "edit_parent"]
           ELSE IF answer.status # "Ok" \/ answer.kind = "directory"
                   \/ Len(answer.contents) > kTextCapacity
           THEN task' = Idle
           ELSE task' = [task EXCEPT !.pc = "open"]
    /\ UNCHANGED <<tree, file_descriptors, directory_handles, fm, stale>>
    /\ UNCHANGED terminal_vars

edit_parent_call ==
    /\ ~idle /\ task.pc = "edit_parent"
    /\ \E answer \in Reads(lookup(Front(task.path))) :
        /\ CountFault(answer)
        /\ IF answer.status = "Ok" /\ answer.kind = "directory"
           THEN Enter(task.path, <<>>, FALSE)
           ELSE UNCHANGED terminal_vars
    /\ task' = Idle
    /\ UNCHANGED <<tree, file_descriptors, directory_handles, fm, stale>>

open_call ==
    /\ ~idle /\ task.pc = "open"
    /\ \E answer \in Reads(lookup(task.path)) :
        /\ CountFault(answer)
        /\ open(task.path, answer)
        /\ task' = IF open_status(answer) # "Ok" THEN Idle
                   ELSE [task EXCEPT !.handle = Min(free(file_descriptors)),
                           !.pc = IF task.by = "edit" /\ answer.contents = <<>>
                                  THEN "close" ELSE "read"]
    /\ UNCHANGED <<tree, directory_handles, fm, stale>>
    /\ UNCHANGED terminal_vars

\* `cat` fills its buffer until nothing is left and prints what it reads.
cat_read(answer) ==
    IF answer.status # "Ok" \/ answer.contents = <<>>
    THEN [task EXCEPT !.pc = "close", !.status = answer.status] ELSE task

\* The editor asks for what is still missing of the size it saw, and takes
\* an answer of no bytes for an error.
open_file_read(answer, size) ==
    IF answer.status # "Ok"
    THEN [task EXCEPT !.pc = "close", !.status = answer.status]
    ELSE IF answer.contents = <<>>
    THEN [task EXCEPT !.pc = "close", !.status = "IoError"]
    ELSE [task EXCEPT !.got = @ \o answer.contents,
            !.pc = IF Len(answer.contents) = size THEN "close" ELSE "read"]

read_call ==
    /\ ~idle /\ task.pc = "read"
    /\ LET missing == file_descriptors[task.handle].size - Len(task.got)
           size == IF task.by = "cat" THEN kCatBuffer ELSE missing
       IN \E answer \in Reads(read_answer(task.handle, size)) :
           /\ CountFault(answer)
           /\ read(task.handle, answer)
           /\ task' = IF task.by = "cat" THEN cat_read(answer)
                      ELSE open_file_read(answer, missing)
    /\ UNCHANGED <<tree, directory_handles, fm, stale>>
    /\ UNCHANGED terminal_vars

close_call ==
    /\ ~idle /\ task.pc = "close"
    /\ close(task.handle)
    /\ task' = Idle
    /\ IF task.by = "edit" /\ task.status = "Ok" /\ supported(task.got)
       THEN Enter(task.path, task.got, TRUE)
       ELSE UNCHANGED terminal_vars
    /\ UNCHANGED <<tree, directory_handles, faults, fm, stale>>

-----------------------------------------------------------------------------
(***************************************************************************)
(* The editor's keys, and its drawing, which moves the viewport.           *)
(***************************************************************************)
editor_idle == idle /\ mode = "editor"

\* save_file writes the whole text.
save_file ==
    /\ editor_idle
    /\ \E answer \in Mutates(write_file(ed.path, ed.text)) :
        /\ CountFault(answer)
        /\ tree' = answer.tree
        /\ stale' = (stale \/ tree' # tree)
        /\ IF answer.status = "Ok"
           THEN ed' = save_succeeded(handle_key(ed, "ctrl+s")) /\ foreign' = FALSE
           ELSE ed' = save_failed(handle_key(ed, "ctrl+s")) /\ UNCHANGED foreign
    /\ UNCHANGED <<file_descriptors, directory_handles, fm, task, mode>>

editor_key(key) ==
    /\ editor_idle
    /\ key # "ctrl+s"
    /\ ed' = handle_key(ed, key)
    /\ mode' = IF wants_quit(ed, key) THEN "shell" ELSE "editor"
    /\ UNCHANGED vfs_vars
    /\ UNCHANGED <<fm, task, stale, foreign>>

draw_editor(rows, columns) ==
    /\ editor_idle
    /\ ed' = update_viewport(ed, rows, columns)
    /\ UNCHANGED vfs_vars
    /\ UNCHANGED <<fm, task, stale, mode, foreign>>

-----------------------------------------------------------------------------
file_manager_event ==
    /\ idle
    /\ \/ open_window
       \/ on_close
       \/ \E key \in FileManagerKeys : on_key(key)
       \/ \E name \in Names : on_characters(name)
       \/ \E target \in FileManagerTargets : on_mouse(target)
       \/ \E place \in 1 .. Max({PageCapacity[v] : v \in DOMAIN PageCapacity}) :
             on_entry_click(place)
    /\ UNCHANGED vfs_vars
    /\ UNCHANGED stale
    /\ UNCHANGED terminal_vars

Event ==
    /\ events < MaxEvents
    /\ events' = events + 1
    /\ \/ file_manager_event
       \/ execute_filesystem_command
       \/ execute_command
       \/ save_file
       \/ \E key \in EditorKeys : editor_key(key)

\* A step of the handler in progress.
HandlerStep ==
    \/ (opendir_call \/ readdir_call \/ closedir_call \/ stat_call)
          /\ UNCHANGED terminal_vars /\ UNCHANGED events
    \/ mutate_call /\ foreign' = (foreign \/ tree' # tree)
          /\ UNCHANGED <<mode, ed, events>>
    \/ (edit_stat_call \/ edit_parent_call \/ open_call \/ read_call \/ close_call)
          /\ UNCHANGED events

Draw == (\E screen \in Screens : draw_editor(screen[1], screen[2])) /\ UNCHANGED events

Next == Event \/ HandlerStep \/ Draw

\* A handler is a loop in one thread: it does not stop between two calls.
Spec == Init /\ [][Next]_vars /\ WF_vars(HandlerStep)

-----------------------------------------------------------------------------
(***************************************************************************)
(* Properties.                                                             *)
(***************************************************************************)
\* No handler leaves a descriptor or a directory handle open, whichever of
\* its calls failed: print_ls, print_cat, load_path and open_file close what
\* they opened on every way out, so the tables never fill up.
HandlesReturned ==
    idle => /\ free(file_descriptors) = FileDescriptors
            /\ free(directory_handles) = DirHandles

\* A text that the editor shows as unmodified is the one the file holds (or
\* an empty one without a file), unless the File Manager changed the volume
\* meanwhile: a save that failed, even one that took effect, a file that
\* changed under the same path and a text that was never read do not count
\* as saved.
UnmodifiedIsSaved ==
    (mode = "editor" /\ ~ed.modified /\ ~foreign) =>
        IF ed.file_exists
        THEN lookup(ed.path) = Found("file", ed.text)
        ELSE ed.text = <<>> /\ lookup(ed.path).status = "NotFound"

\* The File Manager's listing is that of its directory at the time it was
\* last read, all of it or its first kMaxEntries with the flag that says so,
\* never a part of an attempt that failed; the selection is an entry of the
\* listing; and a dialog that stays open over a listing which could not be
\* read again still has the entry that it is about.
ListingSound ==
    /\ fm.selected_name # NoName => fm.selected_name \in names(fm.entries)
    /\ fm.dialog = "delete" \/ fm.pending = "rename" => selected_index(fm) # 0
    /\ ~stale =>
        LET all == listing(lookup(fm.path).contents) IN
        /\ lookup(fm.path).kind = "directory"
        /\ fm.entries = SubSeq(all, 1, Min({Len(all), kMaxEntries}))
        /\ fm.truncated <=> Len(all) > kMaxEntries

\* The File Manager takes nothing from the volume but the entry that its
\* delete confirmation has named since it was opened, and a rename keeps
\* the entry's contents under the new name.  It adds nothing but an entry
\* with the name of the dialog, and only if that name was free: confirming
\* again after the listing could not be read replaces and repeats nothing.
\* And a name dialog closes itself only when its operation took effect and
\* the listing shows it.
DialogsDoWhatTheySay ==
    [][/\ (fm.dialog = "delete" /\ fm'.dialog = "delete") =>
             fm'.path = fm.path /\ fm'.selected_name = fm.selected_name
       /\ task.by = "fm" => \A e \in tree \ tree' :
             /\ <<e.dir, e.name>> = <<lookup(fm.path).contents, fm.selected_name>>
             /\ \/ fm.dialog = "delete"
                \/ \E f \in tree' \ tree : /\ f.dir = e.dir /\ f.kind = e.kind
                                           /\ f.contents = e.contents
       /\ task.by = "fm" => \A f \in tree' \ tree :
             /\ <<f.dir, f.name>> = <<lookup(fm.path).contents, fm.name_buffer>>
             /\ fm.dialog = "name" /\ ~Store!Taken(f.dir, f.name)
       /\ (task.by = "fm" /\ fm.dialog = "name" /\ fm'.dialog = "none") =>
             /\ ~stale'
             /\ fm'.truncated \/ fm'.selected_name = fm.name_buffer]_vars

\* The column of the cursor is the remembered one, or the end of a line that
\* is too short for it; and whatever size the window has by the time it is
\* drawn next, drawing it brings the cursor inside the viewport and leaves
\* no empty rows that the text could fill.
CursorSound ==
    /\ cursor_column(ed) =
          LET line == cursor_line(ed)
          IN Min({ed.desired_column, line_end(ed, line) - line_begin(ed, line)})
    /\ \A screen \in Screens :
          LET rows == screen[1]
              columns == screen[2]
              drawn == update_viewport(ed, rows, columns)
          IN (rows > 0 /\ columns > 0) =>
                /\ cursor_line(ed) - drawn.viewport_top_line \in 0 .. rows - 1
                /\ cursor_column(ed) - drawn.viewport_left_column \in 0 .. columns - 1
                /\ \/ drawn.viewport_top_line = 0
                   \/ drawn.viewport_top_line + rows <= line_count(ed)

\* Every handler returns: the loops over entries and over the bytes of a
\* file end, also when calls fail.
HandlersReturn == ~idle ~> idle
=============================================================================
