------------------------------- MODULE Editor -------------------------------
(***************************************************************************)
(* The text buffer of the Terminal's editor (kernel/gui/editor_model.cpp): *)
(* a bounded text, a cursor that remembers its column while it moves up    *)
(* and down, a viewport that follows the cursor, and the rule for leaving  *)
(* with unsaved changes.  An editor is a record; the operators return what *)
(* the methods leave behind.  The text is a sequence of "x" (a printable   *)
(* byte), "nl" (the newline) and "bad" (a byte the editor refuses).        *)
(***************************************************************************)
EXTENDS Naturals, FiniteSets, FiniteSetsExt, SequencesExt

CONSTANTS kTextCapacity

newlines(text, n) == {i \in 1 .. n : text[i] = "nl"}

line_count(ed) == 1 + Cardinality(newlines(ed.text, Len(ed.text)))

\* The line and the column of the cursor, both counted from 0.
cursor_line(ed) == Cardinality(newlines(ed.text, ed.cursor))
cursor_column(ed) == ed.cursor - Max({0} \cup newlines(ed.text, ed.cursor))

\* Where a line begins and where it ends: the offsets of its first byte and
\* of the newline that ends it, or of the end of the text.
line_begin(ed, line) ==
    Min({b \in 0 .. Len(ed.text) : Cardinality(newlines(ed.text, b)) = line})

line_end(ed, line) ==
    Max({b \in 0 .. Len(ed.text) : Cardinality(newlines(ed.text, b)) = line})

reset_desired_column(ed) == [ed EXCEPT !.desired_column = cursor_column(ed)]

\* A text of which every byte is one the editor supports.
supported(text) == Len(text) <= kTextCapacity /\ \A i \in DOMAIN text : text[i] # "bad"

initialize(path, text, file_exists) ==
    reset_desired_column(
        [path |-> path, text |-> text, cursor |-> Len(text), desired_column |-> 0,
         viewport_top_line |-> 0, viewport_left_column |-> 0,
         file_exists |-> file_exists, modified |-> FALSE, forced_quit_pending |-> FALSE])

-----------------------------------------------------------------------------
insert(ed, byte) ==
    IF Len(ed.text) >= kTextCapacity THEN ed
    ELSE reset_desired_column(
            [ed EXCEPT !.text = InsertAt(@, ed.cursor + 1, byte),
                       !.cursor = @ + 1, !.modified = TRUE])

backspace(ed) ==
    IF ed.cursor = 0 THEN ed
    ELSE reset_desired_column(
            [ed EXCEPT !.text = RemoveAt(@, ed.cursor),
                       !.cursor = @ - 1, !.modified = TRUE])

move_left(ed) ==
    reset_desired_column([ed EXCEPT !.cursor = IF @ = 0 THEN 0 ELSE @ - 1])

move_right(ed) ==
    reset_desired_column([ed EXCEPT !.cursor = IF @ < Len(ed.text) THEN @ + 1 ELSE @])

\* The cursor on another line, in the remembered column if the line has it.
on_line(ed, line) ==
    LET begin == line_begin(ed, line) IN
    [ed EXCEPT !.cursor =
        begin + Min({ed.desired_column, line_end(ed, line) - begin})]

move_up(ed) ==
    IF cursor_line(ed) = 0 THEN ed ELSE on_line(ed, cursor_line(ed) - 1)

move_down(ed) ==
    IF cursor_line(ed) + 1 >= line_count(ed) THEN ed ELSE on_line(ed, cursor_line(ed) + 1)

\* Moves the window [first, first + shown) so that it contains `at`.
follow(first, shown, at) ==
    IF at < first THEN at ELSE IF at - first >= shown THEN at - shown + 1 ELSE first

update_viewport_unclamped(ed, rows, columns) ==
    IF rows = 0 \/ columns = 0 THEN ed
    ELSE [ed EXCEPT !.viewport_top_line = follow(@, rows, cursor_line(ed)),
                    !.viewport_left_column = follow(@, columns, cursor_column(ed))]

update_viewport(ed, rows, columns) ==
    IF rows = 0 \/ columns = 0 THEN ed
    ELSE LET last_top == IF line_count(ed) > rows THEN line_count(ed) - rows ELSE 0
         IN [ed EXCEPT
                !.viewport_top_line =
                    Min({follow(@, rows, cursor_line(ed)), last_top}),
                !.viewport_left_column = follow(@, columns, cursor_column(ed))]

-----------------------------------------------------------------------------
save_succeeded(ed) ==
    [ed EXCEPT !.file_exists = TRUE, !.modified = FALSE, !.forced_quit_pending = FALSE]

save_failed_clean(ed) == [ed EXCEPT !.forced_quit_pending = FALSE]

save_failed(ed) == [ed EXCEPT !.modified = TRUE, !.forced_quit_pending = FALSE]

\* What a pressed key other than Ctrl+S and Ctrl+Q does to the text.
edited(ed, key) ==
    CASE key = "character" -> insert(ed, "x")
      [] key = "enter"     -> insert(ed, "nl")
      [] key = "backspace" -> backspace(ed)
      [] key = "left"      -> move_left(ed)
      [] key = "right"     -> move_right(ed)
      [] key = "up"        -> move_up(ed)
      [] key = "down"      -> move_down(ed)
      [] OTHER             -> ed

EditorKeys ==
    {"character", "enter", "backspace", "left", "right", "up", "down", "escape",
     "ctrl+s", "ctrl+q"}

\* Ctrl+Q leaves a modified text only when it is pressed twice in a row.
wants_quit(ed, key) ==
    key = "ctrl+q" /\ (~ed.modified \/ ed.forced_quit_pending)

handle_key(ed, key) ==
    [(IF key \in {"ctrl+s", "ctrl+q"} THEN ed ELSE edited(ed, key))
        EXCEPT !.forced_quit_pending = (key = "ctrl+q" /\ ~wants_quit(ed, key))]
=============================================================================
