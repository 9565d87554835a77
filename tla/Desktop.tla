------------------------------ MODULE Desktop ------------------------------
(***************************************************************************)
(* kernel/gui/desktop.cpp: the desktop's event loop, its panel and menu,   *)
(* the routing of mouse and key events, and repainting by dirty regions.   *)
(*                                                                         *)
(* screen gives what every pixel shows: which part of which window or of   *)
(* the panel, and whether what was painted there is still what the code    *)
(* would paint now (mark 1) or is out of date (mark 0).  Wording, colours  *)
(* and glyphs are left out.  System Info shows figures as of its last      *)
(* painting, so its content is never out of date.  What is painted at one  *)
(* pixel does not depend on other pixels, so only those of Pixels are      *)
(* followed.                                                               *)
(*                                                                         *)
(* The layout constants have the code's names; the coordinates are in any  *)
(* unit.  Which events arrive is arbitrary: a mouse event carries the      *)
(* pointer to some point of Targets; the one that releases the button does *)
(* not also move it, which would not drag a window either.                 *)
(***************************************************************************)
EXTENDS WindowManager

CONSTANTS
    kTitleBarHeight, kChromeButtonTop, kChromeButtonWidth, kChromeButtonHeight, kResizeGrip,
    kCursorWidth, kCursorHeight,
    ApplicationsEnd, TerminalEnd, SystemInfoEnd,    \* where panel_hit's buttons end
    kTaskButtonLeft, kTaskButtonTop, kTaskButtonWidth, kTaskButtonHeight,
    kStatusWidth,
    kMenuWidth, kMenuItemHeight,
    kMaxDirtyRects,
    default_bounds,     \* of the Terminal, System Info and the File Manager
    Pixels,             \* the pixels that are followed
    Targets,            \* points that mouse events carry the pointer to
    MaxPresses,         \* bound: button presses
    MaxMoves,           \* bound: mouse events that neither press nor release
    MaxChanges          \* bound: keys, and times that the terminal has output

Terminal == 1
SystemInfo == 2
FileManager == 3
Apps == {Terminal, SystemInfo, FileManager}
HasOnMouse == {FileManager}

ASSUME LayoutAssumption ==
    /\ kCursorWidth \in Nat /\ kCursorHeight \in Nat /\ kMenuItemHeight \in Nat \ {0}
    /\ default_bounds \in [Apps -> [x : Int, y : Int, width : Int, height : Int]]
    /\ Targets \subseteq [x : Int, y : Int]

VARIABLES
    state,          \* RuntimeState without the framebuffer, the apps and the cursor
    screen,         \* the framebuffer
    cursor,         \* cursor_drawn and cursor_backing
    had_event,      \* the loop's local variable
    pc,             \* where the loop is: poll, mouse, keyboard or halt
    count           \* history: presses, other moves and changes so far

vars == <<state, screen, cursor, had_event, pc, count>>

-----------------------------------------------------------------------------
(* Rectangles and layout.                                                  *)

Screen == Rect(0, 0, kScreenWidth, kScreenHeight)
Panel == Rect(0, 0, kScreenWidth, kPanelHeight)

empty(a) == a.width <= 0 \/ a.height <= 0

intersects(a, b) ==
    /\ ~empty(a) /\ ~empty(b)
    /\ a.x < b.x + b.width /\ b.x < a.x + a.width
    /\ a.y < b.y + b.height /\ b.y < a.y + a.height

larger(a, b) == IF a > b THEN a ELSE b
smaller(a, b) == IF a < b THEN a ELSE b

spanned(left, top, right, bottom) ==
    IF right <= left \/ bottom <= top THEN NoRect
    ELSE Rect(left, top, right - left, bottom - top)
intersection(a, b) ==
    spanned(larger(a.x, b.x), larger(a.y, b.y),
            smaller(a.x + a.width, b.x + b.width), smaller(a.y + a.height, b.y + b.height))

clip_to_screen(rect) == intersection(rect, Screen)

menu_bounds == Rect(0, kPanelHeight, kMenuWidth, 3 * kMenuItemHeight)
menu_item(point) == smaller((point.y - kPanelHeight) \div kMenuItemHeight, 2) + 1
status_bounds == Rect(kScreenWidth - kStatusWidth, 0, kStatusWidth, kPanelHeight)
task_button_bounds(slot) ==
    Rect(kTaskButtonLeft + slot * kTaskButtonWidth, kTaskButtonTop,
         kTaskButtonWidth, kTaskButtonHeight)
title_bar(bounds) == Rect(bounds.x, bounds.y, bounds.width, kTitleBarHeight)
content_rect(bounds) ==
    Rect(bounds.x, bounds.y + kTitleBarHeight, bounds.width, bounds.height - kTitleBarHeight)

cursor_rect_at(point) == Rect(point.x, point.y, kCursorWidth, kCursorHeight)
clamp_cursor(point) ==
    Point(clamp_value(point.x, 0, kScreenWidth - kCursorWidth),
          clamp_value(point.y, 0, kScreenHeight - kCursorHeight))

panel_hit(point) ==
    IF ~contains(Panel, point) THEN "None"
    ELSE IF point.x <= ApplicationsEnd THEN "Applications"
    ELSE IF point.x <= TerminalEnd THEN "Terminal"
    ELSE IF point.x <= SystemInfoEnd THEN "SystemInfo"
    ELSE IF point.x < kTaskButtonLeft THEN "None"
    ELSE IF contains(status_bounds, point) THEN "Status"
    ELSE "TaskArea"

chrome_hit(bounds, point, resizable, closable) ==
    LET right == bounds.x + bounds.width
        bottom == bounds.y + bounds.height
        button(n) == Rect(right - n * kChromeButtonWidth, bounds.y + kChromeButtonTop,
                          kChromeButtonWidth, kChromeButtonHeight)
    IN IF ~contains(bounds, point) THEN "None"
       ELSE IF closable /\ contains(button(1), point) THEN "Close"
       ELSE IF contains(button(2), point) THEN "Minimize"
       ELSE IF resizable /\ (point.x >= right - kResizeGrip \/ point.y >= bottom - kResizeGrip)
            THEN "Resize"
       ELSE IF point.y < bounds.y + kTitleBarHeight THEN "TitleBar"
       ELSE "Content"

\* The task buttons: one for each window there is, in the order of the ids.
task_slot(w, id) == Cardinality({other \in Apps : other < id /\ find(w, other) # 0})
task_button(w, id) == task_button_bounds(task_slot(w, id))
task_window_at(w, point) ==
    {id \in Apps : find(w, id) # 0 /\ contains(task_button(w, id), point)}

-----------------------------------------------------------------------------
(* Invalidation.                                                           *)

\* DirtyRegionQueue::invalidate on a queue of rectangles.
enqueued(dirty, clipped) ==
    IF empty(clipped) THEN dirty
    ELSE IF Len(dirty) >= kMaxDirtyRects THEN <<Screen>>
    ELSE Append(dirty, clipped)
queued(dirty, rect) == enqueued(dirty, clip_to_screen(rect))

invalidate(s, rect) == [s EXCEPT !.dirty = queued(s.dirty, rect)]

invalidate_window(s, id) ==
    IF is_open(s.windows, id) THEN invalidate(s, bounds_of(s.windows, id)) ELSE s

invalidate_panel(s) == invalidate(s, Panel)

focus_runtime_window(s, id) ==
    LET old == invalidate_window(s, s.windows.focused)
    IN IF s.windows.focused = id THEN s
       ELSE IF ~is_open(s.windows, id) THEN old
       ELSE invalidate_panel(invalidate_window(
                [old EXCEPT !.windows = focus(s.windows, id)], id))

\* activate_window: restores, focuses or creates the window.
activate_window(w, id) ==
    IF is_minimized(w, id) THEN restore(w, id)
    ELSE IF is_open(w, id) THEN focus(w, id)
    ELSE focus(add_window(w, id, default_bounds[id], TRUE, TRUE), id)

activate_window_ok(w, id) == find(w, id) # 0 \/ add_window_ok(w, id)

activate_runtime_window(s, id) ==
    LET old == invalidate_window(s, s.windows.focused)
    IN IF activate_window_ok(s.windows, id)
       THEN invalidate_panel(invalidate_window(
                [old EXCEPT !.windows = activate_window(s.windows, id)], id))
       ELSE old

-----------------------------------------------------------------------------
(* Painting.                                                               *)

Shows(what, id, mark) == [what |-> what, id |-> id, mark |-> mark]
lit(w, id) == IF w.focused = id THEN 1 ELSE 0

\* draw_window is called in ascending z order for every open window that the
\* dirty rectangle meets, and paints all of the window.  A pixel thus keeps
\* what the highest of them that holds it has painted.
painters(w, dirty, pixel) ==
    {i \in Opened(w) : intersects(w.windows[i].bounds, dirty)
                         /\ contains(w.windows[i].bounds, pixel)}

\* Within the window, the app draws only if the dirty rectangle meets its content.
draw_window(w, id, dirty, pixel) ==
    LET bounds == bounds_of(w, id) IN
    IF contains(title_bar(bounds), pixel) THEN Shows("title", id, lit(w, id))
    ELSE IF intersects(content_rect(bounds), dirty) THEN Shows("content", id, 1)
    ELSE Shows("frame", id, 1)

\* Task buttons and texts are drawn in all of the panel, the background only
\* in the dirty rectangle.
draw_panel(w, dirty, pixel, before) ==
    LET buttons == task_window_at(w, pixel) IN
    IF buttons # {} THEN Shows("task", CHOOSE id \in buttons : TRUE,
                               lit(w, CHOOSE id \in buttons : TRUE))
    ELSE IF ~contains(dirty, pixel) THEN before
    ELSE IF contains(status_bounds, pixel) THEN Shows("status", 0, 1)
    ELSE Shows("panel", 0, 1)

redraw_region(s, picture, rect) ==
    LET dirty == clip_to_screen(rect)
        w == s.windows
        repainted(pixel) ==
            IF s.menu_open /\ intersects(menu_bounds, dirty) /\ contains(menu_bounds, pixel)
            THEN Shows("menu", 0, 1)
            ELSE IF intersects(Panel, dirty) /\ contains(Panel, pixel)
            THEN draw_panel(w, dirty, pixel, picture[pixel])
            ELSE IF painters(w, dirty, pixel) # {}
            THEN draw_window(w, highest(w, painters(w, dirty, pixel)), dirty, pixel)
            ELSE IF contains(dirty, pixel) THEN Shows("desktop", 0, 1)
            ELSE picture[pixel]
    IN IF empty(dirty) THEN picture ELSE [pixel \in Pixels |-> repainted(pixel)]

redraw_regions(s, picture) ==
    LET after[n \in 0..Len(s.dirty)] ==
            IF n = 0 THEN picture ELSE redraw_region(s, after[n - 1], s.dirty[n])
    IN after[Len(s.dirty)]

\* The cursor: the pixels it covers are saved, and put back before anything
\* else is painted or the pointer moves.
under_cursor(s) == {pixel \in Pixels : contains(cursor_rect_at(s.mouse_position), pixel)}
NoCursor == [drawn |-> FALSE, backing |-> <<>>]

restore_cursor(picture, c) ==
    IF c.drawn THEN [pixel \in Pixels |-> IF pixel \in DOMAIN c.backing THEN c.backing[pixel]
                                          ELSE picture[pixel]]
    ELSE picture

covered(s, picture) ==
    [pixel \in Pixels |-> IF pixel \in under_cursor(s) THEN Shows("cursor", 0, 1)
                          ELSE picture[pixel]]

draw_cursor_overlay(s, picture) ==
    IF s.mouse_online
    THEN /\ cursor' = [drawn |-> TRUE, backing |-> [p \in under_cursor(s) |-> picture[p]]]
         /\ screen' = covered(s, picture)
    ELSE /\ cursor' = NoCursor
         /\ screen' = picture

\* What is on the screen when the content of some windows has changed.
outdated(shown, what, ids) ==
    IF shown.what = what /\ shown.id \in ids THEN [shown EXCEPT !.mark = 0] ELSE shown
age(picture, what, ids) == [p \in DOMAIN picture |-> outdated(picture[p], what, ids)]

-----------------------------------------------------------------------------
(* Handlers of mouse events.  They give the new state and whether the      *)
(* event has been consumed.                                                *)

Handled(s, consumed) == [state |-> s, consumed |-> consumed]

close_menu(s) == invalidate([s EXCEPT !.menu_open = FALSE], menu_bounds)
open_menu(s) == invalidate(invalidate_panel([s EXCEPT !.menu_open = TRUE]), menu_bounds)

panel_click(s, hit, point) ==
    LET at == task_window_at(s.windows, point) IN
    IF hit = "None" THEN Handled(s, FALSE)
    ELSE IF hit = "Applications" THEN Handled(open_menu(s), TRUE)
    ELSE IF hit = "Terminal" THEN Handled(activate_runtime_window(s, Terminal), TRUE)
    ELSE IF hit = "SystemInfo" THEN Handled(activate_runtime_window(s, SystemInfo), TRUE)
    ELSE IF hit = "TaskArea" /\ at # {}
         THEN Handled(activate_runtime_window(s, CHOOSE id \in at : TRUE), TRUE)
    ELSE Handled(s, TRUE)

handle_panel_or_menu_click(s, point) ==
    IF s.menu_open /\ contains(menu_bounds, point)
    THEN Handled(activate_runtime_window(close_menu(s), menu_item(point)), TRUE)
    ELSE IF s.menu_open /\ panel_hit(point) = "Applications"
    THEN Handled(invalidate_panel(close_menu(s)), TRUE)
    ELSE panel_click(IF s.menu_open THEN close_menu(s) ELSE s, panel_hit(point), point)

\* The window in id has been closed or minimized: w is the new window manager.
vacated(s, id, w) ==
    LET after == [invalidate(s, bounds_of(s.windows, id)) EXCEPT !.windows = w]
    IN invalidate_panel(invalidate_window(after, w.focused))

grab(s, id, w) == [s EXCEPT !.windows = w, !.pointer_window = id]

\* A click into the frame or the content; s has the window's focus already.
frame_click(s, id, hit, point) ==
    IF hit = "Resize"
    THEN Handled(IF begin_resize_ok(s.windows, id)
                 THEN grab(s, id, begin_resize(s.windows, id, point)) ELSE s, TRUE)
    ELSE IF hit = "TitleBar"
    THEN Handled(IF begin_drag_ok(s.windows, id)
                 THEN grab(s, id, begin_drag(s.windows, id, point)) ELSE s, TRUE)
    ELSE Handled(s, FALSE)

window_click(s, id, hit, point) ==
    IF hit = "Close"
    THEN Handled(IF close_ok(s.windows, id) THEN vacated(s, id, close(s.windows, id)) ELSE s, TRUE)
    ELSE IF hit = "Minimize"
    THEN Handled(IF minimize_ok(s.windows, id)
                 THEN vacated(s, id, minimize(s.windows, id)) ELSE s, TRUE)
    ELSE frame_click(focus_runtime_window(s, id), id, hit, point)

handle_window_mouse_down(s, point) ==
    LET id == hit_test(s.windows, point)
        window == s.windows.windows[find(s.windows, id)]
    IN IF id = 0 THEN Handled(s, FALSE)
       ELSE window_click(s, id, chrome_hit(window.bounds, point, window.resizable, window.closable),
                         point)

\* The part of process_mouse_event for a window that is being dragged or resized.
drag_step_new(s) ==
    LET w == pointer_move(s.windows, s.mouse_position)
        moved == [s EXCEPT !.windows = w]
    IN IF find(w, s.pointer_window) # 0
       THEN invalidate(moved, bounds_of(w, s.pointer_window)) ELSE moved

drag_step(s) ==
    LET id == s.pointer_window
        old == IF find(s.windows, id) # 0 THEN invalidate(s, bounds_of(s.windows, id)) ELSE s
        w == pointer_move(s.windows, s.mouse_position)
        moved == [old EXCEPT !.windows = w]
    IN IF find(w, id) # 0 THEN invalidate(moved, bounds_of(w, id)) ELSE moved

release_windows(s) == [s EXCEPT !.windows = end_pointer_action(s.windows)]

release(s) == [s EXCEPT !.windows = end_pointer_action(s.windows), !.pointer_window = 0]

behind_panel(panel, point) ==
    IF panel.consumed THEN panel ELSE handle_window_mouse_down(panel.state, point)
mouse_down(s) == behind_panel(handle_panel_or_menu_click(s, s.mouse_position), s.mouse_position)

\* Everything process_mouse_event does before it looks for an app.
with_button(done, left) == Handled([done.state EXCEPT !.left_down = left], done.consumed)
chrome_event(s, left) ==
    with_button(IF left /\ ~s.left_down THEN mouse_down(s)
                ELSE Handled(IF ~left /\ s.left_down THEN release(s)
                             ELSE IF left /\ s.pointer_window # 0 THEN drag_step(s)
                             ELSE s, FALSE),
                left)

\* route_mouse_after_chrome: does the focused app get the event?
delivered(before, after, consumed) ==
    LET id == after.windows.focused IN
    /\ before.pointer_window = 0 /\ after.pointer_window = 0 /\ ~consumed
    /\ is_open(after.windows, id) /\ id \in HasOnMouse
    /\ contains(content_rect(bounds_of(after.windows, id)), after.mouse_position)

-----------------------------------------------------------------------------
(* The loop.                                                               *)

FirstWindows ==
    LET terminal == add_window(NewWindowManager, Terminal, default_bounds[Terminal], TRUE, TRUE)
    IN focus(add_window(terminal, SystemInfo, default_bounds[SystemInfo], TRUE, TRUE), Terminal)

Start(mouse_online) ==
    [mouse_online |-> mouse_online, windows |-> FirstWindows, dirty |-> <<>>,
     mouse_position |-> Point(kScreenWidth \div 2, kScreenHeight \div 2),
     left_down |-> FALSE, pointer_window |-> 0, menu_open |-> FALSE]

\* The screen after run has painted all of it for the first time.
FirstPicture(s) ==
    redraw_region(s, [p \in Pixels |-> Shows("boot", 0, 0)], Screen)

Init ==
    \E mouse_online \in BOOLEAN :
        /\ state = Start(mouse_online)
        /\ IF mouse_online
           THEN /\ screen = covered(state, FirstPicture(state))
                /\ cursor = [drawn |-> TRUE, backing |->
                                [p \in under_cursor(state) |-> FirstPicture(state)[p]]]
           ELSE screen = FirstPicture(state) /\ cursor = NoCursor
        /\ had_event = FALSE /\ pc = "poll" /\ count = [presses |-> 0, moves |-> 0, changes |-> 0]

changed == [count EXCEPT !.changes = @ + 1]

\* network::poll, dns::poll and scheduler::run_once come first; then the
\* terminal's session may have new output.
Poll ==
    /\ pc = "poll" /\ pc' = "mouse"
    /\ \E output \in BOOLEAN :
        /\ had_event' = output
        /\ state' = IF output THEN invalidate_window(state, Terminal) ELSE state
        /\ screen' = IF output THEN age(screen, "content", {Terminal}) ELSE screen
        /\ cursor' = IF output
                     THEN [cursor EXCEPT !.backing = age(@, "content", {Terminal})] ELSE cursor
        /\ count' = IF output THEN changed ELSE count
        /\ count'.changes <= MaxChanges

\* The rest of process_mouse_event: the app, and the cursor, which is put away.
routed_to_app(chrome) ==
    LET to_app == delivered(state, chrome.state, chrome.consumed)
        bare == restore_cursor(screen, cursor)
        id == chrome.state.windows.focused
    IN /\ state' = IF to_app
                   THEN invalidate(chrome.state, bounds_of(chrome.state.windows, id))
                   ELSE chrome.state
       /\ screen' = IF to_app THEN age(bare, "content", {id}) ELSE bare
       /\ cursor' = NoCursor

process_mouse_event(target, left) ==
    /\ pc = "mouse" /\ state.mouse_online
    /\ count' = IF left = state.left_down THEN [count EXCEPT !.moves = @ + 1]
                ELSE IF left THEN [count EXCEPT !.presses = @ + 1] ELSE count
    /\ count'.presses <= MaxPresses /\ count'.moves <= MaxMoves
    /\ had_event' = TRUE
    /\ routed_to_app(chrome_event([state EXCEPT !.mouse_position = clamp_cursor(target)], left))
    /\ UNCHANGED pc

\* One round of process_keyboard with route_key.
process_keyboard ==
    LET id == state.windows.focused
        routed == is_open(state.windows, id) /\ id \in {Terminal, FileManager}
    IN /\ pc \in {"mouse", "keyboard"} /\ pc' = "keyboard"
       /\ had_event' = TRUE
       /\ count' = changed /\ count'.changes <= MaxChanges
       /\ state' = IF routed THEN invalidate_window(state, id) ELSE state
       /\ screen' = IF routed THEN age(screen, "content", {id}) ELSE screen
       /\ cursor' = IF routed
                    THEN [cursor EXCEPT !.backing = age(@, "content", {id})] ELSE cursor

\* The rest of the loop's body: the uptime, redraw_dirty and io::halt.
redraw_dirty ==
    /\ pc \in {"mouse", "keyboard"}
    /\ \E tick \in BOOLEAN :
        LET s == IF tick THEN invalidate(state, status_bounds) ELSE state
            seen == IF tick THEN age(screen, "status", {0}) ELSE screen
            under == IF tick /\ cursor.drawn
                     THEN [cursor EXCEPT !.backing = age(@, "status", {0})] ELSE cursor
            had_dirty == s.dirty # <<>>
        IN /\ state' = [s EXCEPT !.dirty = <<>>]
           /\ IF had_dirty \/ ~cursor.drawn
              THEN draw_cursor_overlay(s, redraw_regions(s, restore_cursor(seen, under)))
              ELSE screen' = seen /\ cursor' = under
           /\ pc' = IF had_event \/ tick \/ had_dirty THEN "poll" ELSE "halt"
    /\ had_event' = FALSE
    /\ UNCHANGED count

\* Any interrupt ends io::halt.
wake == pc = "halt" /\ pc' = "poll" /\ UNCHANGED <<state, screen, cursor, had_event, count>>

Next ==
    \/ Poll
    \/ \E target \in Targets : process_mouse_event(target, TRUE)
    \/ \E target \in Targets : ~state.left_down /\ process_mouse_event(target, FALSE)
    \/ state.left_down /\ process_mouse_event(state.mouse_position, FALSE)
    \/ process_keyboard
    \/ redraw_dirty
    \/ wake

Spec == Init /\ [][Next]_vars

-----------------------------------------------------------------------------
(* Properties.                                                             *)

w0 == state.windows

\* Every window, minimized ones included, lies within the screen below the
\* panel and has at least the minimum size, however it has been dragged,
\* resized, minimized and restored (window_manager.cpp's clamping in
\* clamp_bounds and pointer_move).
Fits(bounds) ==
    /\ bounds.x >= 0 /\ bounds.x + bounds.width <= kScreenWidth
    /\ bounds.y >= kPanelHeight /\ bounds.y + bounds.height <= kScreenHeight
    /\ bounds.width >= kMinWidth /\ bounds.height >= kMinHeight
WindowsFit ==
    \A i \in InUse(w0) : Fits(w0.windows[i].bounds) /\ Fits(w0.windows[i].restore_bounds)

\* raise and compact_z keep the z of the windows a numbering from 0 without
\* gaps or ties, and the focus is always on the highest open window, which
\* focus_runtime_window relies on when it returns early for the focused one.
StackingSound ==
    /\ \A i, j \in InUse(w0) :
        i # j => w0.windows[i].id # w0.windows[j].id /\ w0.z[i] # w0.z[j]
    /\ \A i \in InUse(w0) : w0.z[i] \in 0..Cardinality(InUse(w0)) - 1
    /\ w0.focused = highest_open_window(w0)

\* The desktop and the window manager agree on the window that is being
\* dragged or resized: one is only while the button is down, and it is open
\* and focused (process_mouse_event, begin_drag, begin_resize).
CaptureAgrees ==
    /\ state.pointer_window = w0.pointer_window
    /\ (w0.pointer_window # 0) = (w0.action # "None")
    /\ w0.pointer_window # 0 =>
        /\ state.left_down
        /\ is_open(w0, w0.pointer_window)
        /\ w0.focused = w0.pointer_window

\* Stacking, focus and pointer capture fit together at all times.
FocusSound == StackingSound /\ CaptureAgrees

\* What may be seen at a pixel that no dirty rectangle covers, the cursor
\* aside: nothing that is out of date or whose window has been moved, closed
\* or minimized.  Which of several windows at the pixel is seen is left open
\* here, and so is whether an app has drawn into its frame.
UpToDate(shown, pixel) ==
    LET here == {w0.windows[i].id : i \in {j \in Opened(w0) : contains(w0.windows[j].bounds, pixel)}}
        task == task_window_at(w0, pixel)
    IN IF contains(Panel, pixel)
       THEN IF task # {} THEN \E id \in task : shown = Shows("task", id, lit(w0, id))
            ELSE shown = IF contains(status_bounds, pixel) THEN Shows("status", 0, 1)
                         ELSE Shows("panel", 0, 1)
       ELSE \/ shown.what = "desktop" /\ here = {}
                /\ ~(state.menu_open /\ contains(menu_bounds, pixel))
            \/ shown.what = "menu" /\ state.menu_open /\ contains(menu_bounds, pixel)
            \/ shown.what \in {"content", "frame"} /\ shown.id \in here /\ shown.mark = 1
            \/ shown.what = "title" /\ shown.id \in here /\ shown.mark = lit(w0, shown.id)

\* Every change of a window, of the menu, of the focus or of the panel
\* invalidates all that it outdates: outside the dirty rectangles the screen
\* shows nothing stale, the cursor leaves no trace, and when the loop halts
\* nothing is left to be painted and the cursor is shown.
NoGhosts ==
    /\ LET bare == restore_cursor(screen, cursor)
       IN \A p \in Pixels : \/ \E n \in DOMAIN state.dirty : contains(state.dirty[n], p)
                            \/ UpToDate(bare[p], p)
    /\ pc = "halt" => state.dirty = <<>> /\ cursor.drawn = state.mouse_online

\* Once everything dirty has been painted, every pixel of a window shows the
\* highest window there, which is what redraw_region's comment "Open windows
\* in ascending z order." (desktop.cpp:966) is to achieve.  It fails: a window
\* that the dirty rectangle meets is painted whole, over higher windows that
\* the rectangle does not meet.
ScreenFollowsStacking ==
    state.dirty = <<>> =>
        LET bare == restore_cursor(screen, cursor)
        IN \A p \in Pixels :
            /\ hit_test(w0, p) # 0 /\ ~(state.menu_open /\ contains(menu_bounds, p))
            => bare[p].id = hit_test(w0, p)
=============================================================================
