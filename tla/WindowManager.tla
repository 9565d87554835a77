--------------------------- MODULE WindowManager ---------------------------
(***************************************************************************)
(* kernel/gui/window_manager.cpp: window slots, focus, stacking order,     *)
(* dragging and resizing.                                                  *)
(*                                                                         *)
(* A window manager is a record w; a method that changes it is an operator *)
(* that gives the changed record.  w.z keeps the field z of every slot     *)
(* apart from the rest of the slot.  What a closed slot still holds is     *)
(* never read, so closed slots are all equal.  0 is the id of no window    *)
(* and the slot of no window.                                              *)
(***************************************************************************)
EXTENDS Integers, Sequences, FiniteSets

CONSTANTS
    kMaxWindows,
    kScreenWidth, kScreenHeight,
    kPanelHeight,               \* rows at the top that windows stay out of
    kMinWidth, kMinHeight

ASSUME ScreenAssumption ==
    /\ kMaxWindows \in Nat \ {0}
    /\ kScreenWidth \in Nat /\ kScreenHeight \in Nat /\ kPanelHeight \in Nat
    /\ kMinWidth \in Nat /\ kMinHeight \in Nat
    /\ kMinWidth <= kScreenWidth
    /\ kMinHeight <= kScreenHeight - kPanelHeight

Slots == 1..kMaxWindows

Rect(x, y, width, height) == [x |-> x, y |-> y, width |-> width, height |-> height]
Point(x, y) == [x |-> x, y |-> y]
NoRect == Rect(0, 0, 0, 0)

contains(rect, point) ==
    /\ point.x >= rect.x /\ point.x < rect.x + rect.width
    /\ point.y >= rect.y /\ point.y < rect.y + rect.height

clamp_value(value, minimum, maximum) ==
    IF value < minimum THEN minimum ELSE IF value > maximum THEN maximum ELSE value

\* The bounds moved to where a window of their size may be.
placed(bounds) ==
    [bounds EXCEPT !.x = clamp_value(bounds.x, 0, kScreenWidth - bounds.width),
                   !.y = clamp_value(bounds.y, kPanelHeight, kScreenHeight - bounds.height)]

clamp_bounds(bounds) ==
    placed(Rect(bounds.x, bounds.y,
                clamp_value(bounds.width, kMinWidth, kScreenWidth),
                clamp_value(bounds.height, kMinHeight, kScreenHeight - kPanelHeight)))

ClosedSlot == [id |-> 0, state |-> "Closed", bounds |-> NoRect, restore_bounds |-> NoRect,
               resizable |-> FALSE, closable |-> FALSE]

NewWindowManager ==
    [windows |-> [i \in Slots |-> ClosedSlot], z |-> [i \in Slots |-> 0], focused |-> 0,
     action |-> "None", pointer_window |-> 0, start |-> Point(0, 0), start_bounds |-> NoRect]

InUse(w) == {i \in Slots : w.windows[i].state # "Closed"}
Opened(w) == {i \in Slots : w.windows[i].state = "Open"}

find(w, id) ==
    IF \E i \in InUse(w) : w.windows[i].id = id
    THEN CHOOSE i \in InUse(w) : w.windows[i].id = id
    ELSE 0

\* The id of the highest of the windows in the given slots.
highest(w, slots) ==
    IF slots = {} THEN 0
    ELSE w.windows[CHOOSE i \in slots : \A j \in slots : w.z[j] <= w.z[i]].id

hit_test(w, point) == highest(w, {i \in Opened(w) : contains(w.windows[i].bounds, point)})

highest_open_window(w) == highest(w, Opened(w))

-----------------------------------------------------------------------------
(* The stacking order.                                                     *)

\* Pass n of compact_z gives the lowest of the windows that are at n - 1 or
\* higher the z n - 1; of equals, the first slot counts as the lowest.
lowest(z, slots) ==
    CHOOSE i \in slots : \A j \in slots : z[i] < z[j] \/ (z[i] = z[j] /\ i <= j)
compact_pass(z, candidates, n) ==
    IF candidates = {} THEN z ELSE [z EXCEPT ![lowest(z, candidates)] = n - 1]
compact_z(used, z0) ==
    LET pass[n \in 0..kMaxWindows] ==
            IF n = 0 THEN z0
            ELSE compact_pass(pass[n - 1], {i \in used : pass[n - 1][i] >= n - 1}, n)
    IN pass[kMaxWindows]

\* The greatest z of the given slots, or the default when there are none.
top_z(z, slots, default) ==
    IF slots = {} THEN default ELSE z[CHOOSE i \in slots : \A j \in slots : z[j] <= z[i]]

\* The windows above t come down by one, and t goes to the highest of the others.
lowered(z, others, t) ==
    [i \in Slots |-> IF i = t THEN top_z(z, others, 0)
                     ELSE IF i \in others /\ z[i] > z[t] THEN z[i] - 1
                     ELSE z[i]]
on_top(z, others, t) == [z EXCEPT ![t] = top_z(z, others, -1) + 1]

\* The new z of every slot when the window in slot t is raised.
raised(used, z0, t) ==
    on_top(compact_z(used, lowered(compact_z(used, z0), used \ {t}, t)), used \ {t}, t)

raise(w, id) ==
    IF find(w, id) = 0 THEN w ELSE [w EXCEPT !.z = raised(InUse(w), w.z, find(w, id))]

-----------------------------------------------------------------------------
(* The methods that change the window manager.  Those that the code lets   *)
(* fail leave it as it is when they do; the _ok operators are the values   *)
(* returned.                                                               *)

free_slots(w) == Slots \ InUse(w)
add_window_ok(w, id) == id # 0 /\ find(w, id) = 0 /\ free_slots(w) # {}

add_window(w, id, bounds, resizable, closable) ==
    LET slot == CHOOSE i \in free_slots(w) : \A j \in free_slots(w) : i <= j
        window == [id |-> id, state |-> "Open", bounds |-> clamp_bounds(bounds),
                   restore_bounds |-> clamp_bounds(bounds),
                   resizable |-> resizable, closable |-> closable]
    IN IF add_window_ok(w, id)
       THEN raise([w EXCEPT !.windows[slot] = window,
                            !.z[slot] = Cardinality(InUse(w)),
                            !.focused = id], id)
       ELSE w

is_open(w, id) == find(w, id) # 0 /\ w.windows[find(w, id)].state = "Open"
is_minimized(w, id) == find(w, id) # 0 /\ w.windows[find(w, id)].state = "Minimized"
bounds_of(w, id) == w.windows[find(w, id)].bounds

focus(w, id) == IF is_open(w, id) THEN raise([w EXCEPT !.focused = id], id) ELSE w

\* begin_drag and begin_resize once their guards have passed.
begin_pointer_action(w, action, id, point) ==
    [focus(w, id) EXCEPT !.action = action, !.pointer_window = id, !.start = point,
                         !.start_bounds = bounds_of(w, id)]

begin_drag_ok(w, id) == is_open(w, id)
begin_drag(w, id, point) ==
    IF begin_drag_ok(w, id) THEN begin_pointer_action(w, "Drag", id, point) ELSE w

begin_resize_ok(w, id) == is_open(w, id) /\ w.windows[find(w, id)].resizable
begin_resize(w, id, point) ==
    IF begin_resize_ok(w, id) THEN begin_pointer_action(w, "Resize", id, point) ELSE w

end_pointer_action(w) == [w EXCEPT !.action = "None", !.pointer_window = 0]

dragged_anywhere(w, point) ==
    [w.start_bounds EXCEPT !.x = @ + (point.x - w.start.x), !.y = @ + (point.y - w.start.y)]

dragged(w, point) ==
    placed([w.start_bounds EXCEPT !.x = @ + (point.x - w.start.x),
                                  !.y = @ + (point.y - w.start.y)])

resized(w, bounds, point) ==
    [bounds EXCEPT
        !.width = clamp_value(w.start_bounds.width + (point.x - w.start.x),
                              kMinWidth, kScreenWidth - w.start_bounds.x),
        !.height = clamp_value(w.start_bounds.height + (point.y - w.start.y),
                               kMinHeight, kScreenHeight - w.start_bounds.y)]

set_bounds(w, slot, bounds) ==
    [w EXCEPT !.windows[slot].bounds = bounds]

pointer_move(w, point) ==
    LET slot == find(w, w.pointer_window) IN
    IF ~is_open(w, w.pointer_window) THEN end_pointer_action(w)
    ELSE IF w.action = "Drag" THEN set_bounds(w, slot, dragged(w, point))
    ELSE IF w.action = "Resize"
         THEN set_bounds(w, slot, resized(w, w.windows[slot].bounds, point))
    ELSE w

\* What minimize and close do last: the window loses the pointer and the focus.
drop_pointer(w, id) == IF w.pointer_window = id THEN end_pointer_action(w) ELSE w
drop_focus(w, id) == IF w.focused = id THEN [w EXCEPT !.focused = highest_open_window(w)] ELSE w

minimize_ok(w, id) == is_open(w, id)
minimize(w, id) ==
    LET slot == find(w, id)
        hidden == [w EXCEPT !.windows[slot].restore_bounds = w.windows[slot].bounds,
                            !.windows[slot].state = "Minimized"]
    IN IF minimize_ok(w, id) THEN drop_focus(drop_pointer(hidden, id), id) ELSE w

restore(w, id) ==
    LET slot == find(w, id)
        shown == [w EXCEPT !.windows[slot].bounds = w.windows[slot].restore_bounds,
                           !.windows[slot].state = "Open"]
    IN IF is_minimized(w, id) THEN focus(shown, id) ELSE w

close_ok(w, id) == find(w, id) # 0 /\ w.windows[find(w, id)].closable
close(w, id) ==
    LET slot == find(w, id)
        gone == [w EXCEPT !.windows[slot] = ClosedSlot]
        compacted == [drop_pointer(gone, id) EXCEPT !.z = compact_z(InUse(gone), [w.z EXCEPT ![slot] = 0])]
    IN IF close_ok(w, id) THEN drop_focus(compacted, id) ELSE w

=============================================================================
