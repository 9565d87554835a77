--------------------------- MODULE DesktopProofs ---------------------------
(***************************************************************************)
(* Windows stay on the screen, for every size of the screen, of the panel  *)
(* and of the windows and for every sequence of mouse events.              *)
(*                                                                         *)
(* What is painted, the stacking order and the focus do not matter here.   *)
(***************************************************************************)
EXTENDS Desktop, WellFoundedInduction, TLAPS

-----------------------------------------------------------------------------
(* The invariant.                                                          *)

Rects == [x : Int, y : Int, width : Int, height : Int]
Points == [x : Int, y : Int]
FitRects == {b \in Rects : Fits(b)}

LiveWindows == [id : Apps, state : {"Open", "Minimized"}, bounds : FitRects,
                restore_bounds : FitRects, resizable : BOOLEAN, closable : BOOLEAN]

\* The windows: no two have the same id.
Shape(w) ==
    DOMAIN w = {"windows", "z", "focused", "action", "pointer_window", "start", "start_bounds"}

Core(w) ==
    /\ w.windows \in [Slots -> LiveWindows \cup {ClosedSlot}]
    /\ \A i, j \in InUse(w) : w.windows[i].id = w.windows[j].id => i = j

\* A window that is dragged or resized is open, it had a place on the screen
\* when that began, and its upper left corner stays while it is resized.
Pointer(w) ==
    /\ w.start \in Points
    /\ w.action \in {"None", "Drag", "Resize"}
    /\ w.action # "None" => is_open(w, w.pointer_window) /\ w.start_bounds \in FitRects
    /\ w.action = "Resize" =>
        /\ bounds_of(w, w.pointer_window).x = w.start_bounds.x
        /\ bounds_of(w, w.pointer_window).y = w.start_bounds.y

WInv(w) == Shape(w) /\ Core(w) /\ Pointer(w)

SInv(s) ==
    /\ DOMAIN s = {"mouse_online", "windows", "dirty", "mouse_position", "left_down",
                   "pointer_window", "menu_open"}
    /\ WInv(s.windows)
    /\ s.mouse_position \in Points

-----------------------------------------------------------------------------
(* Rectangles.                                                             *)

LEMMA Least ==
  ASSUME NEW T, T \subseteq Nat, T # {}
  PROVE  \E n \in T : \A m \in T : n <= m
<1> DEFINE R == {ss \in Nat \X Nat : ss[1] < ss[2]}
<1>1. IsWellFoundedOn(R, Nat)
  BY NatLessThanWellFounded DEF OpToRel
<1>2. PICK n \in T : \A m \in T : <<m, n>> \notin R
  <2> HIDE DEF R
  <2> QED
    BY <1>1, WFMin, Zenon
<1>3. \A m \in T : ~(m < n)
  BY <1>2, Zenon
<1> QED
  BY <1>3

LEMMA PlacedFits ==
  ASSUME NEW b \in Rects, kMinWidth <= b.width, b.width <= kScreenWidth,
         kMinHeight <= b.height, b.height <= kScreenHeight - kPanelHeight
  PROVE  placed(b) \in FitRects
<1> DEFINE x == clamp_value(b.x, 0, kScreenWidth - b.width)
           y == clamp_value(b.y, kPanelHeight, kScreenHeight - b.height)
<1>1. b.x \in Int /\ b.y \in Int /\ b.width \in Int /\ b.height \in Int
  BY DEF Rects
<1>2. x \in Int /\ 0 <= x /\ x + b.width <= kScreenWidth
  BY <1>1, ScreenAssumption DEF clamp_value
<1>3. y \in Int /\ kPanelHeight <= y /\ y + b.height <= kScreenHeight
  BY <1>1, ScreenAssumption DEF clamp_value
<1> HIDE DEF x, y
<1>4. [b EXCEPT !.x = x, !.y = y] \in FitRects
  BY <1>2, <1>3, ScreenAssumption, Zenon DEF FitRects, Rects, Fits
<1> QED
  BY <1>4 DEF placed, x, y

LEMMA ClampFits ==
  ASSUME NEW b \in Rects
  PROVE  clamp_bounds(b) \in FitRects
<1> DEFINE c == Rect(b.x, b.y, clamp_value(b.width, kMinWidth, kScreenWidth),
                     clamp_value(b.height, kMinHeight, kScreenHeight - kPanelHeight))
<1>1. /\ c \in Rects /\ kMinWidth <= c.width /\ c.width <= kScreenWidth
      /\ kMinHeight <= c.height /\ c.height <= kScreenHeight - kPanelHeight
  BY ScreenAssumption DEF clamp_value, Rect, Rects
<1> HIDE DEF c
<1>2. placed(c) \in FitRects
  BY <1>1, PlacedFits
<1> QED
  BY <1>2 DEF clamp_bounds, c

LEMMA DragFits ==
  ASSUME NEW w, w.start_bounds \in FitRects, w.start \in Points, NEW p \in Points
  PROVE  dragged(w, p) \in FitRects
<1> DEFINE b == [w.start_bounds EXCEPT !.x = @ + (p.x - w.start.x), !.y = @ + (p.y - w.start.y)]
<1>1. /\ b \in Rects /\ b.width = w.start_bounds.width /\ b.height = w.start_bounds.height
  <2> DEFINE v == w.start_bounds
             x == v.x + (p.x - w.start.x)
             y == v.y + (p.y - w.start.y)
  <2>1. v \in Rects /\ x \in Int /\ y \in Int
    BY DEF FitRects, Rects, Points
  <2>2. b = [v EXCEPT !.x = x, !.y = y]
    OBVIOUS
  <2> HIDE DEF v, x, y, b
  <2>3. b \in Rects /\ b.width = v.width /\ b.height = v.height
    BY <2>1, <2>2, Zenon DEF Rects
  <2> QED
    BY <2>3 DEF v
<1>2. /\ kMinWidth <= b.width /\ b.width <= kScreenWidth
      /\ kMinHeight <= b.height /\ b.height <= kScreenHeight - kPanelHeight
  BY <1>1, ScreenAssumption DEF FitRects, Fits, Rects
<1> HIDE DEF b
<1>3. placed(b) \in FitRects
  BY <1>1, <1>2, PlacedFits
<1> QED
  BY <1>3 DEF dragged, b

LEMMA ResizeFits ==
  ASSUME NEW w, w.start_bounds \in FitRects, w.start \in Points, NEW p \in Points,
         NEW b \in FitRects, b.x = w.start_bounds.x, b.y = w.start_bounds.y
  PROVE  /\ resized(w, b, p) \in FitRects
         /\ resized(w, b, p).x = b.x /\ resized(w, b, p).y = b.y
<1> DEFINE dx == w.start_bounds.width + (p.x - w.start.x)
           dy == w.start_bounds.height + (p.y - w.start.y)
           width == clamp_value(dx, kMinWidth, kScreenWidth - b.x)
           height == clamp_value(dy, kMinHeight, kScreenHeight - b.y)
<1>1. dx \in Int /\ dy \in Int /\ b \in Rects /\ Fits(b)
  BY DEF FitRects, Rects, Points
<1>2. resized(w, b, p) = [b EXCEPT !.width = width, !.height = height]
  BY DEF resized
<1> HIDE DEF dx, dy
<1>3. /\ width \in Int /\ kMinWidth <= width /\ b.x + width <= kScreenWidth
      /\ height \in Int /\ kMinHeight <= height /\ b.y + height <= kScreenHeight
  BY <1>1, ScreenAssumption DEF clamp_value, Fits, Rects
<1> HIDE DEF width, height
<1> QED
  BY <1>1, <1>2, <1>3, ScreenAssumption, Zenon DEF FitRects, Fits, Rects

-----------------------------------------------------------------------------
(* The window manager.                                                     *)

LEMMA SlotFacts ==
  ASSUME NEW w, Core(w)
  PROVE  /\ InUse(w) \subseteq Slots /\ 0 \notin Slots
         /\ \A i \in InUse(w) : w.windows[i] \in LiveWindows
         /\ \A i \in Slots \ InUse(w) : w.windows[i] = ClosedSlot
<1>1. InUse(w) \subseteq Slots /\ 0 \notin Slots
  BY DEF InUse, Slots
<1>2. ClosedSlot.state = "Closed" /\ \A v \in LiveWindows : v.state # "Closed"
  BY DEF ClosedSlot, LiveWindows
<1>3. \A i \in Slots : w.windows[i] \in LiveWindows \/ w.windows[i] = ClosedSlot
  BY DEF Core
<1>4. \A i \in Slots : i \in InUse(w) <=> w.windows[i].state # "Closed"
  BY DEF InUse
<1> QED
  BY <1>1, <1>2, <1>3, <1>4, Zenon

LEMMA FindFacts ==
  ASSUME NEW w, Core(w), NEW id
  PROVE  /\ find(w, id) # 0 => /\ find(w, id) \in InUse(w)
                               /\ w.windows[find(w, id)].id = id
         /\ \A i \in InUse(w) : w.windows[i].id = id => find(w, id) = i
<1>1. CASE \E i \in InUse(w) : w.windows[i].id = id
  <2>1. find(w, id) = CHOOSE i \in InUse(w) : w.windows[i].id = id
    BY <1>1 DEF find
  <2>2. find(w, id) \in InUse(w) /\ w.windows[find(w, id)].id = id
    BY <1>1, <2>1
  <2> QED
    BY <2>2 DEF Core
<1>2. CASE ~\E i \in InUse(w) : w.windows[i].id = id
  BY <1>2 DEF find
<1> QED
  BY <1>1, <1>2

\* What is left of the pointer's window decides over the pointer.
SamePointer(u, w) ==
    /\ u.action = w.action /\ u.pointer_window = w.pointer_window
    /\ u.start = w.start /\ u.start_bounds = w.start_bounds

LEMMA PointerKept ==
  ASSUME NEW w, WInv(w), NEW u, Shape(u), Core(u), SamePointer(u, w),
         w.action # "None" => u.windows[find(w, w.pointer_window)]
                                = w.windows[find(w, w.pointer_window)]
  PROVE  WInv(u)
<1> DEFINE id == w.pointer_window
           f == find(w, id)
<1>1. CASE w.action = "None"
  BY <1>1 DEF WInv, Pointer, SamePointer
<1>2. CASE w.action # "None"
  <2>1. f # 0 /\ w.windows[f].state = "Open"
    BY <1>2 DEF WInv, Pointer, is_open
  <2>2. f \in InUse(w) /\ w.windows[f].id = id /\ f \in Slots
    BY <2>1, FindFacts, SlotFacts DEF WInv
  <2>3. u.windows[f] = w.windows[f] /\ f \in InUse(u)
    BY <1>2, <2>1, <2>2 DEF InUse
  <2>4. find(u, id) = f
    BY <2>2, <2>3, FindFacts
  <2>5. is_open(u, id) /\ bounds_of(u, id) = bounds_of(w, id)
    BY <2>1, <2>3, <2>4 DEF is_open, bounds_of
  <2> QED
    BY <2>5 DEF WInv, Pointer, SamePointer
<1> QED
  BY <1>1, <1>2

LEMMA SameWindows ==
  ASSUME NEW w, WInv(w), NEW u, Shape(u), u.windows = w.windows, SamePointer(u, w)
  PROVE  WInv(u)
<1>1. Core(u)
  BY DEF WInv, Core, InUse
<1> QED
  BY <1>1, PointerKept

\* raise and focus leave the windows and the pointer alone.
LEMMA RaiseKeeps ==
  ASSUME NEW w, Shape(w), NEW id
  PROVE  /\ Shape(raise(w, id)) /\ raise(w, id).windows = w.windows
         /\ SamePointer(raise(w, id), w)
  BY DEF raise, Shape, SamePointer

LEMMA FocusKeeps ==
  ASSUME NEW w, Shape(w), NEW id
  PROVE  /\ Shape(focus(w, id)) /\ focus(w, id).windows = w.windows
         /\ SamePointer(focus(w, id), w)
<1> DEFINE v == [w EXCEPT !.focused = id]
<1>1. Shape(v) /\ v.windows = w.windows /\ SamePointer(v, w)
  BY DEF Shape, SamePointer
<1> HIDE DEF v
<1>2. /\ Shape(raise(v, id)) /\ raise(v, id).windows = v.windows
      /\ SamePointer(raise(v, id), v)
  BY <1>1, RaiseKeeps
<1>3. /\ Shape(raise(v, id)) /\ raise(v, id).windows = w.windows
      /\ SamePointer(raise(v, id), w)
  BY <1>1, <1>2 DEF SamePointer
<1>4. SamePointer(w, w)
  BY DEF SamePointer
<1>5. focus(w, id) = raise(v, id) \/ focus(w, id) = w
  BY DEF focus, v
<1> QED
  BY <1>3, <1>4, <1>5

LEMMA FocusInv ==
  ASSUME NEW w, WInv(w), NEW id
  PROVE  WInv(focus(w, id)) /\ focus(w, id).windows = w.windows
<1>1. Shape(w)
  BY DEF WInv
<1> QED
  BY <1>1, FocusKeeps, SameWindows

LEMMA EndInv ==
  ASSUME NEW w, WInv(w)
  PROVE  WInv(end_pointer_action(w)) /\ end_pointer_action(w).windows = w.windows
<1> DEFINE u == end_pointer_action(w)
<1>1. /\ Shape(u) /\ u.windows = w.windows /\ u.action = "None" /\ u.start = w.start
  BY DEF WInv, Shape, end_pointer_action
<1> HIDE DEF u
<1>2. Core(u)
  BY <1>1 DEF WInv, Core, InUse
<1>3. WInv(u)
  BY <1>1, <1>2 DEF WInv, Pointer
<1> QED
  BY <1>1, <1>3 DEF u

LEMMA BeginInv ==
  ASSUME NEW w, WInv(w), NEW id, is_open(w, id), NEW p \in Points,
         NEW action \in {"Drag", "Resize"}
  PROVE  WInv(begin_pointer_action(w, action, id, p))
<1> DEFINE v == focus(w, id)
           u == begin_pointer_action(w, action, id, p)
<1>1. WInv(v) /\ v.windows = w.windows
  BY FocusInv
<1>2. u = [v EXCEPT !.action = action, !.pointer_window = id, !.start = p,
                    !.start_bounds = bounds_of(w, id)]
  BY DEF begin_pointer_action
<1> HIDE DEF v, u
<1>3. /\ Shape(u) /\ u.windows = w.windows /\ u.action = action /\ u.pointer_window = id
      /\ u.start = p /\ u.start_bounds = bounds_of(w, id)
  BY <1>1, <1>2 DEF WInv, Shape
<1>4. Core(u)
  BY <1>3 DEF WInv, Core, InUse
<1>5. is_open(u, id) /\ bounds_of(u, id) = bounds_of(w, id)
  BY <1>3 DEF is_open, bounds_of, find, InUse
<1>6. bounds_of(w, id) \in FitRects
  <2>1. Core(w) /\ find(w, id) # 0
    BY DEF WInv, is_open
  <2>2. w.windows[find(w, id)] \in LiveWindows
    BY <2>1, FindFacts, SlotFacts
  <2> QED
    BY <2>2 DEF bounds_of, LiveWindows
<1>7. WInv(u)
  BY <1>3, <1>4, <1>5, <1>6 DEF WInv, Pointer
<1> QED
  BY <1>7 DEF u

\* A window in use is replaced by one with the same id.
LEMMA ReplaceCore ==
  ASSUME NEW w, Core(w), NEW slot \in InUse(w), NEW v \in LiveWindows,
         v.id = w.windows[slot].id,
         NEW u, u.windows = [w.windows EXCEPT ![slot] = v]
  PROVE  Core(u) /\ InUse(u) = InUse(w)
<1>1. slot \in Slots /\ v.state # "Closed" /\ w.windows[slot].state # "Closed"
  BY DEF InUse, LiveWindows
<1>2. u.windows \in [Slots -> LiveWindows \cup {ClosedSlot}]
  BY Zenon DEF Core
<1>3. \A i \in Slots : u.windows[i] = IF i = slot THEN v ELSE w.windows[i]
  BY DEF Core
<1>4. InUse(u) = InUse(w)
  BY <1>1, <1>3 DEF InUse
<1>5. \A i \in InUse(u) : u.windows[i].id = w.windows[i].id
  BY <1>3, <1>4 DEF InUse
<1> QED
  BY <1>2, <1>4, <1>5 DEF Core

LEMMA MoveInv ==
  ASSUME NEW w, WInv(w), NEW p \in Points
  PROVE  WInv(pointer_move(w, p))
<1> DEFINE id == w.pointer_window
           slot == find(w, id)
           u == pointer_move(w, p)
<1>1. CASE ~is_open(w, id)
  <2>1. u = end_pointer_action(w)
    BY <1>1 DEF pointer_move
  <2> QED
    BY <2>1, EndInv
<1>2. CASE is_open(w, id) /\ w.action \in {"Drag", "Resize"}
  <2>1. /\ Core(w) /\ Shape(w) /\ w.start \in Points /\ w.start_bounds \in FitRects
        /\ slot # 0 /\ w.windows[slot].state = "Open"
    BY <1>2 DEF WInv, Pointer, is_open
  <2>2. slot \in InUse(w) /\ w.windows[slot] \in LiveWindows /\ slot \in Slots
        /\ w.windows[slot].id = id
    BY <2>1, FindFacts, SlotFacts
  <2> DEFINE b == w.windows[slot].bounds
             c == IF w.action = "Drag" THEN dragged(w, p) ELSE resized(w, b, p)
             v == [w.windows[slot] EXCEPT !.bounds = c]
  <2>3. c \in FitRects /\ (w.action = "Resize" => c.x = w.start_bounds.x /\ c.y = w.start_bounds.y)
    <3>1. b \in FitRects
      BY <2>2 DEF LiveWindows
    <3>2. CASE w.action = "Drag"
      BY <2>1, <3>2, DragFits
    <3>3. CASE w.action = "Resize"
      <4>1. b.x = w.start_bounds.x /\ b.y = w.start_bounds.y
        BY <3>3 DEF WInv, Pointer, bounds_of
      <4>2. /\ resized(w, b, p) \in FitRects
            /\ resized(w, b, p).x = b.x /\ resized(w, b, p).y = b.y
        BY <2>1, <3>1, <4>1, ResizeFits
      <4> QED
        BY <3>3, <4>1, <4>2
    <3> QED
      BY <1>2, <3>2, <3>3
  <2>4. u = [w EXCEPT !.windows = [w.windows EXCEPT ![slot] = v]]
    <3>1. CASE w.action = "Drag"
      <4>1. u = set_bounds(w, slot, dragged(w, p)) /\ c = dragged(w, p)
        BY <1>2, <3>1, Zenon DEF pointer_move
      <4> HIDE DEF u, c
      <4> QED
        BY <4>1 DEF set_bounds
    <3>2. CASE w.action = "Resize"
      <4>1. w.action # "Drag"
        BY <3>2
      <4>2. u = set_bounds(w, slot, resized(w, b, p)) /\ c = resized(w, b, p)
        BY <1>2, <3>2, <4>1, Zenon DEF pointer_move
      <4> HIDE DEF u, c
      <4> QED
        BY <4>2 DEF set_bounds
    <3> QED
      BY <1>2, <3>1, <3>2
  <2> HIDE DEF c, u
  <2>5. /\ Shape(u) /\ SamePointer(u, w) /\ u.windows = [w.windows EXCEPT ![slot] = v]
    BY <2>1, <2>4 DEF Shape, SamePointer
  <2>6. v \in LiveWindows /\ v.id = w.windows[slot].id /\ v.state = "Open" /\ v.bounds = c
    BY <2>1, <2>2, <2>3 DEF LiveWindows
  <2> HIDE DEF v
  <2>7. Core(u) /\ InUse(u) = InUse(w)
    BY <2>1, <2>2, <2>5, <2>6, ReplaceCore
  <2>8. u.windows[slot] = v
    BY <2>1, <2>2, <2>5 DEF Core
  <2>9. find(u, id) = slot
    BY <2>2, <2>6, <2>7, <2>8, FindFacts
  <2>10. is_open(u, id) /\ bounds_of(u, id) = c
    BY <2>1, <2>6, <2>8, <2>9 DEF is_open, bounds_of
  <2>11. Pointer(u)
    BY <2>3, <2>5, <2>10 DEF WInv, Pointer, SamePointer
  <2>12. WInv(u)
    BY <2>5, <2>7, <2>11 DEF WInv
  <2> QED
    BY <2>12 DEF u
<1>3. CASE is_open(w, id) /\ w.action = "None"
  BY <1>3 DEF pointer_move
<1> QED
  BY <1>1, <1>2, <1>3 DEF WInv, Pointer

\* A slot other than the pointer's window changes.
LEMMA OtherSlot ==
  ASSUME NEW w, WInv(w), NEW slot \in Slots, NEW v,
         w.action # "None" => find(w, w.pointer_window) # slot,
         NEW u, Shape(u), Core(u), SamePointer(u, w),
         u.windows = [w.windows EXCEPT ![slot] = v]
  PROVE  WInv(u)
<1>1. ASSUME w.action # "None"
      PROVE  u.windows[find(w, w.pointer_window)] = w.windows[find(w, w.pointer_window)]
  <2>1. Core(w) /\ find(w, w.pointer_window) # 0
    BY <1>1 DEF WInv, Pointer, is_open
  <2>2. find(w, w.pointer_window) \in Slots
    BY <2>1, FindFacts, SlotFacts
  <2> QED
    BY <1>1, <2>1, <2>2 DEF Core
<1> QED
  BY <1>1, PointerKept, Zenon

\* The pointer's window is the one with its id.
LEMMA PointerSlot ==
  ASSUME NEW w, WInv(w), NEW id, w.action # "None", find(w, w.pointer_window) = find(w, id)
  PROVE  w.pointer_window = id
<1>1. Core(w) /\ find(w, w.pointer_window) # 0
  BY DEF WInv, Pointer, is_open
<1> QED
  BY <1>1, FindFacts

\* Windows and pointer after a window was hidden or closed.
LEMMA DropInv ==
  ASSUME NEW w, WInv(w), NEW id, find(w, id) # 0, NEW v,
         NEW u, Shape(u), Core(u), SamePointer(u, w),
         u.windows = [w.windows EXCEPT ![find(w, id)] = v]
  PROVE  WInv(drop_pointer(u, id)) /\ drop_pointer(u, id).windows = u.windows
<1>1. u.pointer_window = w.pointer_window /\ u.action = w.action /\ u.start = w.start
  BY DEF SamePointer
<1>2. CASE u.pointer_window = id
  <2> DEFINE e == end_pointer_action(u)
  <2>1. Shape(e) /\ e.windows = u.windows /\ e.action = "None" /\ e.start = u.start
    BY DEF Shape, end_pointer_action
  <2> HIDE DEF e
  <2>2. Core(e)
    BY <2>1 DEF Core, InUse
  <2>3. WInv(e)
    BY <1>1, <2>1, <2>2 DEF WInv, Pointer
  <2> QED
    BY <1>2, <2>1, <2>3 DEF drop_pointer, e
<1>3. CASE u.pointer_window # id
  <2>1. find(w, id) \in Slots
    BY FindFacts, SlotFacts DEF WInv
  <2>2. w.action # "None" => find(w, w.pointer_window) # find(w, id)
    BY <1>1, <1>3, PointerSlot
  <2>3. WInv(u)
    BY <2>1, <2>2, OtherSlot
  <2> QED
    BY <1>3, <2>3 DEF drop_pointer
<1> QED
  BY <1>2, <1>3

LEMMA DropFocusInv ==
  ASSUME NEW w, WInv(w), NEW id
  PROVE  WInv(drop_focus(w, id))
<1> DEFINE u == [w EXCEPT !.focused = highest_open_window(w)]
<1>1. Shape(u) /\ u.windows = w.windows /\ SamePointer(u, w)
  BY DEF WInv, Shape, SamePointer
<1> HIDE DEF u
<1>2. WInv(u)
  BY <1>1, SameWindows
<1> QED
  BY <1>2 DEF drop_focus, u

LEMMA MinimizeInv ==
  ASSUME NEW w, WInv(w), NEW id
  PROVE  WInv(minimize(w, id))
<1> SUFFICES ASSUME minimize_ok(w, id) PROVE WInv(minimize(w, id))
  BY DEF minimize
<1> DEFINE slot == find(w, id)
           old == w.windows[slot]
           v == [old EXCEPT !.restore_bounds = old.bounds, !.state = "Minimized"]
           u == [w EXCEPT !.windows[slot].restore_bounds = w.windows[slot].bounds,
                          !.windows[slot].state = "Minimized"]
<1>1. Core(w) /\ Shape(w) /\ slot # 0
  BY DEF WInv, minimize_ok, is_open
<1>2. slot \in InUse(w) /\ slot \in Slots /\ old \in LiveWindows
  BY <1>1, FindFacts, SlotFacts
<1>3. v \in LiveWindows /\ v.id = old.id
  BY <1>2, Zenon DEF LiveWindows
<1>4. Shape(u) /\ SamePointer(u, w) /\ u.windows = [w.windows EXCEPT ![slot] = v]
  BY <1>1, <1>2, Zenon DEF Shape, SamePointer, Core
<1>5. minimize(w, id) = drop_focus(drop_pointer(u, id), id)
  BY DEF minimize
<1> HIDE DEF u, v
<1>6. Core(u)
  BY <1>1, <1>2, <1>3, <1>4, ReplaceCore
<1>7. WInv(drop_pointer(u, id))
  BY <1>1, <1>4, <1>6, DropInv
<1> QED
  BY <1>5, <1>7, DropFocusInv

LEMMA RestoreInv ==
  ASSUME NEW w, WInv(w), NEW id
  PROVE  WInv(restore(w, id))
<1> SUFFICES ASSUME is_minimized(w, id) PROVE WInv(restore(w, id))
  BY DEF restore
<1> DEFINE slot == find(w, id)
           old == w.windows[slot]
           v == [old EXCEPT !.bounds = old.restore_bounds, !.state = "Open"]
           u == [w EXCEPT !.windows[slot].bounds = w.windows[slot].restore_bounds,
                          !.windows[slot].state = "Open"]
<1>1. Core(w) /\ Shape(w) /\ slot # 0 /\ old.state = "Minimized"
  BY DEF WInv, is_minimized
<1>2. slot \in InUse(w) /\ slot \in Slots /\ old \in LiveWindows
  BY <1>1, FindFacts, SlotFacts
<1>3. v \in LiveWindows /\ v.id = old.id
  BY <1>2, Zenon DEF LiveWindows
<1>4. Shape(u) /\ SamePointer(u, w) /\ u.windows = [w.windows EXCEPT ![slot] = v]
  BY <1>1, <1>2, Zenon DEF Shape, SamePointer, Core
<1>5. restore(w, id) = focus(u, id)
  BY DEF restore
<1> HIDE DEF u, v
<1>6. Core(u)
  BY <1>1, <1>2, <1>3, <1>4, ReplaceCore
<1>7. w.action # "None" => find(w, w.pointer_window) # slot
  BY <1>1 DEF WInv, Pointer, is_open
<1>8. WInv(u)
  BY <1>2, <1>4, <1>6, <1>7, OtherSlot
<1> QED
  BY <1>5, <1>8, FocusInv

LEMMA CloseInv ==
  ASSUME NEW w, WInv(w), NEW id
  PROVE  WInv(close(w, id))
<1> SUFFICES ASSUME close_ok(w, id) PROVE WInv(close(w, id))
  BY DEF close
<1> DEFINE slot == find(w, id)
           u == [w EXCEPT !.windows[slot] = ClosedSlot]
           d == drop_pointer(u, id)
           c == [d EXCEPT !.z = compact_z(InUse(u), [w.z EXCEPT ![slot] = 0])]
<1>1. Core(w) /\ Shape(w) /\ slot # 0
  BY DEF WInv, close_ok
<1>2. slot \in InUse(w) /\ slot \in Slots
  BY <1>1, FindFacts, SlotFacts
<1>3. Shape(u) /\ SamePointer(u, w) /\ u.windows = [w.windows EXCEPT ![slot] = ClosedSlot]
  BY <1>1 DEF Shape, SamePointer
<1>4. close(w, id) = drop_focus(c, id)
  BY DEF close
<1> HIDE DEF u
<1>5. Core(u)
  <2>1. u.windows \in [Slots -> LiveWindows \cup {ClosedSlot}]
    BY <1>1, <1>2, <1>3 DEF Core
  <2>2. \A i \in InUse(u) : i \in InUse(w) /\ u.windows[i] = w.windows[i]
    BY <1>1, <1>2, <1>3 DEF Core, InUse, ClosedSlot
  <2> QED
    BY <1>1, <2>1, <2>2 DEF Core
<1>6. WInv(d)
  BY <1>1, <1>3, <1>5, DropInv
<1> HIDE DEF d
<1>7. Shape(c) /\ c.windows = d.windows /\ SamePointer(c, d)
  BY <1>6 DEF WInv, Shape, SamePointer
<1> HIDE DEF c
<1>8. WInv(c)
  BY <1>6, <1>7, SameWindows
<1> QED
  BY <1>4, <1>8, DropFocusInv

LEMMA AddInv ==
  ASSUME NEW w, WInv(w), NEW id \in Apps, NEW b \in Rects
  PROVE  WInv(add_window(w, id, b, TRUE, TRUE))
<1> SUFFICES ASSUME add_window_ok(w, id) PROVE WInv(add_window(w, id, b, TRUE, TRUE))
  BY DEF add_window
<1> DEFINE slot == CHOOSE i \in free_slots(w) : \A j \in free_slots(w) : i <= j
           v == [id |-> id, state |-> "Open", bounds |-> clamp_bounds(b),
                 restore_bounds |-> clamp_bounds(b), resizable |-> TRUE, closable |-> TRUE]
           u == [w EXCEPT !.windows[slot] = v, !.z[slot] = Cardinality(InUse(w)), !.focused = id]
<1>1. Core(w) /\ Shape(w) /\ find(w, id) = 0
  BY DEF WInv, add_window_ok
<1>2. slot \in free_slots(w)
  <2>1. free_slots(w) \subseteq Nat /\ free_slots(w) # {}
    BY DEF add_window_ok, free_slots, Slots
  <2>2. \E i \in free_slots(w) : \A j \in free_slots(w) : i <= j
    BY <2>1, Least
  <2> QED
    BY <2>2
<1>3. add_window(w, id, b, TRUE, TRUE) = raise(u, id)
  BY DEF add_window
<1> HIDE DEF slot
<1>4. slot \in Slots /\ slot \notin InUse(w)
  BY <1>2 DEF free_slots
<1>5. v \in LiveWindows
  BY ClampFits DEF LiveWindows
<1>6. v.id = id /\ v.state = "Open"
  OBVIOUS
<1> HIDE DEF v
<1>7. Shape(u) /\ SamePointer(u, w) /\ u.windows = [w.windows EXCEPT ![slot] = v]
  BY <1>1 DEF Shape, SamePointer
<1> HIDE DEF u
<1>8. Core(u)
  <2>1. u.windows \in [Slots -> LiveWindows \cup {ClosedSlot}]
    BY <1>1, <1>4, <1>5, <1>7 DEF Core
  <2>2. \A i \in InUse(w) : w.windows[i].id # id
    BY <1>1, FindFacts, SlotFacts
  <2>3. u.windows[slot] = v
    BY <1>1, <1>4, <1>7 DEF Core
  <2>4. \A i \in InUse(u) : i = slot \/ (i \in InUse(w) /\ u.windows[i] = w.windows[i])
    BY <1>1, <1>4, <1>7 DEF Core, InUse
  <2> QED
    BY <1>1, <1>6, <2>1, <2>2, <2>3, <2>4 DEF Core
<1>9. w.action # "None" => find(w, w.pointer_window) # slot
  <2> SUFFICES ASSUME w.action # "None" PROVE find(w, w.pointer_window) \in InUse(w)
    BY <1>4
  <2> QED
    BY <1>1, FindFacts DEF WInv, Pointer, is_open
<1>10. WInv(u)
  BY <1>4, <1>7, <1>8, <1>9, OtherSlot
<1>11. WInv(raise(u, id))
  BY <1>7, <1>10, RaiseKeeps, SameWindows
<1> QED
  BY <1>3, <1>11, Zenon

LEMMA ActivateInv ==
  ASSUME NEW w, WInv(w), NEW id \in Apps
  PROVE  WInv(activate_window(w, id))
<1>1. WInv(restore(w, id)) /\ WInv(focus(w, id))
  BY RestoreInv, FocusInv
<1>2. default_bounds[id] \in Rects
  BY LayoutAssumption DEF Rects
<1>3. WInv(add_window(w, id, default_bounds[id], TRUE, TRUE))
  BY <1>2, AddInv, Zenon
<1>4. WInv(focus(add_window(w, id, default_bounds[id], TRUE, TRUE), id))
  BY <1>3, FocusInv, Zenon
<1> QED
  BY <1>1, <1>4, Zenon DEF activate_window

-----------------------------------------------------------------------------
(* The desktop's state.                                                    *)

LEMMA InvalidateInv ==
  ASSUME NEW s, SInv(s), NEW rect
  PROVE  /\ SInv(invalidate(s, rect)) /\ invalidate(s, rect).windows = s.windows
         /\ invalidate(s, rect).mouse_position = s.mouse_position
<1> DEFINE t == invalidate(s, rect)
<1>1. /\ DOMAIN t = DOMAIN s /\ t.windows = s.windows /\ t.mouse_position = s.mouse_position
  BY DEF SInv, invalidate
<1> HIDE DEF t
<1>2. SInv(t)
  BY <1>1 DEF SInv
<1> QED
  BY <1>1, <1>2 DEF t

LEMMA InvalidateWindowInv ==
  ASSUME NEW s, SInv(s), NEW id
  PROVE  /\ SInv(invalidate_window(s, id)) /\ invalidate_window(s, id).windows = s.windows
  BY InvalidateInv DEF invalidate_window

LEMMA InvalidatePanelInv ==
  ASSUME NEW s, SInv(s)
  PROVE  SInv(invalidate_panel(s)) /\ invalidate_panel(s).windows = s.windows
  BY InvalidateInv DEF invalidate_panel

LEMMA SetWindowsInv ==
  ASSUME NEW s, SInv(s), NEW w, WInv(w)
  PROVE  SInv([s EXCEPT !.windows = w]) /\ [s EXCEPT !.windows = w].windows = w
<1> DEFINE t == [s EXCEPT !.windows = w]
<1>1. DOMAIN t = DOMAIN s /\ t.windows = w /\ t.mouse_position = s.mouse_position
  BY DEF SInv
<1> HIDE DEF t
<1>2. SInv(t)
  BY <1>1 DEF SInv
<1> QED
  BY <1>1, <1>2 DEF t

LEMMA FocusRuntimeInv ==
  ASSUME NEW s, SInv(s), NEW id
  PROVE  SInv(focus_runtime_window(s, id))
<1> DEFINE old == invalidate_window(s, s.windows.focused)
           w == focus(s.windows, id)
           t == [old EXCEPT !.windows = w]
           r == invalidate_window(t, id)
<1>1. SInv(old)
  BY InvalidateWindowInv
<1>2. WInv(w)
  BY FocusInv DEF SInv
<1>3. focus_runtime_window(s, id) \in {s, old, invalidate_panel(r)}
  BY DEF focus_runtime_window
<1> HIDE DEF old, w
<1>4. SInv(t)
  BY <1>1, <1>2, SetWindowsInv
<1> HIDE DEF t
<1>5. SInv(invalidate_panel(r))
  BY <1>4, InvalidateWindowInv, InvalidatePanelInv
<1> QED
  BY <1>1, <1>3, <1>5

LEMMA ActivateRuntimeInv ==
  ASSUME NEW s, SInv(s), NEW id \in Apps
  PROVE  SInv(activate_runtime_window(s, id))
<1> DEFINE old == invalidate_window(s, s.windows.focused)
           w == activate_window(s.windows, id)
           t == [old EXCEPT !.windows = w]
           r == invalidate_window(t, id)
<1>1. SInv(old)
  BY InvalidateWindowInv
<1>2. WInv(w)
  BY ActivateInv DEF SInv
<1>3. activate_runtime_window(s, id) \in {old, invalidate_panel(r)}
  BY DEF activate_runtime_window
<1> HIDE DEF old, w
<1>4. SInv(t)
  BY <1>1, <1>2, SetWindowsInv
<1> HIDE DEF t
<1>5. SInv(invalidate_panel(r))
  BY <1>4, InvalidateWindowInv, InvalidatePanelInv
<1> QED
  BY <1>1, <1>3, <1>5

\* A field that windows do not depend on.
LEMMA FieldInv ==
  ASSUME NEW s, SInv(s), NEW b
  PROVE  /\ SInv([s EXCEPT !.menu_open = b]) /\ SInv([s EXCEPT !.left_down = b])
         /\ SInv([s EXCEPT !.pointer_window = b]) /\ SInv([s EXCEPT !.dirty = b])
  BY DEF SInv

LEMMA MenuItem ==
  ASSUME NEW p \in Points, contains(menu_bounds, p)
  PROVE  menu_item(p) \in Apps
<1> DEFINE n == (p.y - kPanelHeight) \div kMenuItemHeight
<1>1. p.y - kPanelHeight \in Nat /\ kMenuItemHeight \in Nat \ {0}
  BY ScreenAssumption, LayoutAssumption DEF contains, menu_bounds, Rect, Points
<1>2. n \in Nat
  BY <1>1
<1> HIDE DEF n
<1>3. smaller(n, 2) + 1 \in 1 .. 3
  BY <1>2 DEF smaller
<1> QED
  BY <1>3 DEF menu_item, n, Apps, Terminal, SystemInfo, FileManager

LEMMA PanelInv ==
  ASSUME NEW s, SInv(s), NEW hit, NEW p
  PROVE  SInv(panel_click(s, hit, p).state)
<1> DEFINE at == task_window_at(s.windows, p)
<1>1. SInv(open_menu(s))
  BY FieldInv, InvalidatePanelInv, InvalidateInv, Zenon DEF open_menu
<1>2. SInv(activate_runtime_window(s, Terminal)) /\ SInv(activate_runtime_window(s, SystemInfo))
  BY ActivateRuntimeInv DEF Apps
<1>3. at # {} => SInv(activate_runtime_window(s, CHOOSE id \in at : TRUE))
  <2> SUFFICES ASSUME at # {} PROVE SInv(activate_runtime_window(s, CHOOSE id \in at : TRUE))
    OBVIOUS
  <2>1. (CHOOSE id \in at : TRUE) \in Apps
    <3>1. at \subseteq Apps
      BY DEF task_window_at
    <3> HIDE DEF at
    <3> QED
      BY <3>1
  <2> QED
    BY <2>1, ActivateRuntimeInv
<1>4. panel_click(s, hit, p).state \in
        {s, open_menu(s), activate_runtime_window(s, Terminal),
         activate_runtime_window(s, SystemInfo)}
        \cup {activate_runtime_window(s, CHOOSE id \in at : TRUE) : x \in {y \in {0} : at # {}}}
  BY DEF panel_click, Handled
<1> QED
  BY <1>1, <1>2, <1>3, <1>4

LEMMA PanelOrMenuInv ==
  ASSUME NEW s, SInv(s), NEW p \in Points
  PROVE  SInv(handle_panel_or_menu_click(s, p).state)
<1> DEFINE hit == panel_hit(p)
<1>1. SInv(close_menu(s))
  BY FieldInv, InvalidateInv, Zenon DEF close_menu
<1>2. contains(menu_bounds, p) => SInv(activate_runtime_window(close_menu(s), menu_item(p)))
  BY <1>1, MenuItem, ActivateRuntimeInv
<1>3. SInv(invalidate_panel(close_menu(s)))
  BY <1>1, InvalidatePanelInv
<1>4. SInv(panel_click(s, hit, p).state) /\ SInv(panel_click(close_menu(s), hit, p).state)
  BY <1>1, PanelInv
<1> QED
  BY <1>2, <1>3, <1>4 DEF handle_panel_or_menu_click, Handled

LEMMA VacatedInv ==
  ASSUME NEW s, SInv(s), NEW id, NEW w, WInv(w)
  PROVE  SInv(vacated(s, id, w))
<1> DEFINE t == invalidate(s, bounds_of(s.windows, id))
           after == [t EXCEPT !.windows = w]
<1>1. SInv(t)
  BY InvalidateInv
<1> HIDE DEF t
<1>2. SInv(after)
  BY <1>1, SetWindowsInv
<1> HIDE DEF after
<1>3. SInv(invalidate_panel(invalidate_window(after, w.focused)))
  BY <1>2, InvalidateWindowInv, InvalidatePanelInv
<1> QED
  BY <1>3 DEF vacated, after, t

LEMMA GrabInv ==
  ASSUME NEW s, SInv(s), NEW id, NEW w, WInv(w)
  PROVE  SInv(grab(s, id, w))
<1> DEFINE t == [s EXCEPT !.windows = w]
<1>1. SInv(t)
  BY SetWindowsInv
<1>2. grab(s, id, w) = [t EXCEPT !.pointer_window = id]
  BY DEF grab
<1> HIDE DEF t
<1>3. SInv([t EXCEPT !.pointer_window = id])
  BY <1>1, FieldInv, Zenon
<1> QED
  BY <1>2, <1>3

LEMMA WindowDownInv ==
  ASSUME NEW s, SInv(s), NEW p \in Points
  PROVE  SInv(handle_window_mouse_down(s, p).state)
<1> DEFINE id == hit_test(s.windows, p)
           r == focus_runtime_window(s, id)
           w == r.windows
<1>1. SInv(r) /\ WInv(w) /\ WInv(s.windows)
  BY FocusRuntimeInv DEF SInv
<1>2. SInv(vacated(s, id, close(s.windows, id))) /\ SInv(vacated(s, id, minimize(s.windows, id)))
  BY <1>1, CloseInv, MinimizeInv, VacatedInv
<1>3. begin_resize_ok(w, id) => SInv(grab(r, id, begin_resize(w, id, p)))
  <2> SUFFICES ASSUME begin_resize_ok(w, id) PROVE SInv(grab(r, id, begin_resize(w, id, p)))
    OBVIOUS
  <2> HIDE DEF r
  <2>1. WInv(begin_pointer_action(w, "Resize", id, p))
    BY <1>1, BeginInv DEF begin_resize_ok
  <2>2. begin_resize(w, id, p) = begin_pointer_action(w, "Resize", id, p)
    BY DEF begin_resize
  <2> QED
    BY <1>1, <2>1, <2>2, GrabInv
<1>4. begin_drag_ok(w, id) => SInv(grab(r, id, begin_drag(w, id, p)))
  <2> SUFFICES ASSUME begin_drag_ok(w, id) PROVE SInv(grab(r, id, begin_drag(w, id, p)))
    OBVIOUS
  <2> HIDE DEF r
  <2>1. WInv(begin_pointer_action(w, "Drag", id, p))
    BY <1>1, BeginInv DEF begin_drag_ok
  <2>2. begin_drag(w, id, p) = begin_pointer_action(w, "Drag", id, p)
    BY DEF begin_drag
  <2> QED
    BY <1>1, <2>1, <2>2, GrabInv
<1>5. \A t, b : Handled(t, b).state = t
  BY DEF Handled
<1> DEFINE h == handle_window_mouse_down(s, p)
<1>6. \/ h = Handled(s, FALSE) \/ h = Handled(s, TRUE)
      \/ h = Handled(r, TRUE) \/ h = Handled(r, FALSE)
      \/ h = Handled(vacated(s, id, close(s.windows, id)), TRUE)
      \/ h = Handled(vacated(s, id, minimize(s.windows, id)), TRUE)
      \/ begin_resize_ok(w, id) /\ h = Handled(grab(r, id, begin_resize(w, id, p)), TRUE)
      \/ begin_drag_ok(w, id) /\ h = Handled(grab(r, id, begin_drag(w, id, p)), TRUE)
  <2> DEFINE window == s.windows.windows[find(s.windows, id)]
             hit == chrome_hit(window.bounds, p, window.resizable, window.closable)
  <2>1. h = IF id = 0 THEN Handled(s, FALSE) ELSE window_click(s, id, hit, p)
    BY DEF handle_window_mouse_down
  <2> HIDE DEF h, hit, id
  <2> QED
    BY <2>1, Zenon DEF window_click, frame_click
<1> HIDE DEF h, r, id
<1>7. ASSUME NEW t, SInv(t), h = Handled(t, TRUE) \/ h = Handled(t, FALSE) PROVE SInv(h.state)
  <2>1. h.state = t
    BY <1>5, <1>7, Zenon
  <2> QED
    BY <1>7, <2>1
<1>8. SInv(h.state)
  BY <1>1, <1>2, <1>3, <1>4, <1>6, <1>7, Zenon
<1> QED
  BY <1>8 DEF h

LEMMA DragStepInv ==
  ASSUME NEW s, SInv(s)
  PROVE  SInv(drag_step(s))
<1> DEFINE id == s.pointer_window
           old == IF find(s.windows, id) # 0 THEN invalidate(s, bounds_of(s.windows, id)) ELSE s
           w == pointer_move(s.windows, s.mouse_position)
           moved == [old EXCEPT !.windows = w]
<1>1. SInv(old)
  BY InvalidateInv
<1>2. WInv(w)
  BY MoveInv DEF SInv
<1>3. drag_step(s) = IF find(w, id) # 0 THEN invalidate(moved, bounds_of(w, id)) ELSE moved
  BY DEF drag_step
<1> HIDE DEF old, w
<1>4. SInv(moved)
  BY <1>1, <1>2, SetWindowsInv
<1> HIDE DEF moved
<1> QED
  BY <1>3, <1>4, InvalidateInv

LEMMA ReleaseInv ==
  ASSUME NEW s, SInv(s)
  PROVE  SInv(release(s))
<1> DEFINE t == [s EXCEPT !.windows = end_pointer_action(s.windows)]
<1>1. SInv(t)
  BY EndInv, SetWindowsInv DEF SInv
<1>2. release(s) = [t EXCEPT !.pointer_window = 0]
  BY DEF release
<1> HIDE DEF t
<1>3. SInv([t EXCEPT !.pointer_window = 0])
  BY <1>1, FieldInv, Zenon
<1> QED
  BY <1>2, <1>3

LEMMA ChromeInv ==
  ASSUME NEW s, SInv(s), NEW left
  PROVE  SInv(chrome_event(s, left).state)
<1> DEFINE done == IF left /\ ~s.left_down THEN mouse_down(s)
                   ELSE Handled(IF ~left /\ s.left_down THEN release(s)
                                ELSE IF left /\ s.pointer_window # 0 THEN drag_step(s)
                                ELSE s, FALSE)
           t == done.state
<1>1. SInv(mouse_down(s).state)
  <2> DEFINE panel == handle_panel_or_menu_click(s, s.mouse_position)
  <2>1. s.mouse_position \in Points
    BY DEF SInv
  <2>2. SInv(panel.state)
    BY <2>1, PanelOrMenuInv
  <2>3. SInv(handle_window_mouse_down(panel.state, s.mouse_position).state)
    BY <2>1, <2>2, WindowDownInv
  <2> QED
    BY <2>2, <2>3 DEF mouse_down, behind_panel
<1>2. SInv(t)
  BY <1>1, DragStepInv, ReleaseInv DEF Handled
<1>3. chrome_event(s, left) = with_button(done, left)
  BY DEF chrome_event
<1> HIDE DEF done
<1>4. chrome_event(s, left).state = [t EXCEPT !.left_down = left]
  BY <1>3 DEF with_button, Handled
<1> HIDE DEF t
<1>5. SInv([t EXCEPT !.left_down = left])
  BY <1>2, FieldInv, Zenon
<1> QED
  BY <1>4, <1>5

-----------------------------------------------------------------------------
(* The loop.                                                               *)

LEMMA FitInit == Init => SInv(state)
<1> SUFFICES ASSUME NEW b \in BOOLEAN PROVE SInv(Start(b))
  BY DEF Init
<1>1. WInv(NewWindowManager)
  <2> DEFINE w == NewWindowManager
  <2>1. /\ Shape(w) /\ w.windows = [i \in Slots |-> ClosedSlot] /\ w.action = "None"
        /\ w.start = Point(0, 0)
    BY DEF NewWindowManager, Shape
  <2> HIDE DEF w
  <2>2. InUse(w) = {} /\ w.start \in Points
    BY <2>1 DEF InUse, ClosedSlot, Point, Points
  <2>3. Core(w)
    BY <2>1, <2>2 DEF Core
  <2>4. WInv(w)
    BY <2>1, <2>2, <2>3 DEF WInv, Pointer
  <2> QED
    BY <2>4 DEF w
<1>2. \A id \in Apps : default_bounds[id] \in Rects
  BY LayoutAssumption DEF Rects
<1>3. Terminal \in Apps /\ SystemInfo \in Apps
  BY DEF Apps
<1>4. WInv(FirstWindows)
  BY <1>1, <1>2, <1>3, AddInv, FocusInv, Zenon DEF FirstWindows
<1>5. Point(kScreenWidth \div 2, kScreenHeight \div 2) \in Points
  BY ScreenAssumption DEF Point, Points
<1> QED
  BY <1>4, <1>5 DEF Start, SInv

LEMMA MouseEventInv ==
  ASSUME SInv(state), NEW target \in Points, NEW left, process_mouse_event(target, left)
  PROVE  SInv(state')
<1> DEFINE moved == [state EXCEPT !.mouse_position = clamp_cursor(target)]
           chrome == chrome_event(moved, left)
<1>1. clamp_cursor(target) \in Points
  BY ScreenAssumption, LayoutAssumption DEF clamp_cursor, clamp_value, Point, Points
<1>2. SInv(moved)
  BY <1>1 DEF SInv
<1>3. state' \in {chrome.state, invalidate(chrome.state,
                     bounds_of(chrome.state.windows, chrome.state.windows.focused))}
  <2>1. routed_to_app(chrome)
    BY DEF process_mouse_event
  <2> HIDE DEF chrome
  <2> QED
    BY <2>1 DEF routed_to_app
<1> HIDE DEF moved
<1>4. SInv(chrome.state)
  BY <1>2, ChromeInv
<1> HIDE DEF chrome
<1> QED
  BY <1>3, <1>4, InvalidateInv

LEMMA FitNext == SInv(state) /\ [Next]_vars => SInv(state')
<1> SUFFICES ASSUME SInv(state), [Next]_vars PROVE SInv(state')
  OBVIOUS
<1>1. CASE Poll
  BY <1>1, InvalidateWindowInv DEF Poll
<1>2. CASE \E target \in Targets : process_mouse_event(target, TRUE)
  BY <1>2, LayoutAssumption, MouseEventInv, Zenon DEF Points
<1>3. CASE \E target \in Targets : ~state.left_down /\ process_mouse_event(target, FALSE)
  BY <1>3, LayoutAssumption, MouseEventInv, Zenon DEF Points
<1>4. CASE state.left_down /\ process_mouse_event(state.mouse_position, FALSE)
  BY <1>4, MouseEventInv, Zenon DEF SInv
<1>5. CASE process_keyboard
  BY <1>5, InvalidateWindowInv DEF process_keyboard
<1>6. CASE redraw_dirty
  <2>1. PICK tick \in BOOLEAN :
          state' = [(IF tick THEN invalidate(state, status_bounds) ELSE state) EXCEPT !.dirty = <<>>]
    BY <1>6 DEF redraw_dirty
  <2>2. SInv(invalidate(state, status_bounds))
    BY InvalidateInv
  <2> QED
    BY <2>1, <2>2, FieldInv, Zenon
<1>7. CASE UNCHANGED state
  BY <1>7
<1> QED
  BY <1>1, <1>2, <1>3, <1>4, <1>5, <1>6, <1>7, Zenon DEF Next, wake, vars

\* Every window, minimized ones included, lies within the screen below the
\* panel and has at least the minimum size: WindowsFit, for every size of the
\* screen, every default bounds and however far the pointer drags.
THEOREM WindowsAlwaysFit == Spec => []WindowsFit
<1>1. SInv(state) => WindowsFit
  <2> SUFFICES ASSUME SInv(state), NEW i \in InUse(w0)
               PROVE  Fits(w0.windows[i].bounds) /\ Fits(w0.windows[i].restore_bounds)
    BY DEF WindowsFit
  <2>1. Core(w0)
    BY DEF SInv, WInv, w0
  <2>2. w0.windows[i] \in LiveWindows
    BY <2>1, SlotFacts
  <2> QED
    BY <2>2 DEF LiveWindows, FitRects
<1>2. SInv(state)' <=> SInv(state')
  BY DEF SInv, WInv, Shape, Core, Pointer, InUse, is_open, bounds_of, find
<1> QED
  BY <1>1, <1>2, FitInit, FitNext, PTL DEF Spec
=============================================================================
