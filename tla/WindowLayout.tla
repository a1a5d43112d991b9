---------------------------- MODULE WindowLayout ----------------------------
(***************************************************************************)
(* The windows of the simulators that share one X display                  *)
(* (slope_sim/window_layout.py and its two callers, the opening of         *)
(* manual_demo and apply_window_rect of the dashboard).  Each simulator    *)
(* lists the windows that already bear the public PyBullet title, opens    *)
(* its own, finds it among the others by the process that owns it, renames *)
(* it, and places it and its dashboard so that together they fill the      *)
(* available width.                                                        *)
(*                                                                         *)
(* Only the horizontal extent is kept: the vertical one is the whole of    *)
(* the available area for both windows.  Sizes are physical pixels, the    *)
(* device pixel ratio is a number of quarters, and a window's extents are  *)
(* the widths of its left and right borders together.  A window id is a    *)
(* slot of the X server, which gives a slot that was freed to the next     *)
(* client.  A poll that finds nothing new is a stuttering step, and every  *)
(* bounded wait may run out.                                               *)
(***************************************************************************)
EXTENDS Integers, FiniteSets

CONSTANTS
    Sims,               \* simulator processes
    Slots,              \* window ids of the X server
    Displays,           \* the screens they may meet
    DashboardMinWidth,
    DashboardMinMainWidth,
    Border              \* what a window manager adds to a width

ASSUME WindowLayoutAssumption ==
    /\ Slots \subseteq Nat \ {0}
    /\ {"nobody", "public", "none"} \cap Sims = {}
    /\ {DashboardMinWidth, DashboardMinMainWidth, Border} \subseteq Nat \ {0}

-----------------------------------------------------------------------------
(* Arithmetic of the layout. *)

(* A quotient n / d of naturals rounded half up, and as Python's round. *)
HalfUp(n, d) == (2 * n + d) \div (2 * d)
HalfEven(n, d) ==
    LET down == n \div d
    IN  IF 2 * (n % d) > d \/ (2 * (n % d) = d /\ down % 2 = 1) THEN down + 1 ELSE down

AtLeast(a, b) == IF a >= b THEN a ELSE b
AtMost(a, b) == IF a <= b THEN a ELSE b

Rect(x, width) == [x |-> x, width |-> width]
Right(r) == r.x + r.width

DashboardWidthFor(available) ==
    IF available >= DashboardMinWidth + DashboardMinMainWidth
    THEN AtLeast(DashboardMinWidth, HalfUp(2 * available, 5))
    ELSE HalfUp(2 * available, 5)

(* A result that may be an error is a set of at most one value. *)
CalculatedLayout(available) ==
    LET dashboard == DashboardWidthFor(available.width)
        main == available.width - dashboard
    IN  IF dashboard <= 0 THEN {}
        ELSE {[main |-> Rect(available.x, main), dashboard |-> Rect(available.x + main, dashboard)]}

(* Mutant: the layout is left as it was calculated. *)
Unaligned(layout, quarters) == {layout}

(* The dashboard's width becomes one that a whole number of logical pixels *)
(* gives; its right edge stays.                                            *)
AlignedLayout(layout, quarters) ==
    LET available == layout.main.width + layout.dashboard.width
        logical == AtLeast(1, HalfUp(4 * DashboardWidthFor(available), quarters))
        width == AtLeast(1, HalfUp(logical * quarters, 4))
        x == Right(layout.dashboard) - width
    IN  IF width >= available THEN {}
        ELSE {[main |-> Rect(layout.main.x, x - layout.main.x), dashboard |-> Rect(x, width)]}

(* The Qt client area, in logical pixels, of a window that shall fill      *)
(* outer; both kinds of pixels count from the left edge of the screen.     *)
LogicalClientRect(outer, edge, quarters, extents) ==
    LET left == HalfEven(4 * (outer.x - edge), quarters)
    IN  Rect(edge + left, HalfEven(4 * (Right(outer) - edge), quarters) - left - extents)

IntersectRect(a, b) ==
    LET x == AtLeast(a.x, b.x)
        right == AtMost(Right(a), Right(b))
    IN  IF right <= x THEN {} ELSE {Rect(x, right - x)}

(* The desktop's work area cut to the primary screen; a per-monitor area   *)
(* comes first, and without a window manager Qt's own answer stands.       *)
AvailableGeometry(d) ==
    LET monitors == UNION {IntersectRect(m, d.screen) : m \in d.monitors}
    IN  IF d.workarea = {} THEN {d.qtAvailable}
        ELSE IF monitors # {}
             THEN {CHOOSE m \in monitors : \A n \in monitors : n.width <= m.width}
             ELSE UNION {IntersectRect(w, d.screen) : w \in d.workarea}

(* What manual_demo computes before it opens a window. *)
LayoutOf(d) ==
    UNION {AlignedLayout(l, d.quarters) :
              l \in UNION {CalculatedLayout(a) : a \in AvailableGeometry(d)}}

-----------------------------------------------------------------------------
VARIABLES
    display,         \* the screen; it does not change
    windows,         \* PyBullet windows: slot -> window
    sims             \* simulator -> where its opening stands

windowVars == <<display, windows, sims>>

NoExtents == -1        \* no extents yet
FreeWindow == [owner |-> "nobody", title |-> "none", seen |-> FALSE, extents |-> NoExtents, placed |-> NoExtents]
NoDashboard == [shown |-> FALSE, extents |-> NoExtents, placed |-> NoExtents]

WindowInit ==
    /\ display \in Displays
    /\ windows = [w \in Slots |-> FreeWindow]
    /\ \E opening \in SUBSET Sims :
          sims = [s \in Sims |-> [pc |-> IF s \in opening THEN "none" ELSE "closed", excluded |-> {},
                                  found |-> {}, win |-> 0, previous |-> NoExtents, waits |-> FALSE,
                                  dashboard |-> NoDashboard]]

SimAt(s, pc) == sims[s].pc = pc
SimGoes(s, pc) == sims' = [sims EXCEPT ![s].pc = pc]
HasWm == display.workarea # {}

(* A framed window's extents, as xprop tells them; without one they are 0. *)
ExtentsRead(extents) == IF extents = NoExtents THEN 0 ELSE extents

(* The outer rectangle of a window that was given the client area of r     *)
(* when its extents were placed; an unplaced one is where it was opened.   *)
OuterRect(r, window) ==
    IF window.placed = NoExtents
    THEN Rect(0, r.width + ExtentsRead(window.extents))
    ELSE Rect(r.x, r.width - window.placed + ExtentsRead(window.extents))

TheLayout == CHOOSE l \in LayoutOf(display) : TRUE
MainRect(s) == OuterRect(TheLayout.main, windows[sims[s].win])

(* Qt turns the logical area it was given back into physical pixels. *)
DashboardRect(s) ==
    LET board == sims[s].dashboard
        edge == display.screen.x
        client == LogicalClientRect(TheLayout.dashboard, edge, display.quarters, board.placed)
    IN  IF board.placed = NoExtents
        THEN Rect(0, TheLayout.dashboard.width)
        ELSE Rect(edge + HalfUp((client.x - edge) * display.quarters, 4),
                  HalfUp((client.width + ExtentsRead(board.extents)) * display.quarters, 4))

-----------------------------------------------------------------------------
(* The opening of a simulator. *)
OpenSim(s) == SimAt(s, "none") /\ SimGoes(s, "layout") /\ UNCHANGED <<display, windows>>

(* The layout is computed before any window exists. *)
ComputeLayout(s) ==
    /\ SimAt(s, "layout")
    /\ SimGoes(s, IF LayoutOf(display) = {} THEN "failed" ELSE "search")
    /\ UNCHANGED <<display, windows>>

(* search_x11_window_ids, visible or not. *)
SearchExisting(s) ==
    /\ SimAt(s, "search")
    /\ sims' = [sims EXCEPT ![s].pc = "connect", ![s].excluded = {w \in Slots : windows[w].title = "public"}]
    /\ UNCHANGED <<display, windows>>

ConnectGui(s) ==
    /\ SimAt(s, "connect")
    /\ \/ /\ \E w \in Slots :
                /\ windows[w].owner = "nobody"
                /\ windows' = [windows EXCEPT ![w] = [FreeWindow EXCEPT !.owner = s, !.title = "public"]]
          /\ SimGoes(s, "find")
       \/ SimGoes(s, "failed") /\ UNCHANGED windows
    /\ UNCHANGED display

(* find_owned_x11_window: one search for the visible windows of the title  *)
(* that were not there before.                                             *)
SearchOwned(s) ==
    /\ SimAt(s, "find")
    /\ LET found == {w \in Slots \ sims[s].excluded : windows[w].title = "public" /\ windows[w].seen}
       IN  /\ found # {}
           /\ sims' = [sims EXCEPT ![s].pc = "query", ![s].found = found]
    /\ UNCHANGED <<display, windows>>

(* A window and the frame around it bear the same title. *)
Candidates(s) ==
    Cardinality(sims[s].found) + Cardinality({w \in sims[s].found : windows[w].extents # NoExtents})

(* Mutant: whatever window bears the title is taken. *)
QueryTitleOnly(s) ==
    /\ SimAt(s, "query")
    /\ \E w \in sims[s].found : sims' = [sims EXCEPT ![s].pc = "claim", ![s].win = w]
    /\ UNCHANGED <<display, windows>>

(* _resolve_x11_client_windows removes the frames, then XRes names the     *)
(* owner of each client.  A window that is gone by now makes the first     *)
(* start over (it asks only when there are several) and the second fail.   *)
(* The window's own _NET_WM_PID, when it has one, must agree.              *)
QueryOwners(s) ==
    /\ SimAt(s, "query")
    /\ LET found == sims[s].found
           gone == {w \in found : windows[w].owner = "nobody"}
           owned == {w \in found : windows[w].owner = s}
       IN  \/ gone # {} /\ Candidates(s) > 1 /\ SimGoes(s, "find")
           \/ gone # {} /\ SimGoes(s, "failed")
           \/ gone = {} /\ owned = {} /\ SimGoes(s, "find")
           \/ gone = {} /\ owned # {} /\ SimGoes(s, "failed")
           \/ gone = {} /\ \E w \in owned :
                 owned = {w} /\ sims' = [sims EXCEPT ![s].pc = "claim", ![s].win = w]
    /\ UNCHANGED <<display, windows>>

(* The public title goes; from here on only the id and the token are used. *)
ClaimWindow(s) ==
    /\ SimAt(s, "claim")
    /\ windows' = [windows EXCEPT ![sims[s].win].title = s]
    /\ sims' = [sims EXCEPT ![s].pc = "extents", ![s].previous = NoExtents, ![s].waits = FALSE]
    /\ UNCHANGED display

(* wait_for_x11_frame_extents: the same extents twice in a row; none at    *)
(* all are zero where no window manager runs.                              *)
ReadFrameExtents(s) ==
    /\ SimAt(s, "extents")
    /\ LET extents == windows[sims[s].win].extents
           previous == sims[s].previous
           stable == \/ extents # NoExtents /\ extents = previous
                     \/ extents = NoExtents /\ previous = NoExtents /\ ~sims[s].waits /\ ~HasWm
       IN  sims' = [sims EXCEPT ![s].pc = IF stable THEN "place" ELSE "extents",
                                ![s].previous = IF stable THEN ExtentsRead(extents) ELSE extents,
                                ![s].waits = @ \/ (extents = NoExtents /\ previous = NoExtents)]
    /\ UNCHANGED <<display, windows>>

(* Resize, then move; the window manager may do otherwise. *)
PlaceMain(s) ==
    /\ SimAt(s, "place")
    /\ IF TheLayout.main.width <= sims[s].previous
       THEN SimGoes(s, "failed") /\ UNCHANGED windows
       ELSE /\ SimGoes(s, "verify")
            /\ \E honoured \in BOOLEAN :
                  windows' = IF honoured
                             THEN [windows EXCEPT ![sims[s].win].placed = sims[s].previous]
                             ELSE windows
    /\ UNCHANGED display

(* _verify_window_geometry: the client area, with the extents read before. *)
VerifyMain(s) ==
    /\ SimAt(s, "verify")
    /\ OuterRect(TheLayout.main, [windows[sims[s].win] EXCEPT !.extents = sims[s].previous]) = TheLayout.main
    /\ SimGoes(s, "world")
    /\ UNCHANGED <<display, windows>>

(* The world is built, and the dashboard's window is shown. *)
ShowDashboard(s) ==
    /\ SimAt(s, "world")
    /\ sims' = [sims EXCEPT ![s].pc = "margins", ![s].previous = NoExtents, ![s].dashboard.shown = TRUE]
    /\ UNCHANGED <<display, windows>>

(* wait_for_dashboard_frame_extents: as above, but zero does not count. *)
ReadDashboardExtents(s) ==
    /\ SimAt(s, "margins")
    /\ LET extents == sims[s].dashboard.extents
           stable == ~HasWm \/ (extents > 0 /\ extents = sims[s].previous)
       IN  sims' = [sims EXCEPT ![s].pc = IF stable THEN "fit" ELSE "margins",
                                ![s].previous = IF extents <= 0 THEN IF HasWm THEN NoExtents ELSE 0 ELSE extents]
    /\ UNCHANGED <<display, windows>>

PlaceDashboard(s) ==
    /\ SimAt(s, "fit")
    /\ IF LogicalClientRect(TheLayout.dashboard, display.screen.x, display.quarters, sims[s].previous).width <= 0
       THEN SimGoes(s, "failed")
       ELSE \E honoured \in BOOLEAN :
               sims' = [sims EXCEPT ![s].pc = "outer",
                                    ![s].dashboard.placed = IF honoured THEN sims[s].previous ELSE @]
    /\ UNCHANGED <<display, windows>>

(* wait_for_x11_outer_geometry reads the extents again. *)
WaitOuterGeometry(s) ==
    /\ SimAt(s, "outer")
    /\ DashboardRect(s) = TheLayout.dashboard
    /\ SimGoes(s, "running")
    /\ UNCHANGED <<display, windows>>

(* A wait runs out, a command fails, or the world does not build. *)
OpeningFails(s) ==
    /\ sims[s].pc \in {"find", "query", "claim", "extents", "place", "verify", "world", "margins", "fit", "outer"}
    /\ SimGoes(s, "failed")
    /\ UNCHANGED <<display, windows>>

SimEnds(s) == SimAt(s, "running") /\ SimGoes(s, "ended") /\ UNCHANGED <<display, windows>>

(* The process ends and its windows go. *)
Disconnect(s) ==
    /\ sims[s].pc \in {"failed", "ended"}
    /\ windows' = [w \in Slots |-> IF windows[w].owner = s THEN FreeWindow ELSE windows[w]]
    /\ sims' = [sims EXCEPT ![s].pc = IF @ = "ended" THEN "closed" ELSE "crashed",
                            ![s].dashboard = NoDashboard]
    /\ UNCHANGED display

OpeningStep(s) ==
    \/ ComputeLayout(s) \/ SearchExisting(s) \/ ConnectGui(s) \/ SearchOwned(s) \/ QueryOwners(s)
    \/ ClaimWindow(s) \/ ReadFrameExtents(s) \/ PlaceMain(s) \/ VerifyMain(s) \/ ShowDashboard(s)
    \/ ReadDashboardExtents(s) \/ PlaceDashboard(s) \/ WaitOuterGeometry(s) \/ OpeningFails(s)
    \/ SimEnds(s) \/ Disconnect(s)

-----------------------------------------------------------------------------
(* The X server and the window manager: a window appears, is framed with   *)
(* provisional extents, and gets its border.                               *)
ShowWindow(w) ==
    /\ windows[w].owner # "nobody" /\ ~windows[w].seen
    /\ windows' = [windows EXCEPT ![w].seen = TRUE]
    /\ UNCHANGED <<display, sims>>

FrameWindow(w) ==
    /\ HasWm /\ windows[w].seen /\ windows[w].extents # Border
    /\ \E extents \in {0, Border} \ {windows[w].extents} : windows' = [windows EXCEPT ![w].extents = extents]
    /\ UNCHANGED <<display, sims>>

FrameDashboard(s) ==
    /\ HasWm /\ sims[s].dashboard.shown /\ sims[s].dashboard.extents # Border
    /\ \E extents \in {0, Border} \ {sims[s].dashboard.extents} :
          sims' = [sims EXCEPT ![s].dashboard.extents = extents]
    /\ UNCHANGED <<display, windows>>

XServer == (\E w \in Slots : ShowWindow(w) \/ FrameWindow(w)) \/ \E s \in Sims : FrameDashboard(s)

WindowNext == XServer \/ \E s \in Sims : OpenSim(s) \/ OpeningStep(s)

-----------------------------------------------------------------------------
WindowTypeOK ==
    /\ display \in Displays
    /\ \A w \in Slots : windows[w].owner \in Sims \cup {"nobody"} /\ windows[w].extents \in {NoExtents, 0, Border}
    /\ \A s \in Sims : sims[s].win \in Slots \cup {0} /\ sims[s].excluded \cup sims[s].found \subseteq Slots

(* From its claim on a simulator acts on a window of its own process, the  *)
(* only one that bears its name, and never on one that stood before it,    *)
(* however the ids of closed windows are given out again.                  *)
WindowsAreOwn ==
    /\ \A s \in Sims : sims[s].pc \in {"claim", "extents", "place", "verify", "world", "margins", "fit", "outer", "running"} =>
          /\ windows[sims[s].win].owner = s /\ sims[s].win \notin sims[s].excluded
          /\ sims[s].pc # "claim" => windows[sims[s].win].title = s
    /\ \A w \in Slots, s \in Sims : windows[w].title = s => windows[w].owner = s /\ sims[s].win = w
=============================================================================
