----------------------------- MODULE DriveGate -----------------------------
(***************************************************************************)
(* The acceptance of the interactive program                               *)
(* (verify_dashboard_manual_drive.py).  It starts one simulator, finds its *)
(* two windows among those of the display, checks with an arithmetic of    *)
(* its own that they fill the available width, holds the Up key while it   *)
(* walks twice through the tabs of the dashboard, reads after each         *)
(* ctrl-Tab the layout report that the dashboard appends to a file, and    *)
(* judges the motion by the log that the simulator leaves.                 *)
(*                                                                         *)
(* Tab 0 is a content page and the others are plots.  The geometry of a    *)
(* report is its two panes, with a set of faults of the rest.  A page is   *)
(* visited a numbered time, which only the properties read.  MaxData and   *)
(* MaxSamples bound the data that arrives and the rows of the log.         *)
(***************************************************************************)
EXTENDS WindowLayout, Sequences

CONSTANTS
    Child,           \* the simulator the gate starts
    LastTab,
    MaxData, MaxSamples,
    Heights,         \* of the dashboard's client area, in logical pixels
    FormalMinHeight,
    TitleHeight,
    Scales           \* device pixel ratios in quarters

ASSUME DriveGateAssumption ==
    /\ Child \in Sims
    /\ {LastTab, MaxData, MaxSamples, FormalMinHeight, TitleHeight} \cup Heights \subseteq Nat

Tabs == 0..LastTab

-----------------------------------------------------------------------------
(* The gate's own arithmetic. *)
ExpectedDashboardWidth(available, quarters) ==
    LET proportional == HalfUp(2 * available, 5)
        target == IF available >= DashboardMinWidth + DashboardMinMainWidth
                  THEN AtLeast(DashboardMinWidth, proportional) ELSE proportional
    IN  AtLeast(1, HalfUp(AtLeast(1, HalfUp(target * 4, quarters)) * quarters, 4))

(* validate_window_layout *)
ValidWindowLayout(available, main, dashboard, quarters) ==
    /\ ExpectedDashboardWidth(available.width, quarters) < available.width
    /\ Right(main) = dashboard.x
    /\ main.x = available.x /\ Right(dashboard) = Right(available)
    /\ dashboard.width = ExpectedDashboardWidth(available.width, quarters)

(* Mutant: position and size are mapped one by one. *)
ScaledRect(r, quarters) == Rect(HalfEven(r.x * quarters, 4), HalfEven(r.width * quarters, 4))

(* _dashboard_report_rect_to_x11: both edges are mapped, then subtracted. *)
PhysicalRect(r, quarters) ==
    LET left == HalfEven(r.x * quarters, 4)
    IN  Rect(left, HalfEven(Right(r) * quarters, 4) - left)

RectInside(inner, outer) == inner.x >= outer.x /\ Right(inner) <= Right(outer)
RectsOverlap(a, b) == AtLeast(a.x, b.x) < AtMost(Right(a), Right(b))

(* The title and the two panes of a window, from top to bottom; the upper  *)
(* pane is skew pixels higher than the lower one.                          *)
Panes(height, skew) ==
    LET below == 8 + TitleHeight + 6
        upper == (height - below - 6 - 8 + skew) \div 2
    IN  [title |-> Rect(8, TitleHeight), tabs |-> Rect(below, upper),
         controls |-> Rect(below + upper + 6, height - below - upper - 6 - 8)]

Near(a, b, tolerance) == a - b \in (-tolerance)..tolerance

(* The panes share the height, with 8 pixels of margin and 6 of spacing. *)
PanesFill(panes, height, quarters) ==
    LET title == PhysicalRect(panes.title, quarters)
        tabs == PhysicalRect(panes.tabs, quarters)
        controls == PhysicalRect(panes.controls, quarters)
        client == HalfEven(height * quarters, 4)
        margin == HalfEven(8 * quarters, 4)
        spacing == HalfEven(6 * quarters, 4)
        tolerance == AtLeast(1, (quarters + 3) \div 4)
    IN  /\ ~RectsOverlap(tabs, controls)
        /\ \A r \in {title, tabs, controls} : RectInside(r, Rect(0, client))
        /\ Near(tabs.width, controls.width, tolerance)
        /\ Near(title.x, margin, tolerance)
        /\ Near(tabs.x - Right(title), spacing, tolerance)
        /\ Near(controls.x - Right(tabs), spacing, tolerance)
        /\ Near(Right(controls), client - margin, tolerance)

-----------------------------------------------------------------------------
VARIABLES
    gate,            \* _run_verification
    keys,            \* the keyboard of the display, as xdotool left it
    board,           \* the dashboard of the child
    file,            \* its layout reports
    log              \* the rows of its log: was a command active

driveVars == <<windowVars, gate, keys, board, file, log>>
gateOnly == <<windowVars, board, file, log>>

DriveInit ==
    /\ WindowInit /\ SimAt(Child, "none")
    /\ \E tabs, layout \in BOOLEAN :
          /\ tabs => layout
          /\ gate = [pc |-> "start", tabs |-> tabs, layout |-> layout, main |-> 0, round |-> 1, tab |-> 0,
                     cursor |-> 0, first |-> <<>>, verified |-> FALSE, walked |-> FALSE, verdict |-> "none"]
    /\ keys = [up |-> FALSE, ctrl |-> FALSE]
    /\ \E height \in Heights :
          board = [height |-> height, tab |-> 0, visit |-> 1, pending |-> 0, data |-> 0,
                   rendered |-> [t \in Tabs |-> -1],
                   skew |-> 0, faults |-> {}, lastTab |-> -1, lastRevision |-> [t \in Tabs |-> -1]]
    /\ file = <<>>
    /\ log = <<>>

GateGoes(pc) == gate' = [gate EXCEPT !.pc = pc]
Rejects == gate' = [gate EXCEPT !.pc = "reap", !.verdict = "rejected"]
WalkEnds(walked) == gate' = [gate EXCEPT !.pc = "letgo", !.walked = walked]

-----------------------------------------------------------------------------
(* The gate up to the layout. *)
StartDrive ==
    /\ gate.pc = "start"
    /\ \/ gate' = [gate EXCEPT !.pc = "over", !.verdict = "unavailable"] /\ UNCHANGED sims
       \/ GateGoes("main") /\ SimGoes(Child, "layout")
    /\ UNCHANGED <<display, windows, keys, board, file, log>>

(* The main window bears the token that the child was given. *)
FindMain ==
    /\ gate.pc = "main"
    /\ \E w \in Slots :
          /\ windows[w].title = Child /\ windows[w].seen /\ windows[w].owner = Child
          /\ gate' = [gate EXCEPT !.pc = "dashboard", !.main = w]
    /\ UNCHANGED <<gateOnly, keys>>

FindDashboard ==
    /\ gate.pc = "dashboard"
    /\ sims[Child].dashboard.shown
    /\ GateGoes(IF gate.layout THEN "layout" ELSE IF gate.tabs THEN "tabs" ELSE "hold")
    /\ UNCHANGED <<gateOnly, keys>>

(* wait_for_window_layout polls both outer rectangles. *)
VerifyLayout ==
    /\ gate.pc = "layout"
    /\ sims[Child].dashboard.shown
    /\ \E a \in AvailableGeometry(display) :
          ValidWindowLayout(a, OuterRect(TheLayout.main, windows[gate.main]), DashboardRect(Child), display.quarters)
    /\ gate' = [gate EXCEPT !.pc = IF gate.tabs THEN "tabs" ELSE "initial", !.verified = TRUE]
    /\ UNCHANGED <<gateOnly, keys>>

-----------------------------------------------------------------------------
(* The walk through the tabs. *)
IsPlot(tab) == tab # 0

(* The rectangles inside the panes: tab bar, page and controls, and the    *)
(* canvas with the texts drawn on it.                                      *)
PageFits(r) == "page" \notin r.faults
PlotFits(r) == IsPlot(r.tab) => "plot" \notin r.faults

(* validate_dashboard_layout_report *)
ReportPasses(r) ==
    /\ r.height >= FormalMinHeight
    /\ PanesFill(Panes(r.height, r.skew), r.height, display.quarters)
    /\ PageFits(r) /\ PlotFits(r)

(* Mutant: the file is read from its start. *)
AnyLines(tab, cursor) == {n \in DOMAIN file : file[n].tab = tab}

(* wait_for_dashboard_layout_report: the first line after the cursor that  *)
(* is of this tab.                                                         *)
FreshLines(tab, cursor) == {n \in cursor + 1..Len(file) : file[n].tab = tab}

FirstFresh(tab, cursor) ==
    CHOOSE n \in FreshLines(tab, cursor) : \A m \in FreshLines(tab, cursor) : n <= m

(* Both keys go down through the window that has the focus. *)
BeginWalk ==
    /\ gate.pc = "tabs"
    /\ keys' = [keys EXCEPT !.up = TRUE]
    /\ GateGoes("read")
    /\ UNCHANGED gateOnly

PressCtrl ==
    /\ gate.pc = "press"
    /\ keys' = [keys EXCEPT !.ctrl = TRUE]
    /\ GateGoes("tab")
    /\ UNCHANGED gateOnly

(* ctrl comes up again whether the key was sent or not. *)
SendTab ==
    /\ gate.pc = "tab"
    /\ keys' = [keys EXCEPT !.ctrl = FALSE]
    /\ \/ /\ GateGoes("read")
          /\ board' = IF SimAt(Child, "running") THEN [board EXCEPT !.pending = @ + 1] ELSE board
       \/ WalkEnds(FALSE) /\ UNCHANGED board
    /\ UNCHANGED <<windowVars, file, log>>

(* validate_dashboard_layout_stability: nothing but the data has changed. *)
StableReport(before, after) ==
    /\ ReportPasses(before) /\ ReportPasses(after)
    /\ before.height = after.height /\ before.skew = after.skew
    /\ IsPlot(before.tab) => after.revision > before.revision

ReadReport ==
    /\ gate.pc = "read"
    /\ FreshLines(gate.tab, gate.cursor) # {}
    /\ LET line == FirstFresh(gate.tab, gate.cursor)
           report == file[line]
           passes == IF gate.round = 1 THEN ReportPasses(report)
                     ELSE StableReport(gate.first[gate.tab + 1], report)
           last == gate.tab = LastTab
       IN  IF ~passes THEN WalkEnds(FALSE)
           ELSE gate' = [gate EXCEPT !.cursor = line,
                                     !.first = IF gate.round = 1 THEN Append(@, report) ELSE @,
                                     !.tab = IF last THEN 0 ELSE @ + 1,
                                     !.round = IF last THEN @ + 1 ELSE @,
                                     !.pc = IF last /\ gate.round = 2 THEN "frames" ELSE "press"]
    /\ UNCHANGED <<gateOnly, keys>>

(* verify_dashboard_frames: every captured page shows something. *)
VerifyFrames ==
    /\ gate.pc = "frames"
    /\ \E walked \in BOOLEAN : WalkEnds(walked)
    /\ UNCHANGED <<gateOnly, keys>>

(* A report does not come in time, a click or a capture fails, or the      *)
(* operator interrupts.                                                    *)
WalkBreaks ==
    /\ gate.pc \in {"read", "press", "tab", "frames"}
    /\ WalkEnds(FALSE)
    /\ UNCHANGED <<gateOnly, keys>>

(* Mutant: the keys are only released after a walk that succeeded. *)
LetGoIfWalked ==
    /\ gate.pc = "letgo"
    /\ keys' = IF gate.walked THEN [up |-> FALSE, ctrl |-> FALSE] ELSE keys
    /\ IF gate.walked THEN GateGoes("wait") ELSE Rejects
    /\ UNCHANGED gateOnly

(* The finally clause of verify_dashboard_tabs. *)
LetGo ==
    /\ gate.pc = "letgo"
    /\ keys' = [up |-> FALSE, ctrl |-> FALSE]
    /\ IF gate.walked THEN GateGoes("wait") ELSE Rejects
    /\ UNCHANGED gateOnly

-----------------------------------------------------------------------------
(* Without the walk: one report of the first tab, then the key is held. *)
ReadInitialReport ==
    /\ gate.pc = "initial"
    /\ FreshLines(0, 0) # {}
    /\ IF ReportPasses(file[FirstFresh(0, 0)]) THEN GateGoes("hold") ELSE Rejects
    /\ UNCHANGED <<gateOnly, keys>>

HoldUp ==
    /\ gate.pc = "hold"
    /\ keys' = [keys EXCEPT !.up = TRUE]
    /\ GateGoes("holding")
    /\ UNCHANGED gateOnly

(* _send_dashboard_up_key has no finally. *)
ReleaseUp ==
    /\ gate.pc = "holding"
    /\ \/ keys' = [keys EXCEPT !.up = FALSE] /\ GateGoes("wait")
       \/ gate' = [gate EXCEPT !.pc = "reap", !.verdict = "interrupted"] /\ UNCHANGED keys
    /\ UNCHANGED gateOnly

-----------------------------------------------------------------------------
(* The end of the gate. *)
ChildGone == sims[Child].pc \in {"closed", "crashed"}

AwaitChild ==
    /\ gate.pc = "wait" /\ ChildGone
    /\ IF sims[Child].pc = "closed" THEN GateGoes("log") ELSE Rejects
    /\ UNCHANGED <<gateOnly, keys>>

(* A window is not found, a layout does not settle, a command fails, or    *)
(* the child does not end in time.                                         *)
GateFails ==
    /\ gate.pc \in {"main", "dashboard", "layout", "tabs", "initial", "hold", "wait"}
    /\ Rejects
    /\ UNCHANGED <<gateOnly, keys>>

(* The finally clause of _run_verification: terminate, then kill. *)
TerminateChild ==
    /\ gate.pc = "reap"
    /\ GateGoes("reaped")
    /\ IF ChildGone THEN UNCHANGED sims ELSE SimGoes(Child, "failed")
    /\ UNCHANGED <<display, windows, keys, board, file, log>>

ChildReaped == gate.pc = "reaped" /\ ChildGone /\ GateGoes("over") /\ UNCHANGED <<gateOnly, keys>>

(* summarize_manual_motion and motion_passed *)
ActiveRows == {n \in 1..Len(log) : log[n]}
InteriorZeros == {n \in (1..Len(log)) \ ActiveRows : \E a, b \in ActiveRows : a < n /\ n < b}
MotionPassed(moved) == ActiveRows # {} /\ InteriorZeros = {} /\ moved

JudgeLog ==
    /\ gate.pc = "log"
    /\ \E moved \in BOOLEAN :
          gate' = [gate EXCEPT !.pc = "over", !.verdict = IF MotionPassed(moved) THEN "accepted" ELSE "rejected"]
    /\ UNCHANGED <<gateOnly, keys>>

DriveStep ==
    \/ StartDrive \/ FindMain \/ FindDashboard \/ VerifyLayout
    \/ BeginWalk \/ PressCtrl \/ SendTab \/ ReadReport \/ VerifyFrames \/ WalkBreaks \/ LetGo
    \/ ReadInitialReport \/ HoldUp \/ ReleaseUp
    \/ AwaitChild \/ GateFails \/ TerminateChild \/ ChildReaped \/ JudgeLog

-----------------------------------------------------------------------------
(* The dashboard of the child. *)
BoardRuns == SimAt(Child, "running") /\ UNCHANGED <<windowVars, gate, keys>>

DataArrives ==
    /\ BoardRuns /\ board.data < MaxData
    /\ board' = [board EXCEPT !.data = @ + 1]
    /\ UNCHANGED <<file, log>>

(* Only the page in front is drawn. *)
DrawPlot ==
    /\ BoardRuns /\ IsPlot(board.tab) /\ board.rendered[board.tab] # board.data
    /\ board' = [board EXCEPT !.rendered[board.tab] = board.data]
    /\ UNCHANGED <<file, log>>

SwitchTab ==
    /\ BoardRuns /\ board.pending > 0
    /\ board' = [board EXCEPT !.pending = @ - 1, !.visit = @ + 1, !.tab = IF @ = LastTab THEN 0 ELSE @ + 1]
    /\ UNCHANGED <<file, log>>

(* _emit_layout_report_if_requested: a content page that was not the last  *)
(* one reported, or a plot with data newer than it last reported.          *)
EmitReport ==
    /\ BoardRuns
    /\ LET tab == board.tab
           revision == IF IsPlot(tab) THEN board.rendered[tab] ELSE 0
       IN  /\ IF IsPlot(tab)
              THEN revision >= 0 /\ revision = board.data /\ revision > board.lastRevision[tab]
              ELSE tab # board.lastTab
           /\ file' = Append(file, [tab |-> tab, revision |-> revision, visit |-> board.visit,
                                    height |-> board.height, skew |-> board.skew, faults |-> board.faults])
           /\ board' = [board EXCEPT !.lastTab = tab,
                                     !.lastRevision[tab] = IF IsPlot(tab) THEN revision ELSE @]
    /\ UNCHANGED log

(* The pages are laid out anew, and wrongly. *)
LayoutSlips ==
    /\ BoardRuns /\ board.skew = 0 /\ board.faults = {}
    /\ \/ board' = [board EXCEPT !.skew = 8]
       \/ \E fault \in {"page", "plot"} : board' = [board EXCEPT !.faults = {fault}]
    /\ UNCHANGED <<file, log>>

(* A row of the log; the key is heard only with the focus.  Equal rows in  *)
(* a row are one.                                                          *)
LogRow ==
    /\ BoardRuns /\ Len(log) < MaxSamples
    /\ \E focus \in BOOLEAN :
          LET active == keys.up /\ focus
          IN  /\ log # <<>> => log[Len(log)] # active
              /\ log' = Append(log, active)
    /\ UNCHANGED <<board, file>>

BoardStep == DataArrives \/ DrawPlot \/ SwitchTab \/ EmitReport \/ LayoutSlips \/ LogRow

-----------------------------------------------------------------------------
OpeningStays == UNCHANGED <<gate, keys, board, file, log>>

DriveNext ==
    \/ DriveStep
    \/ BoardStep
    \/ OpeningStays /\ (XServer \/ \E s \in Sims : OpeningStep(s) \/ (s # Child /\ OpenSim(s)))

-----------------------------------------------------------------------------
(* The program's arithmetic and the gate's agree: whenever the gate may    *)
(* look, a child that runs with settled borders passes, on every display.  *)
LayoutsAgree ==
    gate.pc \in {"start", "layout"} /\ SimAt(Child, "running") /\ windows[sims[Child].win].placed = ExtentsRead(windows[sims[Child].win].extents) =>
        \A a \in AvailableGeometry(display) :
            ValidWindowLayout(a, MainRect(Child), DashboardRect(Child), display.quarters)

(* Mapping to physical pixels never moves a rectangle out of another nor   *)
(* makes two overlap, so that rounding alone fails no page: on any ratio   *)
(* panes that Qt split evenly, up to an odd pixel, pass.  On a whole ratio *)
(* an aligned dashboard ends exactly where the layout has it.              *)
SmallRects == {Rect(x, width) : x \in 0..4, width \in 1..5}
ScalingIsSound ==
    \A q \in Scales :
        /\ \A a, b \in SmallRects :
              /\ RectInside(a, b) => RectInside(PhysicalRect(a, q), PhysicalRect(b, q))
              /\ ~RectsOverlap(a, b) => ~RectsOverlap(PhysicalRect(a, q), PhysicalRect(b, q))
        /\ \A height \in Heights, skew \in {0, 1} : PanesFill(Panes(height, skew), height, q)
        /\ q % 4 = 0 =>
              \A width \in 2..40 :
                 \A c \in CalculatedLayout(Rect(0, width * (q \div 4))) : \A l \in AlignedLayout(c, q) :
                    LET client == LogicalClientRect(l.dashboard, 0, q, 0)
                    IN  Rect((client.x * q) \div 4, (client.width * q) \div 4) = l.dashboard

(* A report of the second walk is of the second visit to its page, and of  *)
(* the first walk of the first.                                            *)
ReportsAreFresh ==
    /\ \A n \in DOMAIN gate.first : gate.first[n].tab = n - 1 /\ gate.first[n].visit = n
    /\ gate.pc = "press" /\ gate.round = 2 /\ gate.tab > 0 =>
          file[gate.cursor].visit = LastTab + 1 + gate.tab
    /\ gate.round = 3 => file[gate.cursor].visit = 2 * (LastTab + 1)

(* No key stays down and no child stays behind, except that an interrupted *)
(* hold leaves Up down.                                                    *)
DriveLeavesNothing ==
    gate.pc = "over" =>
        /\ gate.verdict # "interrupted" => keys = [up |-> FALSE, ctrl |-> FALSE]
        /\ ~keys.ctrl
        /\ gate.verdict # "unavailable" => ChildGone

(* An accepted drive had its layout verified, both walks completed, and    *)
(* the command held from its first row to its last.                        *)
AcceptedDrove ==
    gate.verdict = "accepted" =>
        /\ gate.layout => gate.verified
        /\ gate.tabs => gate.walked /\ gate.round = 3
        /\ \A a, b \in ActiveRows : \A n \in a..b : log[n]
        /\ ActiveRows # {}

(* The arithmetic depends on no state: it is looked at where a gate has    *)
(* nothing to do.                                                          *)
DriveSound ==
    /\ gate.verdict = "unavailable" => ScalingIsSound
    /\ WindowsAreOwn /\ LayoutsAgree /\ ReportsAreFresh /\ DriveLeavesNothing /\ AcceptedDrove
=============================================================================
