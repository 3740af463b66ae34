----------------------- MODULE ScrollGestureController -----------------------
(***************************************************************************)
(* ScrollGestureController::handleEvent (src/UIProcess/API/wpe/           *)
(* ScrollGestureController.cpp, lines 41-126): raw touch events of one    *)
(* finger become 2D axis (scroll) events once the gesture is captured,     *)
(* with an axis lock that keeps a mostly horizontal or mostly vertical    *)
(* gesture on its axis. The WPE >= 1.5.0 branch (2D axis event) is        *)
(* modelled. The .cpp reads m_start.active and m_x/yAxisLockBroken, which *)
(* the header in src/ does not declare; the fields are taken as the .cpp  *)
(* uses them.                                                             *)
(*                                                                         *)
(* Touch times enter only as touchPoint->time - m_start.time; that         *)
(* difference is kept, capped at the capture threshold, instead of the    *)
(* two times. Coordinates are integers from a small set.                  *)
(***************************************************************************)
EXTENDS Integers

CONSTANTS
  Positions,          \* touch coordinates, on both axes
  PixelsPerLineStep   \* WebCore::Scrollbar::pixelsPerLineStep()

\* The thresholds of lines 36-39.
ScrollCaptureThreshold == 200
AxisLockMovementThreshold == 8
AxisLockActivationThreshold == 15
AxisLockReleaseThreshold == 30

\* Values of touchPoint->time - m_start.time: ScrollCaptureThreshold
\* stands for every difference at or above it.
Elapsed == {0, 100, ScrollCaptureThreshold}

VARIABLES
  startActive, startX, startY,  \* m_start.active, m_start.x, m_start.y
  elapsed,                      \* time of the last event - m_start.time
  offsetX, offsetY,             \* m_offset
  handling,                     \* m_handling
  xLockBroken, yLockBroken,     \* m_xAxisLockBroken, m_yAxisLockBroken
  axisX, axisY,                 \* m_axisEvent.x_axis, m_axisEvent.y_axis
  phase,                        \* m_phase
  \* the finger, as the touch screen reports it
  fingerDown, fingerX, fingerY,
  \* history: where the finger went down, whether it has since moved or
  \* waited past a capture threshold, the finger position at the last
  \* event that scrolled, and the axes on which the finger was at least
  \* AxisLockReleaseThreshold away from the down point at a scrolling event
  downX, downY, captured, scrolledX, scrolledY, farX, farY

vars == <<startActive, startX, startY, elapsed, offsetX, offsetY, handling,
          xLockBroken, yLockBroken, axisX, axisY, phase, fingerDown, fingerX,
          fingerY, downX, downY, captured, scrolledX, scrolledY, farX, farY>>

Abs(n) == IF n < 0 THEN -n ELSE n

Phases == {"none", "changed", "ended"}

TypeOK ==
  /\ startActive \in BOOLEAN /\ handling \in BOOLEAN
  /\ {startX, startY, fingerX, fingerY, downX, downY} \subseteq Positions
  /\ elapsed \in Elapsed
  /\ xLockBroken \in BOOLEAN /\ yLockBroken \in BOOLEAN
  /\ axisX \in Int /\ axisY \in Int /\ phase \in Phases
  /\ fingerDown \in BOOLEAN

-----------------------------------------------------------------------------
(* handleEvent, one action per touch event type.                          *)

\* wpe_input_touch_event_type_down (lines 44-53).
HandleDown(x, y) ==
  /\ startActive' = TRUE /\ elapsed' = 0
  /\ startX' = x /\ startY' = y
  /\ offsetX' = x /\ offsetY' = y
  /\ xLockBroken' = FALSE /\ yLockBroken' = FALSE
  /\ UNCHANGED <<handling, axisX, axisY, phase>>

\* Lines 55-63: a gesture is captured once the finger moved a line step
\* on an axis or stayed down for scrollCaptureThreshold.
Captures(x, y, t) ==
  \/ Abs(x - startX) >= PixelsPerLineStep
  \/ Abs(y - startY) >= PixelsPerLineStep
  \/ t >= ScrollCaptureThreshold

\* Variant: the lock flags recomputed from this event only.
AxisLocksForgetting(x, y) ==
  LET xOffset == Abs(x - startX)
      yOffset == Abs(y - startY)
      box == /\ xOffset >= AxisLockMovementThreshold /\ yOffset >= AxisLockMovementThreshold
             /\ xOffset < AxisLockActivationThreshold /\ yOffset < AxisLockActivationThreshold
  IN [x |-> xOffset >= AxisLockReleaseThreshold \/ box,
      y |-> yOffset >= AxisLockReleaseThreshold \/ box]

\* Lines 73-84: an axis lock is broken for the rest of the gesture by a
\* movement past the release threshold on that axis, or both by a small
\* diagonal movement.
AxisLocks(x, y) ==
  LET xOffset == Abs(x - startX)
      yOffset == Abs(y - startY)
      box == /\ xOffset >= AxisLockMovementThreshold /\ yOffset >= AxisLockMovementThreshold
             /\ xOffset < AxisLockActivationThreshold /\ yOffset < AxisLockActivationThreshold
  IN [x |-> xLockBroken \/ xOffset >= AxisLockReleaseThreshold \/ box,
      y |-> yLockBroken \/ yOffset >= AxisLockReleaseThreshold \/ box]

\* wpe_input_touch_event_type_motion (lines 54-100). Returns TRUE (the
\* event is consumed as a scroll) iff handling' holds.
HandleMotion(x, y, t) ==
  LET h == IF startActive /\ ~handling THEN Captures(x, y, t) ELSE handling
      lock == AxisLocks(x, y)
  IN /\ elapsed' = t
     /\ handling' = h
     /\ IF h
        THEN /\ xLockBroken' = lock.x /\ yLockBroken' = lock.y
             /\ axisX' = IF lock.x \/ Abs(y - startY) < AxisLockActivationThreshold
                         THEN x - offsetX ELSE 0
             /\ axisY' = IF lock.y \/ Abs(x - startX) < AxisLockActivationThreshold
                         THEN y - offsetY ELSE 0
             /\ offsetX' = x /\ offsetY' = y
             /\ phase' = "changed"
        ELSE UNCHANGED <<xLockBroken, yLockBroken, axisX, axisY, offsetX, offsetY, phase>>
     /\ UNCHANGED <<startActive, startX, startY>>

\* Variant: the end of a scroll that leaves m_handling set.
HandleUpKeepingHandling(t) ==
  /\ elapsed' = t
  /\ IF handling
     THEN /\ startActive' = FALSE
          /\ axisX' = 0 /\ axisY' = 0 /\ offsetX' = 0 /\ offsetY' = 0
          /\ phase' = "ended"
     ELSE UNCHANGED <<startActive, axisX, axisY, offsetX, offsetY, phase>>
  /\ UNCHANGED <<handling, startX, startY, xLockBroken, yLockBroken>>

\* wpe_input_touch_event_type_up (lines 101-122): a captured gesture ends.
HandleUp(t) ==
  /\ elapsed' = t
  /\ IF handling
     THEN /\ startActive' = FALSE /\ handling' = FALSE
          /\ axisX' = 0 /\ axisY' = 0 /\ offsetX' = 0 /\ offsetY' = 0
          /\ phase' = "ended"
     ELSE UNCHANGED <<startActive, handling, axisX, axisY, offsetX, offsetY, phase>>
  /\ UNCHANGED <<startX, startY, xLockBroken, yLockBroken>>

-----------------------------------------------------------------------------
(* The finger: down, moves (events may be far apart), up; event times only *)
(* move forward.                                                           *)

Later == {t \in Elapsed : t >= elapsed}

TouchDown ==
  /\ ~fingerDown
  /\ \E x, y \in Positions :
       /\ HandleDown(x, y)
       /\ fingerDown' = TRUE /\ fingerX' = x /\ fingerY' = y
       /\ downX' = x /\ downY' = y /\ captured' = FALSE
       /\ scrolledX' = x /\ scrolledY' = y /\ farX' = FALSE /\ farY' = FALSE

TouchMotion ==
  /\ fingerDown
  /\ \E x, y \in Positions, t \in Later :
       LET moved == \/ Abs(x - downX) >= PixelsPerLineStep
                    \/ Abs(y - downY) >= PixelsPerLineStep
                    \/ t >= ScrollCaptureThreshold
       IN /\ HandleMotion(x, y, t)
          /\ fingerX' = x /\ fingerY' = y
          /\ captured' = (captured \/ moved)
          /\ IF handling'
             THEN /\ scrolledX' = x /\ scrolledY' = y
                  /\ farX' = (farX \/ Abs(x - downX) >= AxisLockReleaseThreshold)
                  /\ farY' = (farY \/ Abs(y - downY) >= AxisLockReleaseThreshold)
             ELSE UNCHANGED <<scrolledX, scrolledY, farX, farY>>
          /\ UNCHANGED <<fingerDown, downX, downY>>

TouchUp ==
  /\ fingerDown
  /\ \E t \in Later : HandleUp(t)
  /\ fingerDown' = FALSE
  /\ UNCHANGED <<fingerX, fingerY, downX, downY, captured, scrolledX, scrolledY, farX, farY>>

Init ==
  /\ startActive = FALSE /\ startX = 0 /\ startY = 0 /\ elapsed = 0
  /\ offsetX = 0 /\ offsetY = 0 /\ handling = FALSE
  /\ xLockBroken = FALSE /\ yLockBroken = FALSE
  /\ axisX = 0 /\ axisY = 0 /\ phase = "none"
  /\ fingerDown = FALSE /\ fingerX = 0 /\ fingerY = 0
  /\ downX = 0 /\ downY = 0 /\ captured = FALSE
  /\ scrolledX = 0 /\ scrolledY = 0 /\ farX = FALSE /\ farY = FALSE

Next == TouchDown \/ TouchMotion \/ TouchUp

Spec == Init /\ [][Next]_vars

-----------------------------------------------------------------------------
(* Properties.                                                             *)

\* Touch events are turned into scrolling only once the finger of the
\* current touch has moved a line step or stayed down for the capture
\* threshold: a tap or a short press after a scroll gesture is not taken
\* as a scroll, whatever the previous gesture left in m_handling.
ScrollOnlyAfterCapture == handling => fingerDown /\ captured

\* Once the finger has been AxisLockReleaseThreshold away from its down
\* point on an axis at a scrolling event, every later scrolling event of
\* the gesture scrolls that axis by exactly the finger's movement since the
\* previous scrolling event, even when the finger comes back near the
\* down point: the axis lock, once released, stays released.
ReleasedAxisFollowsFinger ==
  [][ handling' =>
        /\ (farX /\ farX') => axisX' = fingerX' - scrolledX
        /\ (farY /\ farY') => axisY' = fingerY' - scrolledY ]_vars
=============================================================================
