-------------------------------- MODULE Touch --------------------------------
(***************************************************************************)
(* The touch screen (touch/touchscreen.cpp, touch/moving.cpp).  Each turn  *)
(* of the main loop takes one sample.  While the finger is down it drags   *)
(* the list; the turn that finds it gone lets the list run on if the       *)
(* finger was fast, or takes the touch for a tap.  TIM2's interrupt        *)
(* measures how long the touch has lasted.                                 *)
(*                                                                         *)
(* A place is <<x, y>>, y grows downwards.  What the view does when it is  *)
(* called is not modelled, but that it may fail.                           *)
(***************************************************************************)
EXTENDS Integers

CONSTANTS
  Points,            \* bound: the places the finger is seen at, normalized
  offset,            \* 5: less is no movement
  soft_offset,       \* 2: less is not worth running on
  limit,             \* 19: a line of the list, and the way for one call
  limit_speed,       \* 10: the same when the list runs on
  min_speed_cnt,     \* 4
  max_speed_cnt,     \* 20
  max_ticks,         \* 10
  speed              \* 16: what is divided by the time of the touch

TouchAssumption ==
  /\ Points \subseteq Int \X Int
  /\ offset \in Nat \ {0} /\ soft_offset \in 1 .. offset
  /\ limit \in Nat /\ offset <= limit
  /\ limit_speed \in 1 .. limit
  /\ min_speed_cnt \in Nat /\ max_speed_cnt \in Nat \ {0}
  /\ max_ticks \in Nat \ {0} /\ speed \in Nat

VARIABLES
  press, moved, start, old, dolg, tick_counter,
  direction_mask,    \* the horizontal direction that is used up
  coasting,          \* the direction of the loop in unpressed; "no"
  cnt,
  last, row,         \* history of the touch: the last direction that the view
                     \* was called for, how often in a row (at most 2)
  away, sideways,    \* history: a sample was offset away from start; a
                     \* sample was taken for a horizontal movement
  lines              \* history: lines dragged down before that, less those
                     \* dragged up

touch   == <<press, moved, start, old, dolg, direction_mask>>
loop    == <<coasting, cnt>>
history == <<last, row, lines, away, sideways>>
vars    == <<tick_counter, touch, loop, history>>

None == "none"
Horizontal == {"left", "right"}
Vertical   == {"up", "down"}

Abs(a) == IF a < 0 THEN -a ELSE a
nearest_to_zero(a, b) == IF Abs(a) < Abs(b) THEN a ELSE b

Init ==
  /\ tick_counter = 0
  /\ press = FALSE /\ moved = FALSE
  /\ start = <<0, 0>> /\ old = <<0, 0>> /\ dolg = <<0, 0>>
  /\ direction_mask = {}
  /\ coasting = "no" /\ cnt = 0
  /\ last = None /\ row = 0 /\ lines = 0 /\ away = FALSE /\ sideways = FALSE

CountedOn == tick_counter + 1                       \* mutant: without end
Counted == IF tick_counter < max_ticks THEN tick_counter + 1 ELSE tick_counter

on_timer ==
  /\ tick_counter' = Counted
  /\ UNCHANGED <<touch, loop, history>>

Far(d, least) == Abs(d[1]) >= least \/ Abs(d[2]) >= least
Minus(p, q) == <<p[1] - q[1], p[2] - q[2]>>

\* direction_likelyhood is 4 to 3; between the two cones it is neither.
get_direction(d) ==
  IF 4 * Abs(d[1]) <= 3 * Abs(d[2])
    THEN IF d[2] = 0 THEN None ELSE IF d[2] < 0 THEN "up" ELSE "down"
  ELSE IF 4 * Abs(d[2]) <= 3 * Abs(d[1])
    THEN IF d[1] < 0 THEN "left" ELSE "right"
  ELSE None

(***************************************************************************)
(* do_move: the view is called when the way is long enough and, to the     *)
(* side, when the direction is not used up.  Offset is what comes back.    *)
(***************************************************************************)
MaskAfter(d) == {d} \cap Horizontal

CallsView(d, way, least) == way >= least /\ d \notin direction_mask

Offset(d, way, least) ==
  IF ~CallsView(d, way, least) THEN 0
  ELSE IF d \in {"left", "up"} THEN -least ELSE least

do_move(d, way, least) ==
  IF CallsView(d, way, least)
    THEN /\ direction_mask' = MaskAfter(d)
         /\ last' = d
         /\ row' = IF last = d THEN 2 ELSE 1
    ELSE UNCHANGED <<direction_mask, last, row>>

(***************************************************************************)
(* pressed                                                                 *)
(***************************************************************************)
Press(p) ==
  /\ ~press
  /\ press' = TRUE
  /\ start' = p /\ old' = p /\ dolg' = <<0, 0>>
  /\ direction_mask' = {}
  /\ tick_counter' = 0
  /\ last' = None /\ row' = 0 /\ lines' = 0
  /\ away' = FALSE /\ sideways' = FALSE
  /\ UNCHANGED <<moved, loop>>

\* The finger rests, or its direction is not clear.
Rest(p) ==
  /\ dolg' = Minus(p, old)
  /\ UNCHANGED <<start, old, direction_mask, last, row, lines, sideways>>

DragVertical(p, d) ==
  LET way == p[2] - old[2]
      o   == Offset(d, Abs(way), limit)
  IN /\ do_move(d, Abs(way), limit)
     /\ old' = <<p[1], old[2] + nearest_to_zero(o, way)>>
     /\ dolg' = <<0, o>>
     /\ lines' = IF o = 0 \/ sideways THEN lines
                 ELSE IF o < 0 THEN lines - 1 ELSE lines + 1
     /\ UNCHANGED <<start, sideways>>

DragHorizontal(p, d) ==
  LET way == p[1] - old[1]
      o   == Offset(d, Abs(way), limit)
  IN /\ do_move(d, Abs(way), limit)
     /\ old' = <<old[1] + nearest_to_zero(o, way), p[2]>>
     /\ dolg' = <<o, 0>>
     /\ sideways' = TRUE
     /\ UNCHANGED <<start, lines>>

MovedNow(p) == Far(Minus(p, old), offset)           \* mutant: forgotten
MovedBy(p) == moved \/ Far(Minus(p, old), offset)

Drag(p) ==
  /\ press
  /\ LET d == IF Far(Minus(p, old), offset) THEN get_direction(Minus(p, old))
              ELSE None
     IN \/ d = None /\ Rest(p)
        \/ d \in Vertical /\ DragVertical(p, d)
        \/ d \in Horizontal /\ DragHorizontal(p, d)
  /\ moved' = MovedBy(p)
  /\ away' = (away \/ Far(Minus(p, start), offset))
  /\ UNCHANGED <<tick_counter, press, loop>>

(***************************************************************************)
(* unpressed.  The division by a tick_counter of zero is not defined by    *)
(* C++; the processor's gives zero.                                        *)
(***************************************************************************)
Multiplier == IF tick_counter = 0 THEN 0 ELSE speed \div tick_counter

\* What is left of the movement, times the speed, if it was fast enough.
Owed(v) ==
  LET w == v * Multiplier
  IN IF Abs(w) \div offset <= min_speed_cnt THEN 0 ELSE w

Release ==
  /\ press
  /\ dolg' = <<Owed(dolg[1]), Owed(dolg[2])>>
  /\ coasting' = get_direction(dolg')
  /\ cnt' = 0
  /\ UNCHANGED <<tick_counter, press, moved, start, old, direction_mask,
                 history>>

Runs == Far(dolg, soft_offset) /\ coasting # None /\ cnt < max_speed_cnt

\* A turn of the loop; an error of the view ends it.
Coast(failed) ==
  /\ coasting # "no" /\ Runs
  /\ LET axis == IF coasting \in Vertical THEN 2 ELSE 1
         o    == Offset(coasting, Abs(dolg[axis]), limit_speed)
     IN /\ do_move(coasting, Abs(dolg[axis]), limit_speed)
        /\ dolg' = [dolg EXCEPT ![axis] = @ - nearest_to_zero(@, o)]
  /\ moved' = TRUE
  /\ cnt' = IF failed THEN max_speed_cnt ELSE cnt + 1
  /\ UNCHANGED <<tick_counter, press, start, old, coasting, lines, away,
                 sideways>>

\* touch_region is called for the place where the touch began.
Taps == coasting # "no" /\ ~Runs /\ ~moved

Released ==
  /\ coasting # "no" /\ ~Runs
  /\ press' = FALSE /\ moved' = FALSE
  /\ coasting' = "no"
  /\ UNCHANGED <<tick_counter, start, old, dolg, direction_mask, cnt,
                 history>>

\* The sample is a place, or there is no finger.
touch_check ==
  /\ coasting = "no"
  /\ \/ \E p \in Points : Press(p)
     \/ \E p \in Points : Drag(p)
     \/ Release

Next ==
  \/ on_timer
  \/ touch_check
  \/ \E failed \in BOOLEAN : Coast(failed)
  \/ Released

Spec == Init /\ [][Next]_vars

(***************************************************************************)
(* Properties.                                                             *)
(***************************************************************************)

\* The fields keep their types and ranges.
TypeOK ==
  /\ press \in BOOLEAN /\ moved \in BOOLEAN
  /\ start \in Points \cup {<<0, 0>>}
  /\ old \in Int \X Int /\ dolg \in Int \X Int
  /\ tick_counter \in 0 .. max_ticks
  /\ direction_mask \in {{}, {"left"}, {"right"}}
  /\ coasting \in {"no", None} \cup Horizontal \cup Vertical
  /\ cnt \in 0 .. max_speed_cnt
  /\ last \in {None} \cup Horizontal \cup Vertical /\ row \in 0 .. 2
  /\ lines \in Int /\ away \in BOOLEAN /\ sideways \in BOOLEAN
  /\ coasting # "no" => press

\* The list follows the finger and does not overtake it: until a movement to
\* the side is seen, old is where the dragged lines have brought the list.
ListFollows == press /\ ~sideways => old[2] = start[2] + lines * limit

\* A swipe to the side enters or leaves one page only, however long it is and
\* though the list runs on when the finger goes: two calls in a row for one
\* horizontal direction never come from one touch.
OneLevelPerSwipe == last \in Horizontal => row = 1

\* A touch is a tap only if no sample of it was away from its start and it has
\* called the view for nothing else, also when it is shorter than a tick.
TapsAreStill == [][coasting # "no" /\ ~press' /\ Taps => ~away /\ last = None]_vars

\* A touch is one thing: a tap, a page to one side, or a drag of the list.
OneMeaningPerTouch == []OneLevelPerSwipe /\ TapsAreStill
=============================================================================
