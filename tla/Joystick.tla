------------------------------ MODULE Joystick ------------------------------
(***************************************************************************)
(* The keys (joystick/joystick.cpp).  The main loop reads them and works   *)
(* through them one by one; TIM2's interrupt counts the time since each    *)
(* key's last call of the view, and may come between any two steps.        *)
(*                                                                         *)
(* A key that is held is repeated: after its first call it has to wait for *)
(* cost_2 ticks, then for one tick each time.  old_pressed is never read   *)
(* and is left out.                                                        *)
(***************************************************************************)
EXTENDS Integers, Sequences

CONSTANTS
  buttons,           \* the keys in the order of joystick_check
  cost_2             \* 8

Key == {buttons[i] : i \in DOMAIN buttons}

JoystickAssumption ==
  /\ buttons \in Seq(Key) /\ buttons # <<>>
  /\ \A i, j \in DOMAIN buttons : buttons[i] = buttons[j] => i = j
  /\ cost_2 \in Nat \ {0}

VARIABLES
  pin,               \* the keys that are down
  pressed, button_state, time,
  at,                \* the place in buttons, 0 outside joystick_check
  ans,               \* check_button_state has found the key due
  calm,              \* history: ticks since the key was last found due, at
                     \* most cost_2, and the calls since it was last found
  calls              \* up, at most two

keys == <<pressed, button_state, time>>
history == <<calm, calls>>
vars == <<pin, keys, at, ans, history>>

cost == <<1, cost_2, 1>>       \* first second next
count == Len(cost)

Least(a, b) == IF a < b THEN a ELSE b

Init ==
  /\ pin = {} /\ pressed = {}
  /\ button_state = [k \in Key |-> 0]
  /\ time = [k \in Key |-> 0]
  /\ at = 0 /\ ans = FALSE
  /\ calm = [k \in Key |-> 0] /\ calls = [k \in Key |-> 0]

\* A key goes down or up.
Turn(k) ==
  /\ pin' = IF k \in pin THEN pin \ {k} ELSE pin \cup {k}
  /\ UNCHANGED <<keys, at, ans, history>>

Ticked == [k \in Key |-> Least(time[k] + 1, cost_2)]

on_timer ==
  /\ time' = Ticked
  /\ calm' = [k \in Key |-> Least(calm[k] + 1, cost_2)]
  /\ UNCHANGED <<pin, pressed, button_state, at, ans, calls>>

check_buttons ==
  /\ at = 0
  /\ pressed' = pin
  /\ at' = 1
  /\ UNCHANGED <<pin, button_state, time, ans, history>>

Following == IF at = Len(buttons) THEN 0 ELSE at + 1

Ready(k) == k \in pressed /\ time[k] >= cost[button_state[k] + 1]

HeldOn(k) == button_state                          \* mutant: starts not again
Begun(k) == [button_state EXCEPT ![k] = 0]

\* check_button_state compares ...
Compare ==
  /\ at # 0 /\ ~ans
  /\ LET k == buttons[at] IN
     \/ /\ Ready(k)
        /\ ans' = TRUE
        /\ calm' = [calm EXCEPT ![k] = 0]
        /\ UNCHANGED <<button_state, at, calls>>
     \/ /\ k \notin pressed
        /\ button_state' = Begun(k)
        /\ calls' = [calls EXCEPT ![k] = 0]
        /\ at' = Following
        /\ UNCHANGED <<ans, calm>>
     \/ /\ k \in pressed /\ ~Ready(k)
        /\ at' = Following
        /\ UNCHANGED <<button_state, ans, history>>
  /\ UNCHANGED <<pin, pressed, time>>

Restarted(k) == [time EXCEPT ![k] = 0]

\* ... and stores; then the view is called, and an error ends the check.
Called(failed) ==
  /\ ans
  /\ LET k == buttons[at] IN
     /\ time' = Restarted(k)
     /\ button_state' = [button_state EXCEPT ![k] = Least(@ + 1, count - 1)]
     /\ calls' = [calls EXCEPT ![k] = Least(@ + 1, 2)]
  /\ at' = IF failed THEN 0 ELSE Following
  /\ ans' = FALSE
  /\ UNCHANGED <<pin, pressed, calm>>

Next ==
  \/ \E k \in Key : Turn(k)
  \/ on_timer
  \/ check_buttons
  \/ Compare
  \/ \E failed \in BOOLEAN : Called(failed)

Spec == Init /\ [][Next]_vars

Calls(k) == ans /\ buttons[at] = k /\ ~ans'
Finds(k) == ~ans /\ ans' /\ buttons[at] = k
Fails == at \notin {0, Len(buttons)} /\ at' = 0

\* The timer runs, and the main loop goes on.
Fairness ==
  /\ WF_vars(on_timer)
  /\ WF_vars(check_buttons)
  /\ WF_vars(Compare)
  /\ WF_vars(\E failed \in BOOLEAN : Called(failed))

FairSpec == Spec /\ Fairness

(***************************************************************************)
(* Properties.                                                             *)
(***************************************************************************)

\* The fields keep their ranges; cost has an entry for each state of a key.
TypeOK ==
  /\ pin \subseteq Key /\ pressed \subseteq Key
  /\ button_state \in [Key -> 0 .. count - 1]
  /\ time \in [Key -> 0 .. cost_2]
  /\ at \in 0 .. Len(buttons) /\ ans \in BOOLEAN
  /\ calm \in [Key -> 0 .. cost_2] /\ calls \in [Key -> 0 .. 2]
  /\ ans => at # 0

\* Whenever the interrupt comes, also between the comparison and the store: a
\* key is due at most once in a tick, however fast the main loop goes round,
\* and the second time of one press no earlier than cost_2 ticks after the
\* first.
RepeatsSlowly ==
  [][\A k \in Key :
       Finds(k) => calm[k] >= (IF calls[k] = 1 THEN cost_2 ELSE 1)]_vars

\* A key that is held down calls the view again and again, the last key of the
\* order too, unless the view keeps failing: then later keys get no turn.
HeldIsRepeated ==
  \A k \in Key :
    <>[](k \in pin) /\ ~[]<><<Fails>>_vars => []<><<Calls(k)>>_vars
=============================================================================
