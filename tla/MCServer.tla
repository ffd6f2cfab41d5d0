------------------------------ MODULE MCServer ------------------------------
(***************************************************************************)
(* The multiplexing server's parts for TLC: its loop and containers, the   *)
(* way of commands to the player, the frames of web sockets, and a login.  *)
(* A behaviour is one of one part, as in MCParts.                          *)
(***************************************************************************)
EXTENDS Server, Sequences

CONSTANTS
  Client, Commands, Byte, calc_need_rd,
  junk, size_inc_value, HistoryMax, MaxRead,
  short, long, header_size, len_2_size, len_8_size, mask_size, buffer_size,
  other_order, Misread, FrameSizes, MaxData,
  sizeof_len, key_size, rsa_size, max_plain, pass_buff_size

\* Two clients with commands of one, two and three bytes, all of them different.
SomeCommands ==
  << << <<11>>, <<12, 13, 14>>, <<15>> >>, << <<21, 22>>, <<23>> >> >>
TheirBytes == 11 .. 15 \cup 21 .. 23
TheirLengths == [b \in TheirBytes |-> IF b = 12 THEN 3 ELSE IF b = 21 THEN 2 ELSE 1]

\* The lengths' bytes in the other order: two of them, or three, of three values each.
OtherOrder ==
  [len_2 |-> [size \in 0 .. MaxData |-> 3 * (size % 3) + size \div 3],
   len_8 |-> [size \in 0 .. MaxData |-> 9 * (size % 3) + 3 * ((size \div 3) % 3) + size \div 9]]

VARIABLES
  part,
  senders, unread, readed_data, data, pos, polled, player,
  browser, offered, sent, announced, header, agreed, wire, status, cur_pos, cur_size,
  has_mask, data_len, received, aligned, in_step,
  down, up, checker, send_ptr, enc_pass, ready, acc, overdue, heard,
  step, rsa_key, right, length, pass_pos, pass_ptr

C == INSTANCE CommandPath WITH clients <- senders
W == INSTANCE WebSocket
G == INSTANCE Login WITH status <- step, late <- overdue

ASSUME PartsAssumption ==
  /\ C!RingAssumption
  /\ C!CommandPathAssumption
  /\ W!WebSocketAssumption
  /\ G!LoginAssumption

commands == <<senders, unread, readed_data, data, pos, polled, player>>
frames   == <<browser, offered, sent, announced, header, agreed, wire, status, cur_pos,
              cur_size, has_mask, data_len, received, aligned, in_step>>
login    == <<down, up, checker, send_ptr, enc_pass, ready, acc, overdue, heard,
              step, rsa_key, right, length, pass_pos, pass_ptr>>
all      == <<part, vars, commands, frames, login>>

AnyInit ==
  /\ part \in {"loop", "commands", "frames", "login"}
  /\ Init
  /\ C!Init
  /\ part # "frames" => browser = FALSE
  /\ W!Init
  /\ part = "login" \/ (right = TRUE /\ length = 0)
  /\ G!Init

AnyNext ==
  \/ part = "loop" /\ Next /\ UNCHANGED <<part, commands, frames, login>>
  \/ part = "commands" /\ C!Next /\ UNCHANGED <<part, vars, frames, login>>
  \/ part = "frames" /\ W!Next /\ UNCHANGED <<part, vars, commands, login>>
  \/ part = "login" /\ G!Next /\ UNCHANGED <<part, vars, commands, frames>>

\* Each part's fairness, where the part runs at all.
Fairness ==
  /\ WF_vars(part = "loop" /\ Serve)
  /\ WF_commands(part = "commands" /\ C!Writes)
  /\ WF_frames(part = "frames" /\ W!Writes)
  /\ WF_frames(part = "frames" /\ W!Reads)
  /\ WF_login(part = "login" /\ G!Serves)
  /\ WF_login(part = "login" /\ G!Enters)

AnySpec == AnyInit /\ [][AnyNext]_all /\ Fairness

(***************************************************************************)
(* The parts' properties; those of the loop are in Server.                 *)
(***************************************************************************)

\* The state of every part has its types and ranges.
TypesOK == TypeOK /\ C!TypeOK /\ W!TypeOK /\ G!TypeOK

\* Whoever hears the player is on the local socket or had the password, and nothing
\* of the packet with it is taken for a command.
OnlyAdmitted == ClientsAdmitted /\ G!AdmittedByPassword

\* The player gets whole commands, each client's in their order.
ImplementsCommands == C!ImplementsCommands

\* What is received from frames is what was sent in them, while both sides agree on
\* their lengths.
InOrder == W!InOrder

\* What the clients have written reaches the player, what is sent in frames is
\* received, and a login ends with a client that is heard or with a reason.
AllArrives == C!RingEmpties /\ W!AllArrives /\ (part = "login" => G!Settles)
=============================================================================
