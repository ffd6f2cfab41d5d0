--------------------------------- MODULE Login ---------------------------------
(***************************************************************************)
(* How the sender of commands over TCP proves itself to the multiplexing   *)
(* server: client_socket_t (command_sender_tcp/src/send_password.cpp) and  *)
(* pass_checker (multiplex_server/src/pass_checker.h), which send each     *)
(* other a packet with sender_data_len and receive it with recver_data_len *)
(* (packet_len_data).  The sockets take and give any part of what they are *)
(* asked for, and the client goes on to its first command as soon as the   *)
(* password is sent.                                                       *)
(*                                                                         *)
(* A packet is the cells of its length and of its value.  The key and the  *)
(* password that it encrypts are cells that say which; a password that was *)
(* decrypted is right or wrong.  When the checker is asked, and what is    *)
(* polled for, is in Server; here it is what each side does next.          *)
(***************************************************************************)
EXTENDS Integers, Sequences

CONSTANTS
  sizeof_len,           \* 4
  key_size,             \* of the key's text
  rsa_size,             \* of what it encrypts
  max_plain,            \* the longest password that it encrypts
  pass_buff_size        \* 1024

LoginAssumption ==
  /\ {sizeof_len, key_size, rsa_size, pass_buff_size} \subseteq Nat \ {0}
  /\ max_plain \in 0 .. pass_buff_size - 1

VARIABLES
  down, up,             \* the wires to the client and to the server
  checker,              \* "asks", "client" or "closed": who has the connection
  send_ptr,             \* of the server's key
  enc_pass,             \* what the server has received of the packet
  ready, acc, late,
  heard,                \* what the server has read as a client's commands
  status, rsa_key,      \* the client
  right, length,        \* the password that will be typed
  pass_pos,             \* how much of it was
  pass_ptr              \* how much of the packet with it was sent

server == <<checker, send_ptr, enc_pass, ready, acc, late, heard>>
client == <<status, rsa_key, pass_pos, pass_ptr>>
vars   == <<down, up, server, client, right, length>>

Packet(kind, size) ==
  [i \in 1 .. sizeof_len |-> <<"len", size>>] \o [i \in 1 .. size |-> <<kind, i>>]

Key == Packet("key", key_size)
Password == Packet(IF right THEN "right" ELSE "wrong", rsa_size)
send_info == <<"info", 1>>

(***************************************************************************)
(* sender_data_len::write and recver_data_len::read: a part of the length, *)
(* or a part of the value.                                                 *)
(***************************************************************************)
BoundOf(packet, ptr) == IF ptr < sizeof_len THEN sizeof_len ELSE Len(packet)

IsWritten(packet, ptr, wire, ptr_after, wire_after) ==
  \E n \in ptr + 1 .. BoundOf(packet, ptr) :
    /\ ptr_after = n
    /\ wire_after = wire \o SubSeq(packet, ptr + 1, n)

SizeOf(got) == sizeof_len + got[sizeof_len][2]

Asks(got) == IF Len(got) < sizeof_len THEN sizeof_len ELSE SizeOf(got)

IsRead(got, wire, got_after, wire_after) ==
  \E n \in 1 .. Len(wire) :
    /\ Len(got) + n <= Asks(got)
    /\ got_after = got \o SubSeq(wire, 1, n)
    /\ wire_after = SubSeq(wire, n + 1, Len(wire))

Whole(got) == Len(got) >= sizeof_len /\ Len(got) = SizeOf(got)

(***************************************************************************)
(* pass_checker                                                            *)
(***************************************************************************)
SendKey ==
  /\ checker = "asks" /\ ~ready /\ send_ptr < Len(Key)
  /\ IsWritten(Key, send_ptr, down, send_ptr', down')
  /\ UNCHANGED <<up, checker, enc_pass, ready, acc, late, heard, client, right, length>>

check_pass(got) == SubSeq(got, sizeof_len + 1, Len(got)) = [i \in 1 .. rsa_size |-> <<"right", i>>]

TooBig(got) == Len(got) = sizeof_len /\ got[sizeof_len][2] > rsa_size

ReadPassword ==
  /\ checker = "asks" /\ ~ready /\ send_ptr = Len(Key)
  /\ IsRead(enc_pass, up, enc_pass', up')
  /\ ready' = (TooBig(enc_pass') \/ Whole(enc_pass'))
  /\ acc' = (Whole(enc_pass') /\ check_pass(enc_pass'))
  /\ UNCHANGED <<down, checker, send_ptr, late, heard, client, right, length>>

MinuteOver ==
  /\ checker = "asks" /\ ~late /\ late' = TRUE
  /\ UNCHANGED <<down, up, checker, send_ptr, enc_pass, ready, acc, heard, client, right, length>>

\* authentificator_t::check_all
CheckReady ==
  /\ checker = "asks" /\ (ready \/ late)
  /\ checker' = IF acc THEN "client" ELSE "closed"
  /\ UNCHANGED <<down, up, send_ptr, enc_pass, ready, acc, late, heard, client, right, length>>

\* The client has closed its socket.
NoticeGone ==
  /\ status = "exit" /\ checker # "closed"
  /\ checker' = "closed"
  /\ UNCHANGED <<down, up, send_ptr, enc_pass, ready, acc, late, heard, client, right, length>>

\* clients_wrapper_t::read
ServeClient ==
  /\ checker = "client" /\ up # <<>>
  /\ heard' = heard \o up /\ up' = <<>>
  /\ UNCHANGED <<down, checker, send_ptr, enc_pass, ready, acc, late, client, right, length>>

(***************************************************************************)
(* client_socket_t                                                         *)
(***************************************************************************)
connect ==
  /\ status = "in_connect" /\ status' = "get_rsa_key"
  /\ UNCHANGED <<down, up, server, rsa_key, pass_pos, pass_ptr, right, length>>

ReadKey ==
  /\ status = "get_rsa_key"
  /\ IsRead(rsa_key, down, rsa_key', down')
  /\ status' = IF Whole(rsa_key') THEN "read_password" ELSE status
  /\ UNCHANGED <<up, server, pass_pos, pass_ptr, right, length>>

\* A character, or the end of the line.  A password that is too long for the buffer
\* or for the key ends the client.
TypePassword ==
  /\ status = "read_password"
  /\ IF pass_pos = length
       THEN /\ status' = IF length <= max_plain THEN "send_password" ELSE "exit"
            /\ UNCHANGED pass_pos
       ELSE /\ status' = IF pass_pos + 1 = pass_buff_size THEN "exit" ELSE status
            /\ pass_pos' = pass_pos + 1
  /\ UNCHANGED <<down, up, server, rsa_key, pass_ptr, right, length>>

SendPassword ==
  /\ status = "send_password"
  /\ IsWritten(Password, pass_ptr, up, pass_ptr', up')
  /\ status' = IF pass_ptr' = Len(Password) THEN "connected" ELSE status
  /\ UNCHANGED <<down, server, rsa_key, pass_pos, right, length>>

\* interactive, which sends a command before it has read anything.
Interactive ==
  /\ status = "connected" /\ status' = "interactive"
  /\ up' = Append(up, send_info)
  /\ UNCHANGED <<down, server, rsa_key, pass_pos, pass_ptr, right, length>>

HangUp ==
  /\ checker = "closed" /\ status # "exit"
  /\ status' = "exit"
  /\ UNCHANGED <<down, up, server, rsa_key, pass_pos, pass_ptr, right, length>>

Init ==
  /\ down = <<>> /\ up = <<>>
  /\ checker = "asks" /\ send_ptr = 0 /\ enc_pass = <<>>
  /\ ready = FALSE /\ acc = FALSE /\ late = FALSE /\ heard = <<>>
  /\ status = "in_connect" /\ rsa_key = <<>>
  /\ right \in BOOLEAN /\ length \in 0 .. pass_buff_size
  /\ pass_pos = 0 /\ pass_ptr = 0

Serves == SendKey \/ ReadPassword \/ CheckReady \/ NoticeGone \/ ServeClient
Enters == connect \/ ReadKey \/ TypePassword \/ SendPassword \/ Interactive \/ HangUp

Next == Serves \/ Enters \/ MinuteOver

(***************************************************************************)
(* Properties.                                                             *)
(***************************************************************************)

\* Neither side has more of a packet than there is of it.
TypeOK ==
  /\ checker \in {"asks", "client", "closed"}
  /\ send_ptr \in 0 .. Len(Key) /\ pass_ptr \in 0 .. Len(Password)
  /\ Len(rsa_key) <= Len(Key) /\ Len(enc_pass) <= Len(Password)
  /\ ready \in BOOLEAN /\ late \in BOOLEAN /\ acc \in {FALSE, ready}
  /\ status \in {"in_connect", "get_rsa_key", "read_password", "send_password",
                 "connected", "interactive", "exit"}
  /\ right \in BOOLEAN /\ length \in 0 .. pass_buff_size /\ pass_pos \in 0 .. length

\* Only who had the password is a client, and what it says as one is what it sent
\* after the packet: nothing of the packet is taken for a command, and the first
\* command, which may be there together with the packet's end, is not taken for the
\* packet.
AdmittedByPassword ==
  /\ checker = "client" => right /\ enc_pass = Password
  /\ heard \in {<<>>, <<send_info>>}

\* A login ends: with a client that is heard, or closed because the password was
\* wrong, too long or late; the two sides never wait for each other.
Settles ==
  <>(\/ checker = "client" /\ heard = <<send_info>>
     \/ checker = "closed" /\ (late \/ ~right \/ length > max_plain))
=============================================================================
