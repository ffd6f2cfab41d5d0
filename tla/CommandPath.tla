----------------------------- MODULE CommandPath -----------------------------
(***************************************************************************)
(* The way from the clients to the player in the multiplexing server:      *)
(* clients_wrapper_t::read takes what a client has written, in pieces as   *)
(* they come, and hands over whole commands only; com_wrapper_t keeps them *)
(* in a ring until the player's device has taken them, and asks to be      *)
(* polled for that only while there are any.                               *)
(***************************************************************************)
EXTENDS RingBuffer, SequencesExt

CONSTANTS
  Client,
  Commands,          \* the commands each client writes in its life, strings; a
                     \* byte stands for its value and the command it begins, so
                     \* that the first of each tells it from all the others
  calc_need_rd,      \* how long a command is that begins with the byte
  MaxRead            \* 64 + sizeof(find_pattern), bytes read at once

CommandPathAssumption ==
  /\ Commands \in [Client -> Seq(Seq(Byte))]
  /\ calc_need_rd \in [Byte -> Nat \ {0}]
  /\ MaxRead \in Nat \ {0}
  /\ \A f \in Client : \A k \in DOMAIN Commands[f] :
       /\ Commands[f][k] # <<>>
       /\ Len(Commands[f][k]) = calc_need_rd[Commands[f][k][1]]
       /\ \A g \in Client : \A l \in DOMAIN Commands[g] :
            Commands[f][k][1] \in ToSet(Commands[g][l]) => f = g /\ k = l

VARIABLES
  clients,           \* those that are connected
  unread,            \* what they have still to send
  readed_data,       \* the begin of a command
  data, pos,         \* the ring; the number of the next byte for the player
  polled,            \* the player's device is polled for EPOLLOUT
  player             \* what the player has got

com  == <<data, pos, polled>>
vars == <<clients, unread, readed_data, com, player>>

Init ==
  /\ clients = Client
  /\ unread = [f \in Client |-> FlattenSeq(Commands[f])]
  /\ readed_data = [f \in Client |-> <<>>]
  /\ data = EmptyRing
  /\ pos = 0
  /\ polled = FALSE
  /\ player = <<>>

Rest(s, p) == SubSeq(s, p, Len(s))

\* Up to which byte a string consists of whole commands.
inc_command_ptr(s) ==
  LET next[p \in 0 .. Len(s)] ==
        IF p = Len(s) \/ p + calc_need_rd[s[p + 1]] > Len(s) THEN p
        ELSE next[p + calc_need_rd[s[p + 1]]]
  IN next[0]

AllOf(s) == Len(s)                                 \* mutant: begun commands too
Whole(s) == inc_command_ptr(s)

StaysSilent(old) == polled                         \* mutant: is not polled again
Woken(old) == polled \/ pos = old

Lowered(diff) == pos - diff

\* com_wrapper_t::append
append(value) ==
  IF value = <<>> THEN UNCHANGED com
  ELSE /\ data' = add(data, value)
       /\ polled' = Woken(end(data))
       /\ pos' = Lowered(AddDiff(Grown(data, Len(value)), value))

\* A client is read, and what it has completed is appended.
read(f, n) ==
  /\ f \in clients
  /\ n \in 1 .. MaxRead /\ n <= Len(unread[f])
  /\ LET ans == readed_data[f] \o SubSeq(unread[f], 1, n)
         cut == Whole(ans)
     IN /\ readed_data' = [readed_data EXCEPT ![f] = Rest(ans, cut + 1)]
        /\ append(SubSeq(ans, 1, cut))
  /\ unread' = [unread EXCEPT ![f] = Rest(@, n + 1)]
  /\ UNCHANGED <<clients, player>>

\* The client hangs up, or cannot be read any more.
unreg(f) ==
  /\ f \in clients
  /\ clients' = clients \ {f}
  /\ readed_data' = [readed_data EXCEPT ![f] = <<>>]
  /\ UNCHANGED <<unread, com, player>>

PolledOn(p, r) == p # end(r)

\* com_wrapper_t::write: the device takes n of the bytes it is given, none when
\* it was interrupted.
write(n) ==
  /\ polled
  /\ n \in 0 .. WriteCount(data, pos)
  /\ player' = player \o SubSeq(Given(data, pos), 1, n)
  /\ data' = erase(data, n)
  /\ pos' = pos + n
  /\ polled' = PolledOn(pos + n, erase(data, n))
  /\ UNCHANGED <<clients, unread, readed_data>>

Writes == \E n \in 1 .. WriteCount(data, pos) : write(n)

Next ==
  \/ \E f \in Client, n \in 1 .. MaxRead : read(f, n)
  \/ \E f \in Client : unreg(f)
  \/ write(0)
  \/ Writes

Spec == Init /\ [][Next]_vars

\* The device takes bytes when it is asked again and again.
Fairness == WF_vars(Writes)

FairSpec == Spec /\ Fairness

(***************************************************************************)
(* Properties.                                                             *)
(***************************************************************************)

\* The ring is one, and what is written is erased at once.
TypeOK ==
  /\ RingTypeOK(data)
  /\ pos = begin(data)
  /\ clients \subseteq Client
  /\ unread \in [Client -> Seq(Byte)] /\ readed_data \in [Client -> Seq(Byte)]
  /\ polled \in BOOLEAN
  /\ player \in Seq(Byte)

\* What has been given to the ring goes to the player as it is, and consists of
\* whole commands, each client's in their order, none twice and none within
\* another, though they come in pieces and clients hang up amid a command.
Stream == INSTANCE CommandStream WITH line <- player \o From(data, pos)
ImplementsCommands == Stream!Spec

\* All of it reaches the player.
RingEmpties == []<>(pos = end(data))
=============================================================================
