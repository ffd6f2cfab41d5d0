--------------------------- MODULE ClientsWrapper ---------------------------
(***************************************************************************)
(* The way from the player to the clients in the multiplexing server:      *)
(* clients_wrapper_t keeps what the player sent in a ring until every      *)
(* client has it.  A client has the number of the next byte it is to get;  *)
(* less_size orders the clients by that number, not_registred holds those  *)
(* that are not polled for EPOLLOUT because they have everything.          *)
(*                                                                         *)
(* A turn of the server's loop is remove_too_big and then a batch of       *)
(* events, among them at most one of the player's descriptor.              *)
(***************************************************************************)
EXTENDS RingBuffer, FiniteSets

CONSTANTS
  Client,            \* descriptors that clients can have
  StructSize,        \* inc_struct_ptr
  max_capacity,      \* 4 MB
  max_clients,       \* 1000
  MaxRead            \* 512, bytes of the player read at once

ASSUME ClientsAssumption ==
  /\ StructSize \in [Byte -> Nat \ {0}]
  /\ \A b \in Byte : StructSize[b] <= max_capacity
  /\ max_capacity \in Nat
  /\ max_clients \in Nat
  /\ MaxRead \in Nat \ {0}
  /\ max_capacity + MaxRead < HistoryMax

\* A value of StructSize for TLC: bytes 1 and 2 begin structures of one and three bytes.
StructSizes == [b \in Byte |-> 2 * b - 1]

VARIABLES
  data, last_full_struct_ptr,
  pointers,          \* client -> number of the next byte it gets
  less_size, not_registred,
  polled,            \* the clients that epoll reports when they can be written
  turn               \* "events"; "read": the player's event is over;
                     \* "drop": in the loop of remove_too_big

vars == <<data, last_full_struct_ptr, pointers, less_size, not_registred,
          polled, turn>>

Clients == DOMAIN pointers
Pos(p, f) == [offset |-> p, fd |-> f]

Init ==
  /\ data = EmptyRing
  /\ last_full_struct_ptr = 0
  /\ pointers = [f \in {} |-> 0]
  /\ less_size = {} /\ not_registred = {} /\ polled = {}
  /\ turn = "events"

InEvents == turn \in {"events", "read"}

MinOverClients(less, lf) ==                   \* mutant: the last struct is freed
  IF less = {} THEN lf ELSE (CHOOSE p \in less : \A q \in less : p.offset <= q.offset).offset

\* The number of the first byte that a client or the next one to join needs.
MinPtr(less, lf) ==
  LET offsets == {p.offset : p \in less} \cup {lf}
  IN CHOOSE p \in offsets : \A q \in offsets : p <= q

shrink_to_fit(less) ==
  data' = erase(data, MinPtr(less, last_full_struct_ptr) - begin(data))

\* A client is polled for EPOLLOUT unless it has everything.
RegMask(f) ==
  IF last_full_struct_ptr # end(data)
    THEN polled' = polled \cup {f} /\ not_registred' = not_registred
    ELSE polled' = polled /\ not_registred' = not_registred \cup {f}

\* Over max_clients the descriptor is closed and nothing else happens.
reg(f) ==
  /\ InEvents
  /\ f \in Client \ Clients
  /\ Cardinality(Clients) < max_clients
  /\ pointers' = [g \in Clients \cup {f} |->
                    IF g = f THEN last_full_struct_ptr ELSE pointers[g]]
  /\ less_size' = less_size \cup {Pos(last_full_struct_ptr, f)}
  /\ RegMask(f)
  /\ UNCHANGED <<data, last_full_struct_ptr, turn>>

Forget(f) ==
  /\ less_size' = less_size \ {Pos(pointers[f], f)}
  /\ not_registred' = not_registred \ {f}
  /\ polled' = polled \ {f}
  /\ pointers' = [g \in Clients \ {f} |-> pointers[g]]
  /\ shrink_to_fit(less_size')
  /\ UNCHANGED last_full_struct_ptr

\* The client has gone, or reading from it or writing to it failed.
unreg(f) ==
  /\ InEvents
  /\ f \in Clients
  /\ Forget(f)
  /\ UNCHANGED turn

\* The socket takes wb of the bytes it is given, none when it was interrupted.
write(f, wb) ==
  /\ InEvents
  /\ f \in Clients \cap polled
  /\ wb \in 0 .. WriteCount(data, pointers[f])
  /\ LET p == pointers[f] + wb IN
     /\ pointers' = [pointers EXCEPT ![f] = p]
     /\ less_size' = (less_size \ {Pos(pointers[f], f)}) \cup {Pos(p, f)}
     /\ IF p = end(data)
          THEN polled' = polled \ {f} /\ not_registred' = not_registred \cup {f}
          ELSE UNCHANGED <<polled, not_registred>>
  /\ shrink_to_fit(less_size')
  /\ UNCHANGED <<last_full_struct_ptr, turn>>

\* From number p on, over every structure that has come whole.
LastFull(r, p) ==
  LET next[q \in p .. end(r)] ==
        IF q = end(r) \/ q + StructSize[Get(r, q)] > end(r) THEN q
        ELSE next[q + StructSize[Get(r, q)]]
  IN next[p]

Lowered(diff) == {Pos(p.offset - diff, p.fd) : p \in less_size}

WakesOne == {f \in not_registred : \A g \in not_registred : g <= f} \* mutant

\* The clients that append makes epoll report again.
Woken == not_registred

append(v) ==
  /\ turn = "events"
  /\ data' = add(data, v)
  /\ LET diff == AddDiff(data, v) IN
     /\ less_size' = Lowered(diff)
     /\ pointers' = [f \in Clients |-> pointers[f] - diff]
     /\ last_full_struct_ptr' = LastFull(data', last_full_struct_ptr - diff)
  /\ polled' = polled \cup Woken
  /\ not_registred' = {}
  /\ turn' = "read"

(***************************************************************************)
(* The start of a turn: remove_too_big.                                    *)
(***************************************************************************)

remove_too_big ==
  /\ InEvents
  /\ IF data.size_v > max_capacity
       THEN turn' = "drop" /\ UNCHANGED data
       ELSE turn' = "events" /\ shrink_to_fit(less_size)
  /\ UNCHANGED <<last_full_struct_ptr, pointers, less_size, not_registred, polled>>

TooFarBehind(p) == p.offset + max_capacity \div 2 < end(data)

LastPos(p) ==                                      \* mutant: from the other end
  p \in less_size /\ \A q \in less_size : q.offset <= p.offset

FirstPos(p) == p \in less_size /\ \A q \in less_size : p.offset <= q.offset

\* Among clients at the same place the code takes the least descriptor.
DropFirst ==
  /\ turn = "drop"
  /\ \E p \in less_size :
       /\ FirstPos(p)
       /\ TooFarBehind(p)
       /\ Forget(p.fd)
  /\ UNCHANGED turn

DropEnds ==
  /\ turn = "drop"
  /\ \A p \in less_size : FirstPos(p) => ~TooFarBehind(p)
  /\ turn' = "events"
  /\ shrink_to_fit(less_size)
  /\ UNCHANGED <<last_full_struct_ptr, pointers, less_size, not_registred, polled>>

Reads == UNION {[1 .. n -> Byte] : n \in 1 .. MaxRead}

Next ==
  \/ \E f \in Client : reg(f)
  \/ \E f \in Client : unreg(f)
  \/ \E f \in Clients : \E wb \in 0 .. WriteCount(data, pointers[f]) : write(f, wb)
  \/ \E v \in Reads : append(v)
  \/ remove_too_big
  \/ DropFirst
  \/ DropEnds

Spec == Init /\ [][Next]_vars

Delivery(f) ==
  f \in Clients /\ \E wb \in 1 .. WriteCount(data, pointers[f]) : write(f, wb)

\* epoll reports a descriptor as long as it can be written, and a client that
\* stays reads what it is sent; the loop goes round.
FairSpec ==
  /\ Spec
  /\ \A f \in Client : WF_vars(Delivery(f))
  /\ WF_vars(turn = "drop" /\ (DropFirst \/ DropEnds))

(***************************************************************************)
(* Properties.                                                             *)
(***************************************************************************)

\* The numbers that are kept are numbers of bytes in the ring or of its end.
TypeOK ==
  /\ RingTypeOK(data)
  /\ last_full_struct_ptr \in begin(data) .. end(data)
  /\ pointers \in [Clients -> begin(data) .. end(data)]
  /\ Clients \subseteq Client
  /\ less_size \subseteq [offset : Nat, fd : Client]
  /\ not_registred \subseteq Client /\ polled \subseteq Client
  /\ turn \in {"events", "read", "drop"}

\* The ring keeps each client's place through erase, growth, a new start of
\* the numbers and the loss of clients: the server implements the broadcast.
Stream == INSTANCE Broadcast WITH
  left <- [f \in Clients |-> From(data, pointers[f])],
  tail <- From(data, last_full_struct_ptr)

ImplementsBroadcast == Stream!Spec

\* What a socket is given to write are the next bytes its client has to get,
\* though the ring goes round and moves between two writes.
GivesNext ==
  \A f \in Clients :
    LET given == Given(data, pointers[f]) IN
    /\ given = SubSeq(From(data, pointers[f]), 1, Len(given))
    /\ pointers[f] # end(data) => given # <<>>

\* less_size, by which the ring is freed and slow clients are found, has every
\* client once, at its place.
LessSizeMatches == less_size = {Pos(pointers[f], f) : f \in Clients}

\* No client waits for bytes that epoll will not wake it for, and epoll is not
\* asked for clients that have everything, which would spin.
WokenWhenBehind ==
  /\ polled = {f \in Clients : pointers[f] # end(data)}
  /\ not_registred = Clients \ polled

\* Slow clients cannot make the server's memory grow: the history is bounded by
\* max_capacity and one read of the player, the allocation by the history.
MemoryBounded ==
  /\ data.size_v <= max_capacity + MaxRead
  /\ data.capacity <= data.size_v + 2 * size_inc_value

\* When the player is silent, a client that stays gets everything it sent.
Delivers ==
  \A f \in Client :
    <>[](turn # "read") => []<>(f \in Clients => pointers[f] = end(data))
=============================================================================
