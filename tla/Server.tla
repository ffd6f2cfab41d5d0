-------------------------------- MODULE Server --------------------------------
(***************************************************************************)
(* The loop of the multiplexing server (multiplex_server/src/server.cpp)   *)
(* and the containers that own its connections: clients hears and is       *)
(* heard; auth, web_init and web_auth (authentificator.h) have those that  *)
(* have still to prove themselves.  A turn takes a batch of events from    *)
(* epoll, handles them one by one, then goes through those with an error   *)
(* once more, and then moves on or closes whoever is ready or too late.    *)
(*                                                                         *)
(* A descriptor is a number, and accept gives the lowest that is closed, so *)
(* a number comes back.  Connections are numbered in the order of accept.  *)
(* What is said on a connection is left out; that of clients is in          *)
(* ClientsWrapper and CommandPath, web sockets' frames are in WebSocket.    *)
(* accept and epoll_ctl do not fail, and the player does not go.            *)
(***************************************************************************)
EXTENDS Integers, FiniteSets

CONSTANTS
  Fd,                \* descriptors for connections
  conn_sock, tcp_server_sock, web_server_sock,
  max_auth,          \* max_clients of authentificator_t, 100
  max_clients,       \* 1000
  MaxConnections     \* bound: how many there are in a behaviour

Listener == {conn_sock, tcp_server_sock, web_server_sock}

ASSUME ServerAssumption ==
  /\ Fd \subseteq Nat /\ IsFiniteSet(Fd)
  /\ Listener \subseteq Int \ Fd /\ Cardinality(Listener) = 3
  /\ max_auth \in Nat /\ max_clients \in Nat
  /\ MaxConnections \in Nat

VARIABLES
  connection,        \* descriptor -> its connection, 0 when it is closed
  count,             \* how many there were
  gone,              \* connections the other side has closed or broken
  clients,           \* descriptors
  auth, web_init, web_auth,  \* descriptor -> what its checker waits for
  interest,          \* what epoll reports of a descriptor, errors apart
  registered,        \* the descriptors that epoll has
  late,              \* descriptors whose minute is over
  events, todo,      \* the batch, and what is left of it
  pc,
  admitted           \* history: connections of the local socket, and those
                     \* that had the password

owners == <<clients, auth, web_init, web_auth>>
kernel == <<connection, count, interest, registered>>
vars   == <<kernel, gone, owners, late, events, todo, pc, admitted>>

Open == {fd \in Fd : connection[fd] # 0}
Event(fd, mask) == [fd |-> fd, mask |-> mask, of |-> IF fd \in Fd THEN connection[fd] ELSE 0]

Without(c, fd) == [g \in DOMAIN c \ {fd} |-> c[g]]
With(c, fd, s) == [g \in DOMAIN c \cup {fd} |-> IF g = fd THEN s ELSE c[g]]

Init ==
  /\ connection = [fd \in Fd |-> 0] /\ count = 0 /\ gone = {}
  /\ clients = {}
  /\ auth = [fd \in {} |-> ""] /\ web_init = auth /\ web_auth = auth
  /\ interest = [fd \in Fd |-> {}] /\ registered = {}
  /\ late = {} /\ events = {} /\ todo = {}
  /\ pc = "wait" /\ admitted = {}

(***************************************************************************)
(* epoll and the kernel                                                    *)
(***************************************************************************)
Close(fd) ==
  /\ connection' = [connection EXCEPT ![fd] = 0]
  /\ interest' = [interest EXCEPT ![fd] = {}]
  /\ registered' = registered \ {fd}
  /\ late' = late \ {fd}

\* fd is connection id's, and epoll has it.
Becomes(fd, id, mask) ==
  /\ connection' = [connection EXCEPT ![fd] = id]
  /\ interest' = [interest EXCEPT ![fd] = mask]
  /\ registered' = registered \cup {fd}
  /\ late' = late \ {fd}

\* The other side goes.
HangUp(c) ==
  /\ c \in {connection[fd] : fd \in Open} \ gone
  /\ gone' = gone \cup {c}
  /\ UNCHANGED <<kernel, owners, late, events, todo, pc, admitted>>

\* A minute is over for somebody who has still to prove himself.
MinuteOver(fd) ==
  /\ pc = "wait"
  /\ fd \in (DOMAIN auth \cup DOMAIN web_init \cup DOMAIN web_auth) \ late
  /\ late' = late \cup {fd}
  /\ UNCHANGED <<kernel, gone, owners, events, todo, pc, admitted>>

\* What epoll may report of a descriptor: errors whenever there are any.
Reports(fd) ==
  IF connection[fd] \in gone THEN {interest[fd] \cup {"err"}}
                             ELSE SUBSET interest[fd] \ {{}}

\* The batch: everyone who has gone, and any of the others who are ready.
Wait ==
  /\ pc = "wait"
  /\ \E knocking \in SUBSET Listener, ready \in SUBSET registered :
       /\ {fd \in registered : connection[fd] \in gone} \subseteq ready
       /\ Cardinality(knocking) <= MaxConnections - count
       /\ Cardinality(knocking) <= Cardinality(Fd \ Open)
       /\ knocking # {} \/ ready # {}
       /\ \E mask \in [ready -> SUBSET {"in", "out", "err"}] :
            /\ \A fd \in ready : mask[fd] \in Reports(fd)
            /\ events' = {Event(fd, mask[fd]) : fd \in ready}
                           \cup {Event(l, {"in"}) : l \in knocking}
  /\ todo' = events'
  /\ pc' = "events"
  /\ UNCHANGED <<kernel, gone, owners, late, admitted>>

(***************************************************************************)
(* The containers.  A connection that one has no room for is closed.       *)
(***************************************************************************)
Lowest == CHOOSE fd \in Fd \ Open : \A g \in Fd \ Open : fd <= g

\* How a checker goes on when it may read or write: pass_checker sends its key
\* and receives the password, web_socket_init_t receives the request and
\* answers.  "too big" is refused before it has come; "no" and "yes" are the end.
Progress ==
  {<<"send", "out", "recv">>, <<"recv", "in", "too big">>,
   <<"recv", "in", "no">>, <<"recv", "in", "yes">>,
   <<"key", "in", "no">>, <<"key", "in", "answer">>, <<"answer", "out", "yes">>}

CheckerState == {p[1] : p \in Progress} \cup {p[3] : p \in Progress}

\* A part of what is expected changes nothing.
StepsTo(s, mask) ==
  {s} \cup {p[3] : p \in {q \in Progress : q[1] = s /\ q[2] \in mask}}

PollsOn(s) == IF s \in {"send", "answer"} THEN {"out"} ELSE {"in"}
                                                   \* mutant: polls to the end
Polls(s) ==
  IF s \in {"send", "answer"} THEN {"out"}
  ELSE IF s \in {"no", "yes"} THEN {} ELSE {"in"}

FullNever(c) == FALSE                              \* mutant: no limit
Full(c) == Cardinality(DOMAIN c) > max_auth

OneInstead(c, fd) == CHOOSE g \in DOMAIN c : TRUE    \* mutant: another is closed
Refused(c, fd) == fd

\* Connection id is added as fd.
add(c, fd, id, s) ==
  IF Full(c)
    THEN Close(Refused(c, fd)) /\ UNCHANGED c
    ELSE /\ c' = With(c, fd, s)
         /\ Becomes(fd, id, Polls(s))

reg(fd, id) ==
  IF Cardinality(clients) >= max_clients
    THEN Close(fd) /\ UNCHANGED clients
    ELSE /\ clients' = clients \cup {fd}
         /\ Becomes(fd, id, {"in", "out"})

remove(c, fd) == c' = Without(c, fd) /\ Close(fd)

unreg(fd) == clients' = clients \ {fd} /\ Close(fd)

(***************************************************************************)
(* The events of a batch, in any order.                                    *)
(***************************************************************************)
Accept(l) ==
  LET fd == Lowest
      id == count + 1
  IN /\ count' = id
     /\ \/ /\ l = conn_sock
           /\ reg(fd, id)
           /\ admitted' = admitted \cup {id}
           /\ UNCHANGED <<auth, web_init, web_auth>>
        \/ /\ l = tcp_server_sock
           /\ add(auth, fd, id, "send")
           /\ UNCHANGED <<clients, web_init, web_auth, admitted>>
        \/ /\ l = web_server_sock
           /\ add(web_init, fd, id, "key")
           /\ UNCHANGED <<clients, auth, web_auth, admitted>>

\* Reading from a client or writing to it fails only if it has gone.
ServeClient(e) ==
  /\ \/ /\ connection[e.fd] \in gone
        /\ unreg(e.fd)
     \/ UNCHANGED <<clients, connection, interest, registered, late>>
  /\ UNCHANGED <<count, auth, web_init, web_auth, admitted>>

\* So does a checker's read or write; otherwise it goes on.
just_do(c, e) ==
  \/ /\ connection[e.fd] \in gone
     /\ remove(c, e.fd)
     /\ UNCHANGED admitted
  \/ \E s \in StepsTo(c[e.fd], e.mask) :
       /\ c' = [c EXCEPT ![e.fd] = s]
       /\ interest' = [interest EXCEPT ![e.fd] = Polls(s)]
       /\ admitted' = IF c[e.fd] = "recv" /\ s = "yes"
                        THEN admitted \cup {connection[e.fd]} ELSE admitted
       /\ UNCHANGED <<connection, registered, late>>

HandleEvent(e) ==
  /\ pc = "events" /\ e \in todo
  /\ todo' = todo \ {e}
  /\ \/ e.fd \in Listener /\ Accept(e.fd)
     \/ e.fd \in clients /\ ServeClient(e)
     \/ /\ e.fd \in DOMAIN auth
        /\ just_do(auth, e)
        /\ UNCHANGED <<count, clients, web_init, web_auth>>
     \/ /\ e.fd \in DOMAIN web_init
        /\ just_do(web_init, e)
        /\ UNCHANGED <<count, clients, auth, web_auth>>
     \/ /\ e.fd \in DOMAIN web_auth
        /\ just_do(web_auth, e)
        /\ UNCHANGED <<count, clients, auth, web_init>>
  /\ UNCHANGED <<gone, events, pc>>

OnlyError(e) == e.mask = {"err"}                   \* mutant: if nothing else is reported
HasError(e) == "err" \in e.mask

EventsDone ==
  /\ pc = "events" /\ todo = {}
  /\ todo' = {e \in events : HasError(e)}
  /\ pc' = "errors"
  /\ UNCHANGED <<kernel, gone, owners, late, events, admitted>>

\* "errors / close handle": whoever has the descriptor now is closed.
HandleError(e) ==
  /\ pc = "errors" /\ e \in todo
  /\ todo' = todo \ {e}
  /\ \/ /\ e.fd \in DOMAIN auth
        /\ remove(auth, e.fd)
        /\ UNCHANGED <<clients, web_init, web_auth>>
     \/ /\ e.fd \in DOMAIN web_init
        /\ remove(web_init, e.fd)
        /\ UNCHANGED <<clients, auth, web_auth>>
     \/ /\ e.fd \in DOMAIN web_auth
        /\ remove(web_auth, e.fd)
        /\ UNCHANGED <<clients, auth, web_init>>
     \/ /\ e.fd \in clients
        /\ unreg(e.fd)
        /\ UNCHANGED <<auth, web_init, web_auth>>
     \/ /\ e.fd \notin Open
        /\ UNCHANGED <<owners, connection, interest, registered, late>>
  /\ UNCHANGED <<count, gone, events, pc, admitted>>

ErrorsDone ==
  /\ pc = "errors" /\ todo = {}
  /\ events' = {}
  /\ pc' = "auth"
  /\ UNCHANGED <<kernel, gone, owners, late, todo, admitted>>

(***************************************************************************)
(* check_all, for each of the three: who is ready is moved on or closed,   *)
(* who is late is closed.                                                  *)
(***************************************************************************)
AcceptsAll(s) == s \in {"no", "yes", "too big"}      \* mutant: is_acc not asked
is_acc(s) == s = "yes"
is_ready(s) == s \in {"no", "yes", "too big"}

Due(c) == {fd \in DOMAIN c : is_ready(c[fd]) \/ fd \in late}

KeptInList(c, fd) == c                              \* mutant: fd is not erased
Erased(c, fd) == Without(c, fd)

CheckAuth(fd) ==
  /\ pc = "auth" /\ fd \in Due(auth)
  /\ auth' = Erased(auth, fd)
  /\ IF is_acc(auth[fd]) THEN reg(fd, connection[fd])
                         ELSE Close(fd) /\ UNCHANGED clients
  /\ UNCHANGED <<count, gone, web_init, web_auth, events, todo, pc, admitted>>

CheckWebInit(fd) ==
  /\ pc = "web_init" /\ fd \in Due(web_init)
  /\ web_init' = Erased(web_init, fd)
  /\ IF is_acc(web_init[fd]) THEN add(web_auth, fd, connection[fd], "send")
                             ELSE Close(fd) /\ UNCHANGED web_auth
  /\ UNCHANGED <<count, gone, clients, auth, events, todo, pc, admitted>>

CheckWebAuth(fd) ==
  /\ pc = "web_auth" /\ fd \in Due(web_auth)
  /\ web_auth' = Erased(web_auth, fd)
  /\ IF is_acc(web_auth[fd]) THEN reg(fd, connection[fd])
                             ELSE Close(fd) /\ UNCHANGED clients
  /\ UNCHANGED <<count, gone, auth, web_init, events, todo, pc, admitted>>

Checked ==
  /\ \/ pc = "auth" /\ Due(auth) = {} /\ pc' = "web_init"
     \/ pc = "web_init" /\ Due(web_init) = {} /\ pc' = "web_auth"
     \/ pc = "web_auth" /\ Due(web_auth) = {} /\ pc' = "wait"
  /\ UNCHANGED <<kernel, gone, owners, late, events, todo, admitted>>

Serve ==
  \/ Wait
  \/ \E e \in todo : HandleEvent(e) \/ HandleError(e)
  \/ EventsDone
  \/ ErrorsDone
  \/ \E fd \in Fd : CheckAuth(fd) \/ CheckWebInit(fd) \/ CheckWebAuth(fd)
  \/ Checked

Next ==
  \/ \E c \in 1 .. count : HangUp(c)
  \/ \E fd \in Fd : MinuteOver(fd)
  \/ Serve

Spec == Init /\ [][Next]_vars

\* The loop goes on: every call in it returns.
FairSpec == Spec /\ WF_vars(Serve)

(***************************************************************************)
(* Properties.                                                             *)
(***************************************************************************)

\* The state has its types; the containers keep to their limits, which
\* authentificator_t passes by one.
TypeOK ==
  /\ connection \in [Fd -> 0 .. count] /\ count \in 0 .. MaxConnections
  /\ gone \subseteq 1 .. count /\ admitted \subseteq 1 .. count
  /\ clients \subseteq Fd /\ Cardinality(clients) <= max_clients
  /\ \A c \in {auth, web_init, web_auth} :
       /\ DOMAIN c \subseteq Fd /\ Cardinality(DOMAIN c) <= max_auth + 1
       /\ \A fd \in DOMAIN c : c[fd] \in CheckerState
  /\ interest \in [Fd -> SUBSET {"in", "out"}]
  /\ registered \subseteq Fd /\ late \subseteq Open
  /\ todo \subseteq events \/ pc = "wait"
  /\ pc \in {"wait", "events", "errors", "auth", "web_init", "web_auth"}

\* Every open descriptor is in exactly one container, and what a container has
\* is open: nothing is leaked, closed twice or used when it has been closed.
OneOwner ==
  /\ clients \cup DOMAIN auth \cup DOMAIN web_init \cup DOMAIN web_auth = Open
  /\ clients \cap (DOMAIN auth \cup DOMAIN web_init \cup DOMAIN web_auth) = {}
  /\ DOMAIN auth \cap (DOMAIN web_init \cup DOMAIN web_auth) = {}
  /\ DOMAIN web_init \cap DOMAIN web_auth = {}

Awaited(s) ==
  CASE s \in {"send", "answer"} -> {"out"}
    [] s \in {"recv", "key", "too big"} -> {"in"}
    [] s \in {"no", "yes"} -> {}

\* Every open descriptor has one owner and is in epoll for what that owner waits
\* for, also after it has gone from one container to another: no connection is
\* leaked or falls asleep, and none that waits for check_all spins.
OwnedAndPolled ==
  /\ OneOwner
  /\ registered = Open
  /\ \A fd \in clients : interest[fd] = {"in", "out"}
  /\ \A c \in {auth, web_init, web_auth} :
       \A fd \in DOMAIN c : interest[fd] = Awaited(c[fd])

\* Whoever hears the player is on the local socket or had the password.
ClientsAdmitted == \A fd \in clients : connection[fd] \in admitted

\* While events are handled, one that is still to come is for the connection
\* that it was reported of, though descriptors are closed and given again.
EventsMeetTheirOwn ==
  pc = "events" => \A e \in todo : e.fd \in Fd => connection[e.fd] = e.of

\* Connections that have gone are closed, whichever container has them and
\* whatever is done with them before their errors are handled.
GoneAreClosed == []<>(\A fd \in Open : connection[fd] \notin gone)

\* "errors / close handle" (server.cpp:104) closes the connections whose
\* handles had the errors.
ErrorsCloseTheirOwn ==
  [][pc = "errors" =>
       \A fd \in Open : connection'[fd] = 0 =>
         \E e \in events : e.fd = fd /\ e.of = connection[fd]]_vars
=============================================================================
