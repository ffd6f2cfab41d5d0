----------------------------- MODULE ServerProofs -----------------------------
(***************************************************************************)
(* Proofs about the loop of the multiplexing server, for every set of      *)
(* descriptors and all limits, about logins, for all lengths of their      *)
(* packets, about the frames of web sockets, for all sizes of theirs, and  *)
(* about the way of commands to the player, for all clients and commands.  *)
(***************************************************************************)
EXTENDS MCServer, FiniteSetTheorems, FunctionTheorems, SequenceTheorems,
        WellFoundedInduction, TLAPS

----------------------------------------------------------------------------
(***************************************************************************)
(* The invariant.                                                          *)
(***************************************************************************)
Phases == {"wait", "events", "errors", "auth", "web_init", "web_auth"}

\* What the two checkers wait for, pass_checker and web_socket_init_t.
PassStates == {"send", "recv", "too big", "no", "yes"}
WebStates  == {"key", "answer", "no", "yes"}

\* The types, without the numbers that are bounded.
Types ==
  /\ count \in Nat
  /\ connection \in [Fd -> 0 .. count]
  /\ gone \subseteq 1 .. count /\ admitted \subseteq 1 .. count
  /\ interest \in [Fd -> SUBSET {"in", "out"}]
  /\ late \subseteq Open
  /\ \A fd \in DOMAIN auth : auth[fd] \in PassStates
  /\ \A fd \in DOMAIN web_init : web_init[fd] \in WebStates
  /\ \A fd \in DOMAIN web_auth : web_auth[fd] \in PassStates
  /\ pc \in Phases

\* Whoever is about to be heard had the password.
Passed ==
  /\ ClientsAdmitted
  /\ \A fd \in DOMAIN auth : auth[fd] = "yes" => connection[fd] \in admitted
  /\ \A fd \in DOMAIN web_auth : web_auth[fd] = "yes" => connection[fd] \in admitted

\* The containers' limits.
Limits ==
  /\ Cardinality(clients) <= max_clients
  /\ Cardinality(DOMAIN auth) <= max_auth + 1
  /\ Cardinality(DOMAIN web_init) <= max_auth + 1
  /\ Cardinality(DOMAIN web_auth) <= max_auth + 1

\* Those of the batch that a new connection is to come from.
Knocks(batch) == {e \in batch : e.fd \in Listener}

\* What is still to come from a batch is of the connection that it was reported of, and
\* there is a closed descriptor for each that knocks.
Pending ==
  /\ \A e \in todo : e.fd \in Fd => e.of # 0 /\ connection[e.fd] = e.of
  /\ IsFiniteSet(Knocks(todo))
  /\ Cardinality(Knocks(todo)) <= Cardinality(Fd \ Open)
  /\ Cardinality(Knocks(todo)) <= MaxConnections - count

\* A batch has one event of each descriptor.
Batch ==
  /\ todo \subseteq events
  /\ \A e \in events : e.fd \in Fd \cup Listener
  /\ \A e, f \in events : e.fd = f.fd => e = f
  /\ pc = "events" => Pending

IInv == Types /\ OwnedAndPolled /\ Passed /\ Limits /\ Batch /\ count <= MaxConnections

LEMMA ServerConstants ==
  /\ Fd \subseteq Nat /\ IsFiniteSet(Fd) /\ Listener \cap Fd = {}
  /\ max_auth \in Nat /\ max_clients \in Nat /\ MaxConnections \in Nat
BY ServerAssumption

LEMMA InvInit == Init => IInv
<1> SUFFICES ASSUME Init
             PROVE  IInv
  OBVIOUS
<1>1. Open = {} /\ DOMAIN auth = {} /\ DOMAIN web_init = {} /\ DOMAIN web_auth = {}
  BY DEF Init, Open
<1>2. Types
  BY <1>1, ServerConstants DEF Init, Types, Phases
<1>3. OwnedAndPolled
  BY <1>1 DEF Init, OwnedAndPolled, OneOwner
<1>4. Passed
  BY <1>1 DEF Init, Passed, ClientsAdmitted
<1>5. Limits
  BY <1>1, ServerConstants, FS_EmptySet DEF Init, Limits
<1>6. Batch /\ count <= MaxConnections
  BY ServerConstants DEF Init, Batch
<1> QED
  BY <1>2, <1>3, <1>4, <1>5, <1>6 DEF IInv

----------------------------------------------------------------------------
(***************************************************************************)
(* A step that changes containers changes the place of one descriptor.     *)
(***************************************************************************)
\* d is the container c but for fd.
Keeps(c, d, fd) ==
  /\ DOMAIN d \ {fd} = DOMAIN c \ {fd}
  /\ \A g \in DOMAIN c \ {fd} : d[g] = c[g]

\* T is no larger than S, or by fd where there was room.
Within(S, T, fd, limit) ==
  \/ T \subseteq S
  \/ T = S \cup {fd} /\ Cardinality(S) < limit

\* Where fd is afterwards, as connection id that epoll is to report mask of.
Freed(fd, id, mask) ==
  /\ id = 0 /\ mask = {} /\ fd \notin late'
  /\ fd \notin clients' \cup DOMAIN auth' \cup DOMAIN web_init' \cup DOMAIN web_auth'

Heard(fd, id, mask) ==
  /\ id # 0 /\ mask = {"in", "out"} /\ id \in admitted'
  /\ fd \in clients'
  /\ fd \notin DOMAIN auth' \cup DOMAIN web_init' \cup DOMAIN web_auth'

InAuth(fd, id, mask) ==
  /\ id # 0 /\ fd \in DOMAIN auth' /\ auth'[fd] \in PassStates
  /\ mask = Polls(auth'[fd]) /\ (auth'[fd] = "yes" => id \in admitted')
  /\ fd \notin clients' \cup DOMAIN web_init' \cup DOMAIN web_auth'

InWebInit(fd, id, mask) ==
  /\ id # 0 /\ fd \in DOMAIN web_init' /\ web_init'[fd] \in WebStates
  /\ mask = Polls(web_init'[fd])
  /\ fd \notin clients' \cup DOMAIN auth' \cup DOMAIN web_auth'

InWebAuth(fd, id, mask) ==
  /\ id # 0 /\ fd \in DOMAIN web_auth' /\ web_auth'[fd] \in PassStates
  /\ mask = Polls(web_auth'[fd]) /\ (web_auth'[fd] = "yes" => id \in admitted')
  /\ fd \notin clients' \cup DOMAIN auth' \cup DOMAIN web_init'

Placed(fd, id, mask) ==
  \/ Freed(fd, id, mask)
  \/ Heard(fd, id, mask)
  \/ InAuth(fd, id, mask)
  \/ InWebInit(fd, id, mask)
  \/ InWebAuth(fd, id, mask)

\* What epoll and the kernel have of fd.
Known(fd, id, mask) ==
  /\ connection' = [connection EXCEPT ![fd] = id]
  /\ interest' = [interest EXCEPT ![fd] = mask]
  /\ registered' = IF id = 0 THEN registered \ {fd} ELSE registered \cup {fd}
  /\ late' \subseteq late

OthersStay(fd) ==
  /\ clients' \ {fd} = clients \ {fd}
  /\ Keeps(auth, auth', fd)
  /\ Keeps(web_init, web_init', fd)
  /\ Keeps(web_auth, web_auth', fd)

InLimits(fd) ==
  /\ Within(clients, clients', fd, max_clients)
  /\ Within(DOMAIN auth, DOMAIN auth', fd, max_auth + 1)
  /\ Within(DOMAIN web_init, DOMAIN web_init', fd, max_auth + 1)
  /\ Within(DOMAIN web_auth, DOMAIN web_auth', fd, max_auth + 1)

Move(fd, id, mask) ==
  /\ fd \in Fd /\ id \in 0 .. count' /\ mask \in SUBSET {"in", "out"}
  /\ Known(fd, id, mask)
  /\ Placed(fd, id, mask)
  /\ OthersStay(fd)
  /\ InLimits(fd)

(***************************************************************************)
(* What such a step keeps.                                                 *)
(***************************************************************************)
LEMMA MoveOpen ==
  ASSUME Types, NEW fd, NEW id, NEW mask, Move(fd, id, mask)
  PROVE  /\ Open' = IF id = 0 THEN Open \ {fd} ELSE Open \cup {fd}
         /\ connection'[fd] = id /\ interest'[fd] = mask
         /\ \A g \in Fd \ {fd} : connection'[g] = connection[g] /\ interest'[g] = interest[g]
<1>1. /\ fd \in Fd /\ connection' = [connection EXCEPT ![fd] = id]
      /\ interest' = [interest EXCEPT ![fd] = mask]
      /\ DOMAIN connection = Fd /\ DOMAIN interest = Fd
  BY DEF Move, Known, Types
<1> QED
  BY <1>1 DEF Open

LEMMA MoveOwned ==
  ASSUME Types, OwnedAndPolled, NEW fd, NEW id, NEW mask, Move(fd, id, mask)
  PROVE  OwnedAndPolled'
<1>0. /\ fd \in Fd /\ Placed(fd, id, mask)
      /\ clients' \ {fd} = clients \ {fd}
      /\ DOMAIN auth' \ {fd} = DOMAIN auth \ {fd}
      /\ DOMAIN web_init' \ {fd} = DOMAIN web_init \ {fd}
      /\ DOMAIN web_auth' \ {fd} = DOMAIN web_auth \ {fd}
  BY DEF Move, OthersStay, Keeps
<1>1. /\ Open' = IF id = 0 THEN Open \ {fd} ELSE Open \cup {fd}
      /\ connection'[fd] = id /\ interest'[fd] = mask
      /\ \A g \in Fd \ {fd} : interest'[g] = interest[g]
  BY MoveOpen
<1>2. OneOwner'
  <2>1. OneOwner
    BY DEF OwnedAndPolled
  <2>2. CASE Freed(fd, id, mask)
    BY <1>0, <1>1, <2>1, <2>2 DEF Freed, OneOwner
  <2>3. CASE Heard(fd, id, mask)
    BY <1>0, <1>1, <2>1, <2>3 DEF Heard, OneOwner
  <2>4. CASE InAuth(fd, id, mask)
    BY <1>0, <1>1, <2>1, <2>4 DEF InAuth, OneOwner
  <2>5. CASE InWebInit(fd, id, mask)
    BY <1>0, <1>1, <2>1, <2>5 DEF InWebInit, OneOwner
  <2>6. CASE InWebAuth(fd, id, mask)
    BY <1>0, <1>1, <2>1, <2>6 DEF InWebAuth, OneOwner
  <2> QED
    BY <1>0, <2>2, <2>3, <2>4, <2>5, <2>6 DEF Placed
<1>3. (registered = Open)'
  BY <1>1 DEF Move, Known, OwnedAndPolled
<1>4. ASSUME NEW g \in clients'
      PROVE  interest'[g] = {"in", "out"}
  <2>1. g \in Open'
    BY <1>2 DEF OneOwner
  <2>2. CASE g = fd
    BY <1>0, <1>1, <2>2 DEF Placed, Freed, Heard, InAuth, InWebInit, InWebAuth
  <2>3. CASE g # fd
    <3>1. g \in clients /\ g \in Fd
      BY <1>0, <2>1, <2>3 DEF Open
    <3> QED
      BY <1>1, <2>3, <3>1 DEF OwnedAndPolled
  <2> QED
    BY <2>2, <2>3
<1>5. \A s \in PassStates \cup WebStates : Polls(s) = Awaited(s)
  BY DEF PassStates, WebStates, Polls, Awaited
<1>6. ASSUME NEW g \in DOMAIN auth'
      PROVE  interest'[g] = Awaited(auth'[g])
  <2>1. g \in Open'
    BY <1>2 DEF OneOwner
  <2>2. CASE g = fd
    <3>1. InAuth(fd, id, mask)
      BY <1>0, <2>2 DEF Placed, Freed, Heard, InAuth, InWebInit, InWebAuth
    <3> QED
      BY <1>1, <1>5, <2>2, <3>1 DEF InAuth
  <2>3. CASE g # fd
    <3>1. g \in DOMAIN auth /\ g \in Fd /\ auth'[g] = auth[g]
      BY <1>0, <2>1, <2>3 DEF Open, Move, OthersStay, Keeps
    <3> QED
      BY <1>1, <2>3, <3>1 DEF OwnedAndPolled
  <2> QED
    BY <2>2, <2>3
<1>7. ASSUME NEW g \in DOMAIN web_init'
      PROVE  interest'[g] = Awaited(web_init'[g])
  <2>1. g \in Open'
    BY <1>2 DEF OneOwner
  <2>2. CASE g = fd
    <3>1. InWebInit(fd, id, mask)
      BY <1>0, <2>2 DEF Placed, Freed, Heard, InAuth, InWebInit, InWebAuth
    <3> QED
      BY <1>1, <1>5, <2>2, <3>1 DEF InWebInit
  <2>3. CASE g # fd
    <3>1. g \in DOMAIN web_init /\ g \in Fd /\ web_init'[g] = web_init[g]
      BY <1>0, <2>1, <2>3 DEF Open, Move, OthersStay, Keeps
    <3> QED
      BY <1>1, <2>3, <3>1 DEF OwnedAndPolled
  <2> QED
    BY <2>2, <2>3
<1>8. ASSUME NEW g \in DOMAIN web_auth'
      PROVE  interest'[g] = Awaited(web_auth'[g])
  <2>1. g \in Open'
    BY <1>2 DEF OneOwner
  <2>2. CASE g = fd
    <3>1. InWebAuth(fd, id, mask)
      BY <1>0, <2>2 DEF Placed, Freed, Heard, InAuth, InWebInit, InWebAuth
    <3> QED
      BY <1>1, <1>5, <2>2, <3>1 DEF InWebAuth
  <2>3. CASE g # fd
    <3>1. g \in DOMAIN web_auth /\ g \in Fd /\ web_auth'[g] = web_auth[g]
      BY <1>0, <2>1, <2>3 DEF Open, Move, OthersStay, Keeps
    <3> QED
      BY <1>1, <2>3, <3>1 DEF OwnedAndPolled
  <2> QED
    BY <2>2, <2>3
<1> QED
  BY <1>2, <1>3, <1>4, <1>6, <1>7, <1>8 DEF OwnedAndPolled

LEMMA MoveTypes ==
  ASSUME Types, OwnedAndPolled, NEW fd, NEW id, NEW mask, Move(fd, id, mask),
         count' \in Nat, count <= count', gone' = gone, pc' \in Phases,
         admitted' \subseteq 1 .. count'
  PROVE  Types'
<1>0. /\ fd \in Fd /\ id \in 0 .. count' /\ mask \in SUBSET {"in", "out"}
      /\ Placed(fd, id, mask) /\ OthersStay(fd)
      /\ connection' = [connection EXCEPT ![fd] = id]
      /\ interest' = [interest EXCEPT ![fd] = mask] /\ late' \subseteq late
  BY DEF Move, Known
<1>1. /\ connection' \in [Fd -> 0 .. count'] /\ gone' \subseteq 1 .. count'
      /\ interest' \in [Fd -> SUBSET {"in", "out"}]
  BY <1>0 DEF Types
<1>2. late' \subseteq Open'
  <2>1. Open' = IF id = 0 THEN Open \ {fd} ELSE Open \cup {fd}
    BY MoveOpen
  <2>2. id = 0 => fd \notin late'
    BY <1>0 DEF Placed, Freed, Heard, InAuth, InWebInit, InWebAuth
  <2> QED
    BY <1>0, <2>1, <2>2 DEF Types
<1>3. ASSUME NEW g \in DOMAIN auth'
      PROVE  auth'[g] \in PassStates
  BY <1>0 DEF Types, OthersStay, Keeps, Placed, Freed, Heard, InAuth, InWebInit, InWebAuth
<1>4. ASSUME NEW g \in DOMAIN web_init'
      PROVE  web_init'[g] \in WebStates
  BY <1>0 DEF Types, OthersStay, Keeps, Placed, Freed, Heard, InAuth, InWebInit, InWebAuth
<1>5. ASSUME NEW g \in DOMAIN web_auth'
      PROVE  web_auth'[g] \in PassStates
  BY <1>0 DEF Types, OthersStay, Keeps, Placed, Freed, Heard, InAuth, InWebInit, InWebAuth
<1> QED
  BY <1>1, <1>2, <1>3, <1>4, <1>5 DEF Types

LEMMA MovePassed ==
  ASSUME Types, OwnedAndPolled, Passed, NEW fd, NEW id, NEW mask, Move(fd, id, mask),
         admitted \subseteq admitted'
  PROVE  Passed'
<1>0. Placed(fd, id, mask) /\ OthersStay(fd)
  BY DEF Move
<1>1. /\ connection'[fd] = id
      /\ \A g \in Fd \ {fd} : connection'[g] = connection[g]
  BY MoveOpen
<1>2. clients \cup DOMAIN auth \cup DOMAIN web_auth \subseteq Fd
  BY DEF OwnedAndPolled, OneOwner, Open
<1>3. ASSUME NEW g \in clients'
      PROVE  connection'[g] \in admitted'
  BY <1>0, <1>1, <1>2 DEF Passed, ClientsAdmitted, OthersStay,
     Placed, Freed, Heard, InAuth, InWebInit, InWebAuth
<1>4. ASSUME NEW g \in DOMAIN auth', auth'[g] = "yes"
      PROVE  connection'[g] \in admitted'
  BY <1>0, <1>1, <1>2, <1>4 DEF Passed, OthersStay, Keeps,
     Placed, Freed, Heard, InAuth, InWebInit, InWebAuth
<1>5. ASSUME NEW g \in DOMAIN web_auth', web_auth'[g] = "yes"
      PROVE  connection'[g] \in admitted'
  BY <1>0, <1>1, <1>2, <1>5 DEF Passed, OthersStay, Keeps,
     Placed, Freed, Heard, InAuth, InWebInit, InWebAuth
<1> QED
  BY <1>3, <1>4, <1>5 DEF Passed, ClientsAdmitted

LEMMA WithinLimit ==
  ASSUME NEW S, IsFiniteSet(S), NEW T, NEW fd, NEW m \in Nat, Within(S, T, fd, m),
         Cardinality(S) <= m
  PROVE  Cardinality(T) <= m
<1>1. Cardinality(S) \in Nat
  BY FS_CardinalityType
<1>2. CASE T \subseteq S
  <2>1. Cardinality(T) <= Cardinality(S) /\ IsFiniteSet(T)
    BY <1>2, FS_Subset
  <2>2. Cardinality(T) \in Nat
    BY <2>1, FS_CardinalityType
  <2> QED
    BY <1>1, <2>1, <2>2
<1>3. CASE T = S \cup {fd} /\ Cardinality(S) < m
  <2>1. Cardinality(T) = IF fd \in S THEN Cardinality(S) ELSE Cardinality(S) + 1
    BY <1>3, FS_AddElement
  <2> QED
    BY <1>1, <1>3, <2>1
<1> QED
  BY <1>2, <1>3 DEF Within

LEMMA OwnersFinite ==
  ASSUME OwnedAndPolled
  PROVE  /\ IsFiniteSet(clients) /\ IsFiniteSet(DOMAIN auth)
         /\ IsFiniteSet(DOMAIN web_init) /\ IsFiniteSet(DOMAIN web_auth)
         /\ IsFiniteSet(Open) /\ IsFiniteSet(Fd \ Open)
<1>1. /\ clients \in SUBSET Fd /\ DOMAIN auth \in SUBSET Fd
      /\ DOMAIN web_init \in SUBSET Fd /\ DOMAIN web_auth \in SUBSET Fd
      /\ Open \in SUBSET Fd /\ Fd \ Open \in SUBSET Fd
  BY DEF OwnedAndPolled, OneOwner, Open
<1> QED
  BY <1>1, ServerConstants, FS_Subset

LEMMA MoveLimits ==
  ASSUME OwnedAndPolled, Limits, NEW fd, NEW id, NEW mask, Move(fd, id, mask)
  PROVE  Limits'
<1>1. InLimits(fd) /\ max_auth + 1 \in Nat /\ max_clients \in Nat
  BY ServerConstants DEF Move
<1>2. Cardinality(clients') <= max_clients
  BY <1>1, OwnersFinite, WithinLimit DEF InLimits, Limits
<1>3. Cardinality(DOMAIN auth') <= max_auth + 1
  BY <1>1, OwnersFinite, WithinLimit DEF InLimits, Limits
<1>4. Cardinality(DOMAIN web_init') <= max_auth + 1
  BY <1>1, OwnersFinite, WithinLimit DEF InLimits, Limits
<1>5. Cardinality(DOMAIN web_auth') <= max_auth + 1
  BY <1>1, OwnersFinite, WithinLimit DEF InLimits, Limits
<1> QED
  BY <1>2, <1>3, <1>4, <1>5 DEF Limits

----------------------------------------------------------------------------
(***************************************************************************)
(* The steps that do so.                                                   *)
(***************************************************************************)
LEMMA WithoutKeeps ==
  ASSUME NEW c, NEW fd
  PROVE  /\ DOMAIN Without(c, fd) = DOMAIN c \ {fd}
         /\ Keeps(c, Without(c, fd), fd)
BY DEF Without, Keeps

LEMMA WithKeeps ==
  ASSUME NEW c, NEW fd, NEW s
  PROVE  /\ DOMAIN With(c, fd, s) = DOMAIN c \cup {fd}
         /\ With(c, fd, s)[fd] = s
         /\ Keeps(c, With(c, fd, s), fd)
BY DEF With, Keeps

\* Progress as a relation.
Leads(s, t) ==
  \/ s = "send" /\ t = "recv"
  \/ s = "recv" /\ t \in {"too big", "no", "yes"}
  \/ s = "key" /\ t \in {"no", "answer"}
  \/ s = "answer" /\ t = "yes"

LEMMA ProgressLeads ==
  ASSUME NEW p \in Progress
  PROVE  Leads(p[1], p[3])
<1>1. \/ p = <<"send", "out", "recv">> \/ p = <<"recv", "in", "too big">>
      \/ p = <<"recv", "in", "no">> \/ p = <<"recv", "in", "yes">>
      \/ p = <<"key", "in", "no">> \/ p = <<"key", "in", "answer">>
      \/ p = <<"answer", "out", "yes">>
  BY DEF Progress
<1>2. CASE p = <<"send", "out", "recv">>
  BY <1>2 DEF Leads
<1>3. CASE p = <<"recv", "in", "too big">>
  BY <1>3 DEF Leads
<1>4. CASE p = <<"recv", "in", "no">>
  BY <1>4 DEF Leads
<1>5. CASE p = <<"recv", "in", "yes">>
  BY <1>5 DEF Leads
<1>6. CASE p = <<"key", "in", "no">>
  BY <1>6 DEF Leads
<1>7. CASE p = <<"key", "in", "answer">>
  BY <1>7 DEF Leads
<1>8. CASE p = <<"answer", "out", "yes">>
  BY <1>8 DEF Leads
<1> QED
  BY <1>1, <1>2, <1>3, <1>4, <1>5, <1>6, <1>7, <1>8

LEMMA PassSteps ==
  ASSUME NEW s \in PassStates, NEW mask, NEW t \in StepsTo(s, mask)
  PROVE  t \in PassStates /\ (t = "yes" => s \in {"recv", "yes"})
<1>1. CASE t = s
  BY <1>1
<1>2. CASE t # s
  <2>1. PICK p \in Progress : p[1] = s /\ p[3] = t
    BY <1>2 DEF StepsTo
  <2>2. Leads(s, t)
    BY <2>1, ProgressLeads
  <2> QED
    BY <2>2 DEF Leads, PassStates
<1> QED
  BY <1>1, <1>2

LEMMA WebSteps ==
  ASSUME NEW s \in WebStates, NEW mask, NEW t \in StepsTo(s, mask)
  PROVE  t \in WebStates
<1>1. CASE t = s
  BY <1>1
<1>2. CASE t # s
  <2>1. PICK p \in Progress : p[1] = s /\ p[3] = t
    BY <1>2 DEF StepsTo
  <2>2. Leads(s, t)
    BY <2>1, ProgressLeads
  <2> QED
    BY <2>2 DEF Leads, WebStates
<1> QED
  BY <1>1, <1>2

LEMMA PollsType ==
  ASSUME NEW s
  PROVE  Polls(s) \in SUBSET {"in", "out"}
BY DEF Polls

\* A descriptor is closed that no container has any more.
LEMMA CloseMoves ==
  ASSUME NEW fd \in Fd, Close(fd), count' \in Nat, OthersStay(fd),
         fd \notin clients', fd \notin DOMAIN auth',
         fd \notin DOMAIN web_init', fd \notin DOMAIN web_auth'
  PROVE  Move(fd, 0, {})
<1>1. Known(fd, 0, {}) /\ Freed(fd, 0, {})
  BY DEF Close, Known, Freed
<1>2. InLimits(fd)
  BY DEF OthersStay, Keeps, InLimits, Within
<1> QED
  BY <1>1, <1>2 DEF Move, Placed

LEMMA BecomesKnown ==
  ASSUME NEW fd, NEW id, id # 0, NEW mask, Becomes(fd, id, mask)
  PROVE  Known(fd, id, mask)
BY DEF Becomes, Known

\* fd is in no container, before or now: reg and add give it a place or close it.
LEMMA RegMoves ==
  ASSUME IInv, NEW fd \in Fd, NEW id \in 1 .. count', count' \in Nat, reg(fd, id), 
         id \in admitted', Keeps(auth, auth', fd), Keeps(web_init, web_init', fd),
         Keeps(web_auth, web_auth', fd), fd \notin clients,
         fd \notin DOMAIN auth', fd \notin DOMAIN web_init', fd \notin DOMAIN web_auth'
  PROVE  \E i, mask : Move(fd, i, mask)
<1>1. CASE Cardinality(clients) >= max_clients
  <2>1. Close(fd) /\ clients' = clients
    BY <1>1 DEF reg
  <2>2. OthersStay(fd)
    BY <2>1 DEF OthersStay
  <2> QED
    BY <2>1, <2>2, CloseMoves
<1>2. CASE ~(Cardinality(clients) >= max_clients)
  <2>1. Becomes(fd, id, {"in", "out"}) /\ clients' = clients \cup {fd}
    BY <1>2 DEF reg
  <2>2. Known(fd, id, {"in", "out"}) /\ Heard(fd, id, {"in", "out"})
    BY <2>1, BecomesKnown DEF Heard
  <2>3. OthersStay(fd)
    BY <2>1 DEF OthersStay
  <2>4. InLimits(fd)
    <3>1. Cardinality(clients) < max_clients
      BY <1>2, ServerConstants, OwnersFinite, FS_CardinalityType DEF IInv
    <3> QED
      BY <2>1, <3>1 DEF InLimits, Within, Keeps
  <2> QED
    BY <2>2, <2>3, <2>4 DEF Move, Placed
<1> QED
  BY <1>1, <1>2

LEMMA AddMovesAuth ==
  ASSUME IInv, NEW fd \in Fd, NEW id \in 1 .. count', count' \in Nat,
         add(auth, fd, id, "send"), clients' \ {fd} = clients \ {fd}, fd \notin clients',
         Keeps(web_init, web_init', fd), Keeps(web_auth, web_auth', fd),
         fd \notin DOMAIN auth, fd \notin DOMAIN web_init', fd \notin DOMAIN web_auth'
  PROVE  \E i, mask : Move(fd, i, mask)
<1>1. CASE Full(auth)
  <2>1. Close(fd) /\ auth' = auth
    BY <1>1 DEF add, Refused
  <2>2. OthersStay(fd)
    BY <2>1 DEF OthersStay, Keeps
  <2> QED
    BY <2>1, <2>2, CloseMoves
<1>2. CASE ~Full(auth)
  <2>1. Becomes(fd, id, Polls("send")) /\ auth' = With(auth, fd, "send")
    BY <1>2 DEF add
  <2>2. /\ DOMAIN auth' = DOMAIN auth \cup {fd} /\ auth'[fd] = "send"
        /\ Keeps(auth, auth', fd)
    BY <2>1, WithKeeps, ZenonT(60)
  <2>3. Known(fd, id, Polls("send")) /\ InAuth(fd, id, Polls("send"))
    <3>1. Known(fd, id, Polls("send"))
      BY <2>1, BecomesKnown
    <3>2. "send" \in PassStates /\ "send" # "yes" /\ id # 0
      BY DEF PassStates
    <3> QED
      BY <2>2, <3>1, <3>2 DEF InAuth
  <2>4. OthersStay(fd)
    BY <2>2 DEF OthersStay
  <2>5. Cardinality(DOMAIN auth) < max_auth + 1
    BY <1>2, ServerConstants, OwnersFinite, FS_CardinalityType DEF IInv, Full
  <2>6. InLimits(fd)
    BY <2>2, <2>5 DEF InLimits, Within, Keeps
  <2> QED
    BY <2>3, <2>4, <2>6, PollsType DEF Move, Placed
<1> QED
  BY <1>1, <1>2

LEMMA AddMovesWebInit ==
  ASSUME IInv, NEW fd \in Fd, NEW id \in 1 .. count', count' \in Nat,
         add(web_init, fd, id, "key"), clients' \ {fd} = clients \ {fd}, fd \notin clients',
         Keeps(auth, auth', fd), Keeps(web_auth, web_auth', fd),
         fd \notin DOMAIN web_init, fd \notin DOMAIN auth', fd \notin DOMAIN web_auth'
  PROVE  \E i, mask : Move(fd, i, mask)
<1>1. CASE Full(web_init)
  <2>1. Close(fd) /\ web_init' = web_init
    BY <1>1 DEF add, Refused
  <2>2. OthersStay(fd)
    BY <2>1 DEF OthersStay, Keeps
  <2> QED
    BY <2>1, <2>2, CloseMoves
<1>2. CASE ~Full(web_init)
  <2>1. Becomes(fd, id, Polls("key")) /\ web_init' = With(web_init, fd, "key")
    BY <1>2 DEF add
  <2>2. /\ DOMAIN web_init' = DOMAIN web_init \cup {fd} /\ web_init'[fd] = "key"
        /\ Keeps(web_init, web_init', fd)
    BY <2>1, WithKeeps
  <2>3. Known(fd, id, Polls("key")) /\ InWebInit(fd, id, Polls("key"))
    BY <2>1, <2>2, BecomesKnown DEF InWebInit, WebStates
  <2>4. OthersStay(fd)
    BY <2>2 DEF OthersStay
  <2>5. Cardinality(DOMAIN web_init) < max_auth + 1
    BY <1>2, ServerConstants, OwnersFinite, FS_CardinalityType DEF IInv, Full
  <2>6. InLimits(fd)
    BY <2>2, <2>5 DEF InLimits, Within, Keeps
  <2> QED
    BY <2>3, <2>4, <2>6, PollsType DEF Move, Placed
<1> QED
  BY <1>1, <1>2

LEMMA AddMovesWebAuth ==
  ASSUME IInv, NEW fd \in Fd, NEW id \in 1 .. count', count' \in Nat,
         add(web_auth, fd, id, "send"), clients' \ {fd} = clients \ {fd}, fd \notin clients',
         Keeps(auth, auth', fd), Keeps(web_init, web_init', fd),
         fd \notin DOMAIN web_auth, fd \notin DOMAIN auth', fd \notin DOMAIN web_init'
  PROVE  \E i, mask : Move(fd, i, mask)
<1>1. CASE Full(web_auth)
  <2>1. Close(fd) /\ web_auth' = web_auth
    BY <1>1 DEF add, Refused
  <2>2. OthersStay(fd)
    BY <2>1 DEF OthersStay, Keeps
  <2> QED
    BY <2>1, <2>2, CloseMoves
<1>2. CASE ~Full(web_auth)
  <2>1. Becomes(fd, id, Polls("send")) /\ web_auth' = With(web_auth, fd, "send")
    BY <1>2 DEF add
  <2>2. /\ DOMAIN web_auth' = DOMAIN web_auth \cup {fd} /\ web_auth'[fd] = "send"
        /\ Keeps(web_auth, web_auth', fd)
    BY <2>1, WithKeeps, ZenonT(60)
  <2>3. Known(fd, id, Polls("send")) /\ InWebAuth(fd, id, Polls("send"))
    <3>1. Known(fd, id, Polls("send"))
      BY <2>1, BecomesKnown
    <3>2. "send" \in PassStates /\ "send" # "yes" /\ id # 0
      BY DEF PassStates
    <3> QED
      BY <2>2, <3>1, <3>2 DEF InWebAuth
  <2>4. OthersStay(fd)
    BY <2>2 DEF OthersStay
  <2>5. Cardinality(DOMAIN web_auth) < max_auth + 1
    BY <1>2, ServerConstants, OwnersFinite, FS_CardinalityType DEF IInv, Full
  <2>6. InLimits(fd)
    BY <2>2, <2>5 DEF InLimits, Within, Keeps
  <2> QED
    BY <2>3, <2>4, <2>6, PollsType DEF Move, Placed
<1> QED
  BY <1>1, <1>2

\* What is known of a descriptor in a container.
LEMMA OwnedFacts ==
  ASSUME Types, OwnedAndPolled, NEW fd,
         fd \in clients \cup DOMAIN auth \cup DOMAIN web_init \cup DOMAIN web_auth
  PROVE  /\ fd \in Fd /\ fd \in Open /\ fd \in registered
         /\ connection[fd] \in 1 .. count /\ count \in Nat
         /\ connection = [connection EXCEPT ![fd] = connection[fd]]
         /\ fd \in clients => fd \notin DOMAIN auth /\ fd \notin DOMAIN web_init
                                /\ fd \notin DOMAIN web_auth
         /\ fd \in DOMAIN auth => fd \notin clients /\ fd \notin DOMAIN web_init
                                    /\ fd \notin DOMAIN web_auth
         /\ fd \in DOMAIN web_init => fd \notin clients /\ fd \notin DOMAIN auth
                                        /\ fd \notin DOMAIN web_auth
         /\ fd \in DOMAIN web_auth => fd \notin clients /\ fd \notin DOMAIN auth
                                        /\ fd \notin DOMAIN web_init
<1>1. fd \in Open /\ fd \in Fd /\ registered = Open
  BY DEF OwnedAndPolled, OneOwner, Open
<1>2. connection[fd] \in 1 .. count /\ count \in Nat
  BY <1>1 DEF Types, Open
<1>3. connection = [connection EXCEPT ![fd] = connection[fd]]
  BY <1>1 DEF Types
<1>4. OneOwner
  BY DEF OwnedAndPolled
<1> QED
  BY <1>1, <1>2, <1>3, <1>4 DEF OneOwner

\* A descriptor of nobody, given to one of the three by accept.
LEMMA LowestClosed ==
  ASSUME Fd \ Open # {}
  PROVE  Lowest \in Fd \ Open
<1>1. Fd \ Open \subseteq Nat
  BY ServerConstants
<1>2. PICK m \in Fd \ Open : \A n \in Fd \ Open : <<n, m>> \notin OpToRel(<, Nat)
  BY <1>1, NatLessThanWellFounded, WFMin
<1> DEFINE closed == Fd \ Open
<1>3. m \in closed /\ \A n \in closed : m <= n
  <2> SUFFICES ASSUME NEW n \in closed
               PROVE  m <= n
    OBVIOUS
  <2>1. ~(n < m)
    BY <1>1, <1>2 DEF OpToRel
  <2> QED
    BY <1>1, <2>1
<1>4. Lowest = CHOOSE fd \in closed : \A g \in closed : fd <= g
  BY DEF Lowest
<1>5. Lowest \in closed
  <2> HIDE DEF closed
  <2> QED
    BY <1>3, <1>4
<1> QED
  BY <1>5

LEMMA AcceptMoves ==
  ASSUME IInv, NEW l, Fd \ Open # {}, Accept(l)
  PROVE  /\ \E id, mask : Move(Lowest, id, mask)
         /\ count' = count + 1
         /\ admitted \subseteq admitted' /\ admitted' \subseteq 1 .. count'
<1>1. /\ Lowest \in Fd /\ Lowest \notin Open
      /\ Lowest \notin clients /\ Lowest \notin DOMAIN auth
      /\ Lowest \notin DOMAIN web_init /\ Lowest \notin DOMAIN web_auth
  BY LowestClosed DEF IInv, OwnedAndPolled, OneOwner
<1>2. count \in Nat /\ admitted \subseteq 1 .. count
  BY DEF IInv, Types
<1>3. count' = count + 1
  BY DEF Accept
<1>4. count' \in Nat /\ count + 1 \in 1 .. count'
  BY <1>2, <1>3
<1>5. CASE /\ reg(Lowest, count + 1) /\ admitted' = admitted \cup {count + 1}
           /\ UNCHANGED <<auth, web_init, web_auth>>
  <2>1. \E id, mask : Move(Lowest, id, mask)
    <3>1. Keeps(auth, auth', Lowest) /\ Keeps(web_init, web_init', Lowest)
          /\ Keeps(web_auth, web_auth', Lowest)
      BY <1>5 DEF Keeps
    <3> QED
      BY <1>1, <1>4, <1>5, <3>1, RegMoves
  <2> QED
    BY <1>2, <1>3, <1>5, <2>1
<1>6. CASE /\ add(auth, Lowest, count + 1, "send")
           /\ UNCHANGED <<clients, web_init, web_auth, admitted>>
  <2>1. \E id, mask : Move(Lowest, id, mask)
    <3>1. Keeps(web_init, web_init', Lowest) /\ Keeps(web_auth, web_auth', Lowest)
      BY <1>6 DEF Keeps
    <3> QED
      BY <1>1, <1>4, <1>6, <3>1, AddMovesAuth
  <2> QED
    BY <1>2, <1>3, <1>6, <2>1
<1>7. CASE /\ add(web_init, Lowest, count + 1, "key")
           /\ UNCHANGED <<clients, auth, web_auth, admitted>>
  <2>1. \E id, mask : Move(Lowest, id, mask)
    <3>1. Keeps(auth, auth', Lowest) /\ Keeps(web_auth, web_auth', Lowest)
      BY <1>7 DEF Keeps
    <3> QED
      BY <1>1, <1>4, <1>7, <3>1, AddMovesWebInit
  <2> QED
    BY <1>2, <1>3, <1>7, <2>1
<1> QED
  BY <1>5, <1>6, <1>7 DEF Accept

LEMMA UnregMoves ==
  ASSUME IInv, NEW fd \in clients, unreg(fd), UNCHANGED <<count, auth, web_init, web_auth>>
  PROVE  Move(fd, 0, {})
<1>1. clients' = clients \ {fd} /\ Close(fd) /\ OthersStay(fd)
  BY DEF unreg, OthersStay, Keeps
<1> QED
  BY <1>1, OwnedFacts, CloseMoves DEF IInv

LEMMA RemoveMovesAuth ==
  ASSUME IInv, NEW fd \in DOMAIN auth, remove(auth, fd), UNCHANGED <<count, clients, web_init, web_auth>>
  PROVE  Move(fd, 0, {})
<1>1. auth' = Without(auth, fd) /\ Close(fd)
  BY DEF remove
<1>2. fd \notin DOMAIN auth' /\ OthersStay(fd)
  BY <1>1, WithoutKeeps DEF OthersStay, Keeps
<1> QED
  BY <1>1, <1>2, OwnedFacts, CloseMoves DEF IInv

LEMMA RemoveMovesWebInit ==
  ASSUME IInv, NEW fd \in DOMAIN web_init, remove(web_init, fd), UNCHANGED <<count, clients, auth, web_auth>>
  PROVE  Move(fd, 0, {})
<1>1. web_init' = Without(web_init, fd) /\ Close(fd)
  BY DEF remove
<1>2. fd \notin DOMAIN web_init' /\ OthersStay(fd)
  BY <1>1, WithoutKeeps DEF OthersStay, Keeps
<1> QED
  BY <1>1, <1>2, OwnedFacts, CloseMoves DEF IInv

LEMMA RemoveMovesWebAuth ==
  ASSUME IInv, NEW fd \in DOMAIN web_auth, remove(web_auth, fd), UNCHANGED <<count, clients, auth, web_init>>
  PROVE  Move(fd, 0, {})
<1>1. web_auth' = Without(web_auth, fd) /\ Close(fd)
  BY DEF remove
<1>2. fd \notin DOMAIN web_auth' /\ OthersStay(fd)
  BY <1>1, WithoutKeeps DEF OthersStay, Keeps
<1> QED
  BY <1>1, <1>2, OwnedFacts, CloseMoves DEF IInv

LEMMA DoesAuth ==
  ASSUME IInv, NEW e, e.fd \in DOMAIN auth, just_do(auth, e),
         UNCHANGED <<count, clients, web_init, web_auth>>
  PROVE  /\ \E id, mask : Move(e.fd, id, mask)
         /\ admitted \subseteq admitted' /\ admitted' \subseteq 1 .. count'
<1> DEFINE fd == e.fd
<1>1. /\ fd \in Fd /\ fd \in Open /\ fd \in registered /\ connection[fd] \in 1 .. count
      /\ count \in Nat /\ connection = [connection EXCEPT ![fd] = connection[fd]]
      /\ fd \notin clients /\ fd \notin DOMAIN web_init /\ fd \notin DOMAIN web_auth
  BY OwnedFacts DEF IInv
<1>2. admitted \subseteq 1 .. count /\ auth[fd] \in PassStates /\ count' = count
  BY DEF IInv, Types
<1>3. CASE remove(auth, fd) /\ UNCHANGED admitted
  BY <1>2, <1>3, RemoveMovesAuth
<1>4. CASE \E s \in StepsTo(auth[fd], e.mask) :
             /\ auth' = [auth EXCEPT ![fd] = s]
             /\ interest' = [interest EXCEPT ![fd] = Polls(s)]
             /\ admitted' = IF auth[fd] = "recv" /\ s = "yes"
                              THEN admitted \cup {connection[fd]} ELSE admitted
             /\ UNCHANGED <<connection, registered, late>>
  <2>1. PICK s \in StepsTo(auth[fd], e.mask) :
          /\ auth' = [auth EXCEPT ![fd] = s]
          /\ interest' = [interest EXCEPT ![fd] = Polls(s)]
          /\ admitted' = IF auth[fd] = "recv" /\ s = "yes"
                           THEN admitted \cup {connection[fd]} ELSE admitted
          /\ UNCHANGED <<connection, registered, late>>
    BY <1>4
  <2>2. DOMAIN auth' = DOMAIN auth /\ auth'[fd] = s /\ Keeps(auth, auth', fd)
    BY <2>1 DEF Keeps
  <2>3. admitted \subseteq admitted' /\ admitted' \subseteq 1 .. count'
    BY <1>1, <1>2, <2>1
  <2>4. Known(fd, connection[fd], Polls(s))
    BY <1>1, <2>1 DEF Known
  <2>5. InAuth(fd, connection[fd], Polls(s))
    <3>1. s \in PassStates /\ (s = "yes" => auth[fd] \in {"recv", "yes"})
      BY <1>2, PassSteps
    <3>2. auth[fd] = "yes" => connection[fd] \in admitted
      BY DEF IInv, Passed
    <3>3. s = "yes" => connection[fd] \in admitted'
      BY <2>1, <2>3, <3>1, <3>2
    <3> QED
      BY <1>1, <2>2, <3>1, <3>3 DEF InAuth
  <2>6. OthersStay(fd) /\ InLimits(fd)
    BY <2>2 DEF OthersStay, InLimits, Keeps, Within
  <2> QED
    BY <1>1, <1>2, <2>3, <2>4, <2>5, <2>6, PollsType DEF Move, Placed
<1> QED
  BY <1>3, <1>4 DEF just_do

LEMMA DoesWebInit ==
  ASSUME IInv, NEW e, e.fd \in DOMAIN web_init, just_do(web_init, e),
         UNCHANGED <<count, clients, auth, web_auth>>
  PROVE  /\ \E id, mask : Move(e.fd, id, mask)
         /\ admitted \subseteq admitted' /\ admitted' \subseteq 1 .. count'
<1> DEFINE fd == e.fd
<1>1. /\ fd \in Fd /\ fd \in Open /\ fd \in registered /\ connection[fd] \in 1 .. count
      /\ count \in Nat /\ connection = [connection EXCEPT ![fd] = connection[fd]]
      /\ fd \notin clients /\ fd \notin DOMAIN auth /\ fd \notin DOMAIN web_auth
  BY OwnedFacts DEF IInv
<1>2. admitted \subseteq 1 .. count /\ web_init[fd] \in WebStates /\ count' = count
  BY DEF IInv, Types
<1>3. CASE remove(web_init, fd) /\ UNCHANGED admitted
  BY <1>2, <1>3, RemoveMovesWebInit
<1>4. CASE \E s \in StepsTo(web_init[fd], e.mask) :
             /\ web_init' = [web_init EXCEPT ![fd] = s]
             /\ interest' = [interest EXCEPT ![fd] = Polls(s)]
             /\ admitted' = IF web_init[fd] = "recv" /\ s = "yes"
                              THEN admitted \cup {connection[fd]} ELSE admitted
             /\ UNCHANGED <<connection, registered, late>>
  <2>1. PICK s \in StepsTo(web_init[fd], e.mask) :
          /\ web_init' = [web_init EXCEPT ![fd] = s]
          /\ interest' = [interest EXCEPT ![fd] = Polls(s)]
          /\ admitted' = IF web_init[fd] = "recv" /\ s = "yes"
                           THEN admitted \cup {connection[fd]} ELSE admitted
          /\ UNCHANGED <<connection, registered, late>>
    BY <1>4
  <2>2. DOMAIN web_init' = DOMAIN web_init /\ web_init'[fd] = s /\ Keeps(web_init, web_init', fd)
    BY <2>1 DEF Keeps
  <2>3. admitted \subseteq admitted' /\ admitted' \subseteq 1 .. count'
    BY <1>1, <1>2, <2>1
  <2>4. Known(fd, connection[fd], Polls(s))
    BY <1>1, <2>1 DEF Known
  <2>5. InWebInit(fd, connection[fd], Polls(s))
    BY <1>1, <1>2, <2>2, WebSteps DEF InWebInit
  <2>6. OthersStay(fd) /\ InLimits(fd)
    BY <2>2 DEF OthersStay, InLimits, Keeps, Within
  <2> QED
    BY <1>1, <1>2, <2>3, <2>4, <2>5, <2>6, PollsType DEF Move, Placed
<1> QED
  BY <1>3, <1>4 DEF just_do

LEMMA DoesWebAuth ==
  ASSUME IInv, NEW e, e.fd \in DOMAIN web_auth, just_do(web_auth, e),
         UNCHANGED <<count, clients, auth, web_init>>
  PROVE  /\ \E id, mask : Move(e.fd, id, mask)
         /\ admitted \subseteq admitted' /\ admitted' \subseteq 1 .. count'
<1> DEFINE fd == e.fd
<1>1. /\ fd \in Fd /\ fd \in Open /\ fd \in registered /\ connection[fd] \in 1 .. count
      /\ count \in Nat /\ connection = [connection EXCEPT ![fd] = connection[fd]]
      /\ fd \notin clients /\ fd \notin DOMAIN auth /\ fd \notin DOMAIN web_init
  BY OwnedFacts DEF IInv
<1>2. admitted \subseteq 1 .. count /\ web_auth[fd] \in PassStates /\ count' = count
  BY DEF IInv, Types
<1>3. CASE remove(web_auth, fd) /\ UNCHANGED admitted
  BY <1>2, <1>3, RemoveMovesWebAuth
<1>4. CASE \E s \in StepsTo(web_auth[fd], e.mask) :
             /\ web_auth' = [web_auth EXCEPT ![fd] = s]
             /\ interest' = [interest EXCEPT ![fd] = Polls(s)]
             /\ admitted' = IF web_auth[fd] = "recv" /\ s = "yes"
                              THEN admitted \cup {connection[fd]} ELSE admitted
             /\ UNCHANGED <<connection, registered, late>>
  <2>1. PICK s \in StepsTo(web_auth[fd], e.mask) :
          /\ web_auth' = [web_auth EXCEPT ![fd] = s]
          /\ interest' = [interest EXCEPT ![fd] = Polls(s)]
          /\ admitted' = IF web_auth[fd] = "recv" /\ s = "yes"
                           THEN admitted \cup {connection[fd]} ELSE admitted
          /\ UNCHANGED <<connection, registered, late>>
    BY <1>4
  <2>2. DOMAIN web_auth' = DOMAIN web_auth /\ web_auth'[fd] = s /\ Keeps(web_auth, web_auth', fd)
    BY <2>1 DEF Keeps
  <2>3. admitted \subseteq admitted' /\ admitted' \subseteq 1 .. count'
    BY <1>1, <1>2, <2>1
  <2>4. Known(fd, connection[fd], Polls(s))
    BY <1>1, <2>1 DEF Known
  <2>5. InWebAuth(fd, connection[fd], Polls(s))
    <3>1. s \in PassStates /\ (s = "yes" => web_auth[fd] \in {"recv", "yes"})
      BY <1>2, PassSteps
    <3>2. web_auth[fd] = "yes" => connection[fd] \in admitted
      BY DEF IInv, Passed
    <3>3. s = "yes" => connection[fd] \in admitted'
      BY <2>1, <2>3, <3>1, <3>2
    <3> QED
      BY <1>1, <2>2, <3>1, <3>3 DEF InWebAuth
  <2>6. OthersStay(fd) /\ InLimits(fd)
    BY <2>2 DEF OthersStay, InLimits, Keeps, Within
  <2> QED
    BY <1>1, <1>2, <2>3, <2>4, <2>5, <2>6, PollsType DEF Move, Placed
<1> QED
  BY <1>3, <1>4 DEF just_do

LEMMA CheckAuthMoves ==
  ASSUME IInv, NEW fd, CheckAuth(fd)
  PROVE  \E id, mask : Move(fd, id, mask)
<1>1. /\ fd \in DOMAIN auth /\ auth' = Without(auth, fd)
      /\ IF is_acc(auth[fd]) THEN reg(fd, connection[fd]) ELSE Close(fd) /\ UNCHANGED clients
      /\ UNCHANGED <<count, web_init, web_auth, admitted>>
  BY DEF CheckAuth, Due, Erased
<1>2. /\ fd \in Fd /\ connection[fd] \in 1 .. count' /\ count' \in Nat
      /\ fd \notin clients /\ fd \notin DOMAIN web_init /\ fd \notin DOMAIN web_auth
  BY <1>1, OwnedFacts DEF IInv
<1>3. /\ fd \notin DOMAIN auth' /\ Keeps(auth, auth', fd)
      /\ Keeps(web_init, web_init', fd) /\ Keeps(web_auth, web_auth', fd)
  BY <1>1, WithoutKeeps DEF Keeps
<1>4. CASE is_acc(auth[fd])
  <2>1. connection[fd] \in admitted'
    BY <1>1, <1>4 DEF is_acc, IInv, Passed
  <2> QED
    BY <1>1, <1>2, <1>3, <1>4, <2>1, RegMoves
<1>5. CASE ~is_acc(auth[fd])
  <2>1. Close(fd) /\ clients' = clients /\ OthersStay(fd)
    BY <1>1, <1>3, <1>5 DEF OthersStay
  <2> QED
    BY <1>1, <1>2, <1>3, <2>1, CloseMoves
<1> QED
  BY <1>4, <1>5

LEMMA CheckWebInitMoves ==
  ASSUME IInv, NEW fd, CheckWebInit(fd)
  PROVE  \E id, mask : Move(fd, id, mask)
<1>1. /\ fd \in DOMAIN web_init /\ web_init' = Without(web_init, fd)
      /\ IF is_acc(web_init[fd]) THEN add(web_auth, fd, connection[fd], "send")
                                 ELSE Close(fd) /\ UNCHANGED web_auth
      /\ UNCHANGED <<count, clients, auth, admitted>>
  BY DEF CheckWebInit, Due, Erased
<1>2. /\ fd \in Fd /\ connection[fd] \in 1 .. count' /\ count' \in Nat
      /\ fd \notin clients /\ fd \notin DOMAIN auth /\ fd \notin DOMAIN web_auth
  BY <1>1, OwnedFacts DEF IInv
<1>3. /\ fd \notin DOMAIN web_init' /\ Keeps(web_init, web_init', fd)
      /\ Keeps(auth, auth', fd)
  BY <1>1, WithoutKeeps DEF Keeps
<1>4. CASE is_acc(web_init[fd])
  BY <1>1, <1>2, <1>3, <1>4, AddMovesWebAuth
<1>5. CASE ~is_acc(web_init[fd])
  <2>1. Close(fd) /\ web_auth' = web_auth /\ OthersStay(fd)
    BY <1>1, <1>3, <1>5 DEF OthersStay, Keeps
  <2> QED
    BY <1>1, <1>2, <1>3, <2>1, CloseMoves
<1> QED
  BY <1>4, <1>5

LEMMA CheckWebAuthMoves ==
  ASSUME IInv, NEW fd, CheckWebAuth(fd)
  PROVE  \E id, mask : Move(fd, id, mask)
<1>1. /\ fd \in DOMAIN web_auth /\ web_auth' = Without(web_auth, fd)
      /\ IF is_acc(web_auth[fd]) THEN reg(fd, connection[fd]) ELSE Close(fd) /\ UNCHANGED clients
      /\ UNCHANGED <<count, auth, web_init, admitted>>
  BY DEF CheckWebAuth, Due, Erased
<1>2. /\ fd \in Fd /\ connection[fd] \in 1 .. count' /\ count' \in Nat
      /\ fd \notin clients /\ fd \notin DOMAIN auth /\ fd \notin DOMAIN web_init
  BY <1>1, OwnedFacts DEF IInv
<1>3. /\ fd \notin DOMAIN web_auth' /\ Keeps(web_auth, web_auth', fd)
      /\ Keeps(auth, auth', fd) /\ Keeps(web_init, web_init', fd)
  BY <1>1, WithoutKeeps DEF Keeps
<1>4. CASE is_acc(web_auth[fd])
  <2>1. connection[fd] \in admitted'
    BY <1>1, <1>4 DEF is_acc, IInv, Passed
  <2> QED
    BY <1>1, <1>2, <1>3, <1>4, <2>1, RegMoves
<1>5. CASE ~is_acc(web_auth[fd])
  <2>1. Close(fd) /\ clients' = clients /\ OthersStay(fd)
    BY <1>1, <1>3, <1>5 DEF OthersStay
  <2> QED
    BY <1>1, <1>2, <1>3, <2>1, CloseMoves
<1> QED
  BY <1>4, <1>5

LEMMA ErrorMoves ==
  ASSUME IInv, NEW e, HandleError(e)
  PROVE  \/ \E id, mask : Move(e.fd, id, mask)
         \/ UNCHANGED <<owners, connection, interest, registered, late>>
<1>0. UNCHANGED count
  BY DEF HandleError
<1>1. CASE e.fd \in DOMAIN auth /\ remove(auth, e.fd) /\ UNCHANGED <<clients, web_init, web_auth>>
  BY <1>0, <1>1, RemoveMovesAuth
<1>2. CASE e.fd \in DOMAIN web_init /\ remove(web_init, e.fd) /\ UNCHANGED <<clients, auth, web_auth>>
  BY <1>0, <1>2, RemoveMovesWebInit
<1>3. CASE e.fd \in DOMAIN web_auth /\ remove(web_auth, e.fd) /\ UNCHANGED <<clients, auth, web_init>>
  BY <1>0, <1>3, RemoveMovesWebAuth
<1>4. CASE e.fd \in clients /\ unreg(e.fd) /\ UNCHANGED <<auth, web_init, web_auth>>
  BY <1>0, <1>4, UnregMoves
<1>5. CASE UNCHANGED <<owners, connection, interest, registered, late>>
  BY <1>5
<1> QED
  BY <1>1, <1>2, <1>3, <1>4, <1>5 DEF HandleError

\* Somebody knocks, or the owner of an open descriptor does its work.
LEMMA EventMoves ==
  ASSUME IInv, NEW e \in todo, HandleEvent(e)
  PROVE  /\ admitted \subseteq admitted' /\ admitted' \subseteq 1 .. count'
         /\ \/ /\ e.fd \in Listener /\ Fd \ Open # {} /\ count' = count + 1
               /\ \E id, mask : Move(Lowest, id, mask)
            \/ /\ e.fd \in Open /\ count' = count
               /\ \/ \E id, mask : Move(e.fd, id, mask)
                  \/ UNCHANGED <<owners, connection, interest, registered, late>>
<1>0. admitted \subseteq 1 .. count /\ OwnedAndPolled /\ Types
  BY DEF IInv, Types
<1>1. CASE e.fd \in Listener /\ Accept(e.fd)
  <2>1. e \in Knocks(todo) /\ Pending
    BY <1>1 DEF Knocks, HandleEvent, IInv, Batch
  <2>2. Cardinality(Knocks(todo)) # 0 /\ IsFiniteSet(Knocks(todo))
    BY <2>1, FS_EmptySet DEF Pending
  <2>3. Cardinality(Knocks(todo)) \in Nat /\ IsFiniteSet(Fd \ Open)
    BY <1>0, <2>2, FS_CardinalityType, OwnersFinite
  <2>4. Cardinality(Fd \ Open) # 0
    <3>1. Cardinality(Knocks(todo)) <= Cardinality(Fd \ Open)
      BY <2>1 DEF Pending
    <3> QED
      BY <2>2, <2>3, <3>1, FS_CardinalityType
  <2>5. Fd \ Open # {}
    BY <2>3, <2>4, FS_EmptySet
  <2> QED
    BY <1>1, <2>5, AcceptMoves
<1>2. CASE e.fd \in clients /\ ServeClient(e)
  <2>1. e.fd \in Open /\ count' = count /\ admitted' = admitted
    BY <1>0, <1>2, OwnedFacts DEF ServeClient
  <2>2. CASE unreg(e.fd)
    BY <1>0, <1>2, <2>1, <2>2, UnregMoves DEF ServeClient
  <2>3. CASE UNCHANGED <<clients, connection, interest, registered, late>>
    BY <1>0, <1>2, <2>1, <2>3 DEF ServeClient, owners
  <2> QED
    BY <1>2, <2>2, <2>3 DEF ServeClient
<1>3. CASE e.fd \in DOMAIN auth /\ just_do(auth, e) /\ UNCHANGED <<count, clients, web_init, web_auth>>
  BY <1>0, <1>3, DoesAuth, OwnedFacts
<1>4. CASE e.fd \in DOMAIN web_init /\ just_do(web_init, e) /\ UNCHANGED <<count, clients, auth, web_auth>>
  BY <1>0, <1>4, DoesWebInit, OwnedFacts
<1>5. CASE e.fd \in DOMAIN web_auth /\ just_do(web_auth, e) /\ UNCHANGED <<count, clients, auth, web_init>>
  BY <1>0, <1>5, DoesWebAuth, OwnedFacts
<1> QED
  BY <1>1, <1>2, <1>3, <1>4, <1>5 DEF HandleEvent

----------------------------------------------------------------------------
(***************************************************************************)
(* The invariant is kept.                                                  *)
(***************************************************************************)
Kept == Types /\ OwnedAndPolled /\ Passed /\ Limits

LEMMA MoveKeeps ==
  ASSUME IInv, NEW fd, \E id, mask : Move(fd, id, mask),
         count' \in Nat, count <= count', admitted \subseteq admitted',
         admitted' \subseteq 1 .. count', gone' = gone, pc' \in Phases
  PROVE  Kept'
<1>1. PICK id, mask : Move(fd, id, mask)
  OBVIOUS
<1>2. Types /\ OwnedAndPolled /\ Passed /\ Limits
  BY DEF IInv
<1>3. OwnedAndPolled'
  BY <1>1, <1>2, MoveOwned
<1>4. Types'
  BY <1>1, <1>2, MoveTypes
<1>5. Passed'
  BY <1>1, <1>2, MovePassed
<1>6. Limits'
  BY <1>1, <1>2, MoveLimits
<1> QED
  BY <1>3, <1>4, <1>5, <1>6 DEF Kept

LEMMA RestKeeps ==
  ASSUME IInv, UNCHANGED <<connection, count, interest, registered, owners, admitted>>,
         gone' \subseteq 1 .. count, late' \subseteq Open, pc' \in Phases
  PROVE  Kept'
<1>1. Open' = Open
  BY DEF Open
<1>2. Types /\ OwnedAndPolled /\ Passed /\ Limits
  BY DEF IInv
<1>3. Types'
  BY <1>1, <1>2 DEF Types, owners
<1>4. OwnedAndPolled'
  BY <1>1, <1>2 DEF OwnedAndPolled, OneOwner, owners
<1>5. Passed' /\ Limits'
  BY <1>2 DEF Passed, ClientsAdmitted, Limits, owners
<1> QED
  BY <1>3, <1>4, <1>5 DEF Kept

\* One event of the batch less, its listener's descriptor open or another closed.
LEMMA PendingStep ==
  ASSUME IInv, NEW e \in todo, HandleEvent(e)
  PROVE  Pending' /\ count' <= MaxConnections
<1>0. /\ Pending /\ Types /\ OwnedAndPolled /\ todo' = todo \ {e}
      /\ \A f \in todo' : f.fd # e.fd
      /\ \A f \in todo' : f.fd \in Fd => f.fd \in Open
      /\ count \in Nat /\ count <= MaxConnections /\ MaxConnections \in Nat
  BY ServerConstants DEF HandleEvent, IInv, Batch, Pending, Open, Types
<1> DEFINE knocks == Knocks(todo)
           closed == Fd \ Open
<1>1. /\ IsFiniteSet(knocks) /\ Cardinality(knocks) \in Nat
      /\ IsFiniteSet(closed) /\ Cardinality(closed) \in Nat
      /\ Cardinality(knocks) <= Cardinality(closed)
      /\ Cardinality(knocks) <= MaxConnections - count
  BY <1>0, OwnersFinite, FS_CardinalityType DEF Pending
<1>2. CASE /\ e.fd \in Listener /\ Fd \ Open # {} /\ count' = count + 1
           /\ \E id, mask : Move(Lowest, id, mask)
  <2>1. PICK id, mask : Move(Lowest, id, mask)
    BY <1>2
  <2>2. Lowest \in closed
    BY <1>2, LowestClosed
  <2>3. \A f \in todo' : f.fd \in Fd => f.of # 0 /\ connection'[f.fd] = f.of
    BY <1>0, <2>1, <2>2, MoveOpen DEF Pending
  <2>4. /\ Knocks(todo)' = knocks \ {e} /\ e \in knocks
    BY <1>0, <1>2 DEF Knocks
  <2>5. IsFiniteSet(Knocks(todo)') /\ Cardinality(Knocks(todo)') = Cardinality(knocks) - 1
    <3> HIDE DEF knocks
    <3> QED
      BY <1>1, <2>4, FS_RemoveElement
  <2>6. closed \ {Lowest} \subseteq (Fd \ Open)' /\ IsFiniteSet((Fd \ Open)')
    <3>1. Open' \subseteq Open \cup {Lowest}
      BY <1>0, <2>1, MoveOpen
    <3>2. (Fd \ Open)' \in SUBSET Fd
      OBVIOUS
    <3> QED
      BY <3>1, <3>2, ServerConstants, FS_Subset
  <2>7. Cardinality((Fd \ Open)') >= Cardinality(closed) - 1
    <3>1. IsFiniteSet(closed \ {Lowest}) /\ Cardinality(closed \ {Lowest}) = Cardinality(closed) - 1
      <4> HIDE DEF closed
      <4> QED
        BY <1>1, <2>2, FS_RemoveElement
    <3> DEFINE less == closed \ {Lowest}
               now == (Fd \ Open)'
    <3>2. less \in SUBSET now /\ IsFiniteSet(now)
      BY <2>6
    <3>3. Cardinality(less) <= Cardinality(now)
      <4> HIDE DEF less, now
      <4> QED
        BY <3>2, FS_Subset
    <3>4. Cardinality(now) \in Nat
      BY <2>6, FS_CardinalityType
    <3> QED
      BY <1>1, <3>1, <3>3, <3>4
  <2>8. Cardinality((Fd \ Open)') \in Nat
    BY <2>6, FS_CardinalityType
  <2>9. Cardinality(knocks) >= 1
    <3> HIDE DEF knocks
    <3>1. Cardinality(knocks) # 0
      BY <1>1, <2>4, FS_EmptySet
    <3> QED
      BY <1>1, <3>1
  <2>10. /\ Cardinality(Knocks(todo)') <= Cardinality((Fd \ Open)')
         /\ Cardinality(Knocks(todo)') <= MaxConnections - count'
         /\ count' <= MaxConnections
    <3> HIDE DEF knocks, closed
    <3> QED
      BY <1>0, <1>1, <1>2, <2>5, <2>7, <2>8, <2>9
  <2> QED
    BY <2>3, <2>5, <2>10 DEF Pending
<1>3. CASE /\ e.fd \in Open /\ count' = count
           /\ \/ \E id, mask : Move(e.fd, id, mask)
              \/ UNCHANGED <<owners, connection, interest, registered, late>>
  <2>1. /\ Open' \subseteq Open
        /\ \A g \in Fd \ {e.fd} : connection'[g] = connection[g]
    BY <1>0, <1>3, MoveOpen DEF Open
  <2>2. \A f \in todo' : f.fd \in Fd => f.of # 0 /\ connection'[f.fd] = f.of
    BY <1>0, <2>1 DEF Pending
  <2>3. Knocks(todo)' = knocks
    BY <1>0, <1>3, ServerConstants DEF Knocks, Open
  <2>4. closed \in SUBSET ((Fd \ Open)') /\ (Fd \ Open)' \in SUBSET Fd
    BY <2>1
  <2>5. IsFiniteSet((Fd \ Open)')
    BY <2>4, ServerConstants, FS_Subset
  <2>6. Cardinality(closed) <= Cardinality((Fd \ Open)')
    <3> DEFINE now == (Fd \ Open)'
    <3>1. closed \in SUBSET now /\ IsFiniteSet(now)
      BY <2>4, <2>5
    <3> HIDE DEF closed, now
    <3>2. Cardinality(closed) <= Cardinality(now)
      BY <3>1, FS_Subset
    <3> QED
      BY <3>2 DEF now
  <2>7. Cardinality((Fd \ Open)') \in Nat
    BY <2>5, FS_CardinalityType
  <2>8. Cardinality(Knocks(todo)') <= Cardinality((Fd \ Open)')
    <3> HIDE DEF knocks, closed
    <3> QED
      BY <1>1, <2>3, <2>6, <2>7
  <2> QED
    BY <1>0, <1>1, <1>3, <2>2, <2>3, <2>8 DEF Pending
<1> QED
  BY <1>2, <1>3, EventMoves

\* Whoever is late, ready or broken is closed or moved on, and so on to the next turn.
LEMMA HandleEventKeeps ==
  ASSUME IInv, NEW e \in todo, HandleEvent(e)
  PROVE  IInv'
<1>1. /\ admitted \subseteq admitted' /\ admitted' \subseteq 1 .. count'
      /\ gone' = gone /\ events' = events /\ todo' \subseteq todo
      /\ pc = "events" /\ pc' = pc
  BY EventMoves DEF HandleEvent
<1>2. Pending' /\ count' <= MaxConnections
  BY PendingStep
<1>3. Batch'
  BY <1>1, <1>2 DEF IInv, Batch
<1>4. /\ count \in Nat /\ gone \subseteq 1 .. count /\ late \subseteq Open
      /\ pc' \in Phases
  BY <1>1 DEF IInv, Types
<1>5. Kept'
  <2>1. CASE count' = count + 1 /\ \E id, mask : Move(Lowest, id, mask)
    <3>1. count' \in Nat /\ count <= count'
      BY <1>4, <2>1
    <3> QED
      BY <1>1, <1>4, <2>1, <3>1, MoveKeeps
  <2>2. CASE count' = count /\ \E id, mask : Move(e.fd, id, mask)
    <3>1. count' \in Nat /\ count <= count'
      BY <1>4, <2>2
    <3> QED
      BY <1>1, <1>4, <2>2, <3>1, MoveKeeps
  <2>3. CASE count' = count /\ UNCHANGED <<owners, connection, interest, registered, late>>
    <3>1. Open' = Open
      BY <2>3 DEF Open
    <3>2. Types' /\ OwnedAndPolled' /\ Limits'
      BY <1>1, <1>4, <2>3, <3>1 DEF IInv, Types, OwnedAndPolled, OneOwner, Limits, owners
    <3>3. Passed'
      BY <1>1, <2>3 DEF IInv, Passed, ClientsAdmitted, owners
    <3> QED
      BY <3>2, <3>3 DEF Kept
  <2> QED
    BY <2>1, <2>2, <2>3, EventMoves
<1> QED
  BY <1>2, <1>3, <1>5 DEF IInv, Kept

LEMMA HandleErrorKeeps ==
  ASSUME IInv, NEW e \in todo, HandleError(e)
  PROVE  IInv'
<1>1. /\ pc' = "errors" /\ todo' \subseteq todo
      /\ UNCHANGED <<count, gone, events, admitted>>
  BY DEF HandleError
<1>2. /\ count' \in Nat /\ count <= count' /\ admitted \subseteq admitted'
      /\ admitted' \subseteq 1 .. count' /\ gone \subseteq 1 .. count
      /\ late \subseteq Open /\ pc' \in Phases
  BY <1>1 DEF IInv, Types, Phases
<1>3. Kept'
  <2>1. CASE \E id, mask : Move(e.fd, id, mask)
    BY <1>1, <1>2, <2>1, MoveKeeps
  <2>2. CASE UNCHANGED <<owners, connection, interest, registered, late>>
    BY <1>1, <1>2, <2>2, RestKeeps
  <2> QED
    BY <2>1, <2>2, ErrorMoves
<1>4. Batch'
  BY <1>1 DEF IInv, Batch
<1> QED
  BY <1>1, <1>3, <1>4 DEF IInv, Kept

LEMMA CheckKeeps ==
  ASSUME IInv, NEW fd, CheckAuth(fd) \/ CheckWebInit(fd) \/ CheckWebAuth(fd)
  PROVE  IInv'
<1>1. /\ pc' = pc /\ pc \in {"auth", "web_init", "web_auth"}
      /\ UNCHANGED <<count, gone, events, todo, admitted>>
  BY DEF CheckAuth, CheckWebInit, CheckWebAuth
<1>2. /\ count' \in Nat /\ count <= count' /\ admitted \subseteq admitted'
      /\ admitted' \subseteq 1 .. count' /\ pc' \in Phases
  BY <1>1 DEF IInv, Types
<1>3. \E id, mask : Move(fd, id, mask)
  BY CheckAuthMoves, CheckWebInitMoves, CheckWebAuthMoves
<1>4. Kept'
  BY <1>1, <1>2, <1>3, MoveKeeps
<1>5. Batch'
  BY <1>1 DEF IInv, Batch
<1> QED
  BY <1>1, <1>4, <1>5 DEF IInv, Kept

\* The listeners of a batch are as many events, and there is a descriptor for each.
LEMMA KnocksOf ==
  ASSUME NEW knocking \in SUBSET Listener, NEW batch,
         Knocks(batch) = {Event(l, {"in"}) : l \in knocking}
  PROVE  IsFiniteSet(Knocks(batch)) /\ Cardinality(Knocks(batch)) = Cardinality(knocking)
<1>1. IsFiniteSet(knocking)
  <2>1. IsFiniteSet({conn_sock, tcp_server_sock, web_server_sock})
    <3>1. IsFiniteSet({conn_sock}) /\ IsFiniteSet({tcp_server_sock}) /\ IsFiniteSet({web_server_sock})
      BY FS_Singleton
    <3>2. IsFiniteSet({conn_sock} \cup {tcp_server_sock})
      BY <3>1, FS_Union
    <3>3. IsFiniteSet(({conn_sock} \cup {tcp_server_sock}) \cup {web_server_sock})
      BY <3>1, <3>2, FS_Union
    <3>4. ({conn_sock} \cup {tcp_server_sock}) \cup {web_server_sock}
            = {conn_sock, tcp_server_sock, web_server_sock}
      OBVIOUS
    <3> QED
      BY <3>3, <3>4
  <2> QED
    BY <2>1, FS_Subset DEF Listener
<1> DEFINE f == [l \in knocking |-> Event(l, {"in"})]
<1>2. f \in Bijection(knocking, Knocks(batch))
  <2>1. /\ f \in [knocking -> Knocks(batch)]
        /\ \A y \in Knocks(batch) : \E x \in knocking : f[x] = y
    OBVIOUS
  <2>2. \A x, y \in knocking : f[x] = f[y] => x = y
    BY DEF Event
  <2> QED
    BY <2>1, <2>2, Fun_IsBij
<1> QED
  BY <1>1, <1>2, FS_Bijection DEF ExistsBijection

LEMMA WaitKeeps ==
  ASSUME IInv, Wait
  PROVE  IInv'
<1>1. /\ UNCHANGED <<connection, count, interest, registered, gone, owners, late, admitted>>
      /\ pc' = "events" /\ todo' = events'
  BY DEF Wait, kernel
<1>2. PICK knocking \in SUBSET Listener, reported \in SUBSET registered :
        /\ Cardinality(knocking) <= MaxConnections - count
        /\ Cardinality(knocking) <= Cardinality(Fd \ Open)
        /\ \E mask \in [reported -> SUBSET {"in", "out", "err"}] :
             events' = {Event(fd, mask[fd]) : fd \in reported}
                         \cup {Event(l, {"in"}) : l \in knocking}
  BY DEF Wait
<1>3. PICK mask \in [reported -> SUBSET {"in", "out", "err"}] :
        events' = {Event(fd, mask[fd]) : fd \in reported}
                    \cup {Event(l, {"in"}) : l \in knocking}
  BY <1>2
<1>4. Open' = Open /\ registered = Open /\ Open \subseteq Fd /\ Listener \cap Fd = {}
  BY <1>1, ServerConstants DEF Open, IInv, OwnedAndPolled
<1>5. ASSUME NEW e \in events'
      PROVE  \/ e.fd \in reported /\ e = Event(e.fd, mask[e.fd])
             \/ e.fd \in knocking /\ e = Event(e.fd, {"in"})
  BY <1>3 DEF Event
<1>6. Knocks(todo') = {Event(l, {"in"}) : l \in knocking}
  <2>1. ASSUME NEW e \in Knocks(todo')
        PROVE  e \in {Event(l, {"in"}) : l \in knocking}
    BY <1>1, <1>4, <1>5 DEF Knocks
  <2>2. ASSUME NEW l \in knocking
        PROVE  Event(l, {"in"}) \in Knocks(todo')
    BY <1>1, <1>3 DEF Knocks, Event
  <2> QED
    BY <2>1, <2>2
<1>7. Pending'
  <2>1. \A e \in todo' : e.fd \in Fd => e.of # 0 /\ connection'[e.fd] = e.of
    BY <1>1, <1>4, <1>5 DEF Event, Open
  <2>2. IsFiniteSet(Knocks(todo')) /\ Cardinality(Knocks(todo')) = Cardinality(knocking)
    BY <1>6, KnocksOf
  <2>3. Knocks(todo)' = Knocks(todo') /\ Cardinality((Fd \ Open)') = Cardinality(Fd \ Open)
    BY <1>4 DEF Knocks
  <2> QED
    BY <1>1, <1>2, <2>1, <2>2, <2>3 DEF Pending
<1>8. Batch'
  <2>1. \A e \in events' : e.fd \in Fd \cup Listener
    BY <1>4, <1>5
  <2>2. \A e, f \in events' : e.fd = f.fd => e = f
    BY <1>4, <1>5
  <2> QED
    BY <1>1, <1>7, <2>1, <2>2 DEF Batch
<1>9. Kept'
  <2>1. gone' \subseteq 1 .. count /\ late' \subseteq Open /\ pc' \in Phases
    BY <1>1 DEF IInv, Types, Phases
  <2> QED
    BY <1>1, <2>1, RestKeeps
<1> QED
  BY <1>1, <1>8, <1>9 DEF IInv, Kept

LEMMA InvStep == IInv /\ [Next]_vars => IInv'
<1> SUFFICES ASSUME IInv, [Next]_vars
             PROVE  IInv'
  OBVIOUS
<1>0. /\ gone \subseteq 1 .. count /\ late \subseteq Open /\ pc \in Phases /\ Batch
      /\ connection \in [Fd -> 0 .. count] /\ OneOwner /\ count <= MaxConnections
      /\ count \in Nat
  BY DEF IInv, Types, OwnedAndPolled
<1>1. ASSUME NEW c \in 1 .. count, HangUp(c)
      PROVE  IInv'
  <2>1. /\ UNCHANGED <<connection, count, interest, registered, owners, admitted>>
        /\ UNCHANGED <<events, todo, pc, late>> /\ gone' = gone \cup {c}
    BY <1>1 DEF HangUp, kernel
  <2>2. Kept'
    <3>1. gone' \subseteq 1 .. count /\ late' \subseteq Open /\ pc' \in Phases
      BY <1>0, <2>1
    <3> QED
      BY <2>1, <3>1, RestKeeps
  <2>3. Batch'
    BY <1>0, <2>1 DEF Batch, Pending, Knocks, Open
  <2> QED
    BY <1>0, <2>1, <2>2, <2>3 DEF IInv, Kept
<1>2. ASSUME NEW fd \in Fd, MinuteOver(fd)
      PROVE  IInv'
  <2>1. /\ UNCHANGED <<connection, count, interest, registered, owners, admitted>>
        /\ UNCHANGED <<events, todo, pc, gone>> /\ late' = late \cup {fd} /\ pc = "wait"
        /\ fd \in DOMAIN auth \cup DOMAIN web_init \cup DOMAIN web_auth
    BY <1>2 DEF MinuteOver, kernel
  <2>2. Kept'
    <3>1. gone' \subseteq 1 .. count /\ late' \subseteq Open /\ pc' \in Phases
      BY <1>0, <2>1 DEF OneOwner
    <3> QED
      BY <2>1, <3>1, RestKeeps
  <2>3. Batch'
    BY <1>0, <2>1 DEF Batch
  <2> QED
    BY <1>0, <2>1, <2>2, <2>3 DEF IInv, Kept
<1>3. CASE Wait
  BY <1>3, WaitKeeps
<1>4. ASSUME NEW e \in todo, HandleEvent(e) \/ HandleError(e)
      PROVE  IInv'
  BY <1>4, HandleEventKeeps, HandleErrorKeeps
<1>5. CASE EventsDone \/ ErrorsDone \/ Checked
  <2>1. /\ UNCHANGED <<connection, count, interest, registered, owners, admitted>>
        /\ UNCHANGED <<late, gone>> /\ pc' \in Phases \ {"events"}
    BY <1>5 DEF EventsDone, ErrorsDone, Checked, Phases, kernel
  <2>2. Kept'
    BY <1>0, <2>1, RestKeeps
  <2>3. Batch'
    BY <1>0, <1>5, <2>1 DEF EventsDone, ErrorsDone, Checked, Batch
  <2> QED
    BY <1>0, <2>1, <2>2, <2>3 DEF IInv, Kept
<1>6. ASSUME NEW fd \in Fd, CheckAuth(fd) \/ CheckWebInit(fd) \/ CheckWebAuth(fd)
      PROVE  IInv'
  BY <1>6, CheckKeeps
<1>7. CASE UNCHANGED vars
  <2>1. /\ UNCHANGED <<connection, count, interest, registered, owners, admitted>>
        /\ UNCHANGED <<late, gone, pc, events, todo>>
    BY <1>7 DEF vars, kernel
  <2>2. Kept'
    BY <1>0, <2>1, RestKeeps
  <2>3. Batch'
    BY <1>0, <2>1 DEF Batch, Pending, Knocks, Open
  <2> QED
    BY <1>0, <2>1, <2>2, <2>3 DEF IInv, Kept
<1> QED
  BY <1>1, <1>2, <1>3, <1>4, <1>5, <1>6, <1>7 DEF Next, Serve

----------------------------------------------------------------------------
(***************************************************************************)
(* The theorems.                                                           *)
(***************************************************************************)
\* The invariant holds in every behaviour of the loop.
THEOREM Inductive == Spec => []IInv
<1> QED
  BY InvInit, InvStep, PTL DEF Spec

LEMMA InvTyped == IInv => TypeOK
<1> SUFFICES ASSUME IInv
             PROVE  TypeOK
  OBVIOUS
<1>1. PassStates \cup WebStates \subseteq CheckerState
  BY DEF PassStates, WebStates, CheckerState, Progress
<1>2. count \in 0 .. MaxConnections
  BY ServerConstants DEF IInv, Types
<1>3. /\ clients \subseteq Fd /\ DOMAIN auth \subseteq Fd /\ DOMAIN web_init \subseteq Fd
      /\ DOMAIN web_auth \subseteq Fd /\ registered \subseteq Fd
  BY DEF IInv, OwnedAndPolled, OneOwner, Open
<1>4. \A c \in {auth, web_init, web_auth} :
        /\ DOMAIN c \subseteq Fd /\ Cardinality(DOMAIN c) <= max_auth + 1
        /\ \A fd \in DOMAIN c : c[fd] \in CheckerState
  BY <1>1, <1>3 DEF IInv, Types, Limits
<1>5. todo \subseteq events
  BY DEF IInv, Batch
<1> QED
  BY <1>2, <1>3, <1>4, <1>5 DEF IInv, Types, Limits, Phases, TypeOK

\* The state has its types and the containers keep to their limits: max_clients
\* (clients_wrapper.cpp), and one more than max_clients of authentificator_t.
THEOREM TypeCorrect == Spec => []TypeOK
<1> QED
  BY InvTyped, Inductive, PTL

\* Every open descriptor is in one container and polled for what that waits for
\* (authentificator_t::check_all, process_auth), however the connections go and
\* come back on the same descriptors.
THEOREM AlwaysOwned == Spec => []OwnedAndPolled
<1>1. IInv => OwnedAndPolled
  BY DEF IInv
<1> QED
  BY <1>1, Inductive, PTL

\* Only those become clients who are on the local socket or had the password
\* (process_auth and process_web_init).
THEOREM AlwaysAdmitted == Spec => []ClientsAdmitted
<1>1. IInv => ClientsAdmitted
  BY DEF IInv, Passed
<1> QED
  BY <1>1, Inductive, PTL

\* An event of a batch is handled for the connection that it was reported of, though
\* accept gives the descriptors closed in the same batch again (server.cpp).
THEOREM AlwaysMeets == Spec => []EventsMeetTheirOwn
<1>1. IInv => EventsMeetTheirOwn
  BY DEF IInv, Batch, Pending, EventsMeetTheirOwn
<1> QED
  BY <1>1, Inductive, PTL

----------------------------------------------------------------------------
(***************************************************************************)
(* A login.  What the client sends is its packet and then a command; the   *)
(* server has some of it as the packet, some as commands, and the rest is  *)
(* on the wire.                                                            *)
(***************************************************************************)
Cell == {"len", "key", "right", "wrong", "info"} \X Nat

Told == G!Password \o <<G!send_info>>

\* s is what t has behind its first at cells.
Holds(s, t, at) == \A i \in 1 .. Len(s) : s[i] = t[at + i]

LEMMA LoginConstants ==
  /\ sizeof_len \in Nat \ {0} /\ key_size \in Nat \ {0} /\ rsa_size \in Nat \ {0}
  /\ pass_buff_size \in Nat \ {0} /\ max_plain \in 0 .. pass_buff_size - 1
BY PartsAssumption DEF G!LoginAssumption

LEMMA PacketFacts ==
  ASSUME NEW kind \in {"key", "right", "wrong"}, NEW size \in Nat
  PROVE  /\ G!Packet(kind, size) \in Seq(Cell)
         /\ Len(G!Packet(kind, size)) = sizeof_len + size
         /\ \A i \in 1 .. sizeof_len : G!Packet(kind, size)[i] = <<"len", size>>
         /\ \A i \in 1 .. size : G!Packet(kind, size)[sizeof_len + i] = <<kind, i>>
<1> DEFINE a == [i \in 1 .. sizeof_len |-> <<"len", size>>]
           b == [i \in 1 .. size |-> <<kind, i>>]
<1>1. sizeof_len \in Nat
  BY LoginConstants
<1>2. a \in Seq(Cell) /\ Len(a) = sizeof_len /\ \A i \in 1 .. sizeof_len : a[i] = <<"len", size>>
  BY <1>1 DEF Cell
<1>3. b \in Seq(Cell) /\ Len(b) = size /\ \A i \in 1 .. size : b[i] = <<kind, i>>
  BY DEF Cell
<1>4. G!Packet(kind, size) = a \o b
  BY DEF G!Packet
<1> HIDE DEF a, b
<1>5. /\ a \o b \in Seq(Cell) /\ Len(a \o b) = Len(a) + Len(b)
      /\ \A i \in 1 .. Len(a) + Len(b) : (a \o b)[i] = IF i <= Len(a) THEN a[i] ELSE b[i - Len(a)]
  BY <1>2, <1>3, ConcatProperties
<1> QED
  BY <1>1, <1>2, <1>3, <1>4, <1>5

LEMMA ToldFacts ==
  ASSUME right \in BOOLEAN
  PROVE  /\ G!Password \in Seq(Cell) /\ Len(G!Password) = sizeof_len + rsa_size
         /\ \A i \in 1 .. sizeof_len : G!Password[i] = <<"len", rsa_size>>
         /\ \A i \in 1 .. Len(G!Password) : Told[i] = G!Password[i]
         /\ Told[Len(G!Password) + 1] = G!send_info
         /\ G!Password[sizeof_len + 1] = <<IF right THEN "right" ELSE "wrong", 1>>
<1> DEFINE kind == IF right THEN "right" ELSE "wrong"
<1>1. rsa_size \in Nat /\ 1 \in 1 .. rsa_size /\ sizeof_len \in Nat /\ kind \in {"key", "right", "wrong"}
  BY LoginConstants
<1>2. G!Password = G!Packet(kind, rsa_size)
  BY DEF G!Password
<1>3. /\ G!Password \in Seq(Cell) /\ Len(G!Password) = sizeof_len + rsa_size
      /\ \A i \in 1 .. sizeof_len : G!Password[i] = <<"len", rsa_size>>
      /\ \A i \in 1 .. rsa_size : G!Password[sizeof_len + i] = <<kind, i>>
  BY <1>1, <1>2, PacketFacts
<1>4. /\ \A i \in 1 .. Len(G!Password) : Told[i] = G!Password[i]
      /\ Told[Len(G!Password) + 1] = G!send_info
  <2> DEFINE p == G!Password
             c == G!send_info
  <2>1. p \in Seq(Cell) /\ Told = p \o <<c>>
    BY <1>3 DEF Told
  <2> HIDE DEF p, c
  <2>2. /\ \A i \in 1 .. Len(p) : (p \o <<c>>)[i] = p[i]
        /\ (p \o <<c>>)[Len(p) + 1] = c
    BY <2>1
  <2> QED
    BY <2>1, <2>2 DEF p, c
<1> QED
  BY <1>1, <1>3, <1>4

\* c is a, which is at at, and b behind it.
Joins(a, b, c, t, at) ==
  /\ a \in Seq(Cell) /\ b \in Seq(Cell) /\ at \in Nat
  /\ c = a \o b /\ Holds(a, t, at) /\ Holds(b, t, at + Len(a))

LEMMA Joined ==
  ASSUME NEW a, NEW b, NEW c, NEW t, NEW at, Joins(a, b, c, t, at)
  PROVE  c \in Seq(Cell) /\ Len(c) = Len(a) + Len(b) /\ Holds(c, t, at)
<1>0. /\ a \in Seq(Cell) /\ b \in Seq(Cell) /\ at \in Nat
      /\ c = a \o b /\ Holds(a, t, at) /\ Holds(b, t, at + Len(a))
  BY DEF Joins
<1>1. /\ c \in Seq(Cell) /\ Len(c) = Len(a) + Len(b)
      /\ \A i \in 1 .. Len(a) + Len(b) :
           c[i] = IF i <= Len(a) THEN a[i] ELSE b[i - Len(a)]
  BY <1>0, ConcatProperties
<1>2. Len(a) \in Nat /\ Len(b) \in Nat
  BY <1>0, LenProperties
<1>3. ASSUME NEW i \in 1 .. Len(a) + Len(b)
      PROVE  c[i] = t[at + i]
  <2>1. CASE i <= Len(a)
    BY <1>0, <1>1, <1>2, <2>1 DEF Holds
  <2>2. CASE i > Len(a)
    <3>1. i - Len(a) \in 1 .. Len(b)
      BY <1>2, <2>2
    <3>2. b[i - Len(a)] = t[at + Len(a) + (i - Len(a))]
      BY <1>0, <3>1 DEF Holds
    <3>3. at + Len(a) + (i - Len(a)) = at + i /\ ~(i <= Len(a))
      BY <1>0, <1>2, <2>2
    <3> QED
      BY <1>1, <3>2, <3>3
  <2> QED
    BY <1>2, <2>1, <2>2
<1> QED
  BY <1>1, <1>3 DEF Holds

\* From m to n of what is behind at.
LEMMA Cut ==
  ASSUME NEW s \in Seq(Cell), NEW t, NEW at \in Nat, Holds(s, t, at),
         NEW m \in Nat, NEW n \in Nat, m <= n, n <= Len(s)
  PROVE  /\ SubSeq(s, m + 1, n) \in Seq(Cell) /\ Len(SubSeq(s, m + 1, n)) = n - m
         /\ Holds(SubSeq(s, m + 1, n), t, at + m)
<1> DEFINE c == SubSeq(s, m + 1, n)
<1>1. Len(s) \in Nat
  BY LenProperties
<1>2. c \in Seq(Cell) /\ Len(c) = n - m /\ \A i \in 1 .. n - m : c[i] = s[m + i]
  BY <1>1
<1> HIDE DEF c
<1>3. ASSUME NEW i \in 1 .. Len(c)
      PROVE  c[i] = t[at + m + i]
  <2>1. m + i \in 1 .. Len(s) /\ c[i] = s[m + i]
    BY <1>1, <1>2
  <2>2. s[m + i] = t[at + (m + i)]
    BY <2>1 DEF Holds
  <2>3. at + (m + i) = at + m + i
    BY <1>2
  <2> QED
    BY <2>1, <2>2, <2>3
<1>4. Holds(c, t, at + m)
  BY <1>3 DEF Holds
<1> QED
  BY <1>2, <1>4 DEF c

\* A part of a packet is written behind what is on the wire.
LEMMA Written ==
  ASSUME NEW packet \in Seq(Cell), NEW t, NEW wire_before \in Seq(Cell), NEW at \in Nat,
         NEW ptr \in 0 .. Len(packet), NEW ptr_after, NEW wire_after,
         sizeof_len <= Len(packet),
         G!IsWritten(packet, ptr, wire_before, ptr_after, wire_after),
         Holds(wire_before, t, at), at + Len(wire_before) = ptr, Holds(packet, t, 0)
  PROVE  /\ ptr_after \in 0 .. Len(packet) /\ wire_after \in Seq(Cell)
         /\ Holds(wire_after, t, at) /\ at + Len(wire_after) = ptr_after
<1>1. Len(packet) \in Nat /\ sizeof_len \in Nat /\ Len(wire_before) \in Nat
  BY LoginConstants, LenProperties
<1>2. G!BoundOf(packet, ptr) \in Nat /\ G!BoundOf(packet, ptr) <= Len(packet)
  BY <1>1 DEF G!BoundOf
<1>3. PICK n \in ptr + 1 .. G!BoundOf(packet, ptr) :
        ptr_after = n /\ wire_after = wire_before \o SubSeq(packet, ptr + 1, n)
  BY DEF G!IsWritten
<1>4. n \in Nat /\ ptr \in Nat /\ ptr <= n /\ n <= Len(packet) /\ ptr = at + Len(wire_before)
  BY <1>1, <1>2, <1>3
<1> DEFINE new == SubSeq(packet, ptr + 1, n)
<1>5. new \in Seq(Cell) /\ Len(new) = n - ptr /\ Holds(new, t, ptr)
  <2>1. /\ SubSeq(packet, ptr + 1, n) \in Seq(Cell) /\ Len(SubSeq(packet, ptr + 1, n)) = n - ptr
        /\ Holds(SubSeq(packet, ptr + 1, n), t, 0 + ptr)
    BY <1>4, Cut
  <2>2. 0 + ptr = ptr
    BY <1>4
  <2> QED
    BY <2>1, <2>2
<1> HIDE DEF new
<1>6. wire_after = wire_before \o new
  BY <1>3 DEF new
<1>7. /\ wire_after \in Seq(Cell) /\ Len(wire_after) = Len(wire_before) + Len(new)
      /\ Holds(wire_after, t, at)
  <2>1. Joins(wire_before, new, wire_after, t, at)
    BY <1>4, <1>5, <1>6 DEF Joins
  <2> QED
    BY <2>1, Joined
<1>8. at + (Len(wire_before) + (n - ptr)) = n
  BY <1>1, <1>4
<1> QED
  BY <1>3, <1>4, <1>5, <1>6, <1>7, <1>8

\* A part of what is on the wire is read behind what has come.
LEMMA ReadBehind ==
  ASSUME NEW got \in Seq(Cell), NEW wire_before \in Seq(Cell), NEW t,
         NEW got_after, NEW wire_after,
         G!IsRead(got, wire_before, got_after, wire_after),
         Holds(got, t, 0), Holds(wire_before, t, Len(got))
  PROVE  /\ got_after \in Seq(Cell) /\ wire_after \in Seq(Cell)
         /\ Holds(got_after, t, 0) /\ Holds(wire_after, t, Len(got_after))
         /\ Len(got_after) + Len(wire_after) = Len(got) + Len(wire_before)
         /\ Len(got_after) <= G!Asks(got)
<1>1. PICK n \in 1 .. Len(wire_before) :
        /\ Len(got) + n <= G!Asks(got)
        /\ got_after = got \o SubSeq(wire_before, 1, n)
        /\ wire_after = SubSeq(wire_before, n + 1, Len(wire_before))
  BY DEF G!IsRead
<1>2. /\ Len(got) \in Nat /\ Len(wire_before) \in Nat /\ n \in Nat
      /\ 0 <= n /\ n <= Len(wire_before) /\ Len(wire_before) <= Len(wire_before)
  BY <1>1, LenProperties
<1> DEFINE new == SubSeq(wire_before, 0 + 1, n)
<1>3. new \in Seq(Cell) /\ Len(new) = n - 0 /\ Holds(new, t, Len(got) + 0)
  BY <1>2, Cut
<1>4. /\ wire_after \in Seq(Cell) /\ Len(wire_after) = Len(wire_before) - n
      /\ Holds(wire_after, t, Len(got) + n)
  BY <1>1, <1>2, Cut
<1> HIDE DEF new
<1>5. Len(got) + 0 = Len(got) /\ Len(got) = 0 + Len(got) /\ Len(new) = n
  BY <1>2, <1>3
<1>6. got_after = got \o new
  BY <1>1 DEF new
<1>7. got_after \in Seq(Cell) /\ Len(got_after) = Len(got) + Len(new) /\ Holds(got_after, t, 0)
  <2>1. Joins(got, new, got_after, t, 0)
    BY <1>3, <1>5, <1>6 DEF Joins
  <2> QED
    BY <2>1, Joined
<1>8. /\ Len(got_after) = Len(got) + n
      /\ Len(got_after) + Len(wire_after) = Len(got) + Len(wire_before)
  BY <1>2, <1>4, <1>5, <1>7
<1> QED
  BY <1>1, <1>4, <1>7, <1>8

\* As much of a packet as has come is no more than its length says.
LEMMA Asked ==
  ASSUME NEW kind \in {"key", "right", "wrong"}, NEW size \in Nat, NEW got \in Seq(Cell),
         NEW t, NEW packet, packet = G!Packet(kind, size),
         Holds(packet, t, 0), Holds(got, t, 0), Len(got) <= Len(packet)
  PROVE  /\ G!Asks(got) \in Nat /\ G!Asks(got) <= Len(packet)
         /\ G!Whole(got) => Len(got) = Len(packet)
<1>1. /\ packet \in Seq(Cell) /\ Len(packet) = sizeof_len + size
      /\ \A i \in 1 .. sizeof_len : packet[i] = <<"len", size>>
  BY PacketFacts
<1>2. sizeof_len \in Nat \ {0} /\ Len(got) \in Nat
  BY LoginConstants, LenProperties
<1>3. ASSUME Len(got) >= sizeof_len
      PROVE  G!SizeOf(got) = sizeof_len + size
  <2>1. /\ sizeof_len \in 1 .. Len(got) /\ sizeof_len \in 1 .. Len(packet)
        /\ sizeof_len \in 1 .. sizeof_len /\ 0 + sizeof_len = sizeof_len
    BY <1>1, <1>2, <1>3
  <2>2. got[sizeof_len] = t[sizeof_len] /\ packet[sizeof_len] = t[sizeof_len]
    BY <2>1 DEF Holds
  <2>3. got[sizeof_len] = <<"len", size>>
    BY <1>1, <2>1, <2>2
  <2>4. got[sizeof_len][2] = size
    BY <2>3
  <2> QED
    BY <2>4 DEF G!SizeOf
<1> QED
  BY <1>1, <1>2, <1>3 DEF G!Asks, G!Whole

\* The cells that are on their way and where they have come to.
LoginTypes ==
  /\ down \in Seq(Cell) /\ up \in Seq(Cell) /\ rsa_key \in Seq(Cell)
  /\ enc_pass \in Seq(Cell) /\ heard \in Seq(Cell)
  /\ checker \in {"asks", "client", "closed"}
  /\ send_ptr \in 0 .. Len(G!Key) /\ pass_ptr \in 0 .. Len(G!Password)
  /\ ready \in BOOLEAN /\ overdue \in BOOLEAN /\ acc \in {FALSE, ready}
  /\ step \in {"in_connect", "get_rsa_key", "read_password", "send_password",
               "connected", "interactive", "exit"}
  /\ right \in BOOLEAN /\ length \in 0 .. pass_buff_size /\ pass_pos \in 0 .. length

\* The key goes down as it is.
KeyGoesDown ==
  /\ Holds(rsa_key, G!Key, 0) /\ Holds(down, G!Key, Len(rsa_key))
  /\ Len(rsa_key) + Len(down) = send_ptr

\* What the client has sent of its packet and, when that is out, its command goes up:
\* behind what was received as the packet is what was heard, and behind that the rest.
PasswordGoesUp ==
  /\ Holds(enc_pass, Told, 0) /\ Holds(heard, Told, Len(enc_pass))
  /\ Holds(up, Told, Len(enc_pass) + Len(heard))
  /\ Len(enc_pass) <= Len(G!Password)
  /\ \/ Len(enc_pass) + Len(heard) + Len(up) = pass_ptr
     \/ /\ Len(enc_pass) + Len(heard) + Len(up) = pass_ptr + 1
        /\ pass_ptr = Len(G!Password) /\ step \in {"interactive", "exit"}
  /\ step = "connected" => pass_ptr = Len(G!Password)

\* Who is heard had the password, and nothing is heard before.
HeardLast ==
  /\ acc => right /\ enc_pass = G!Password
  /\ checker = "client" => acc
  /\ checker = "asks" => heard = <<>>
  /\ heard # <<>> => enc_pass = G!Password

LoginInv == LoginTypes /\ KeyGoesDown /\ PasswordGoesUp /\ HeardLast

LEMMA KeyFacts ==
  /\ G!Key = G!Packet("key", key_size) /\ G!Key \in Seq(Cell)
  /\ Len(G!Key) = sizeof_len + key_size /\ Holds(G!Key, G!Key, 0)
<1>1. /\ G!Key \in Seq(Cell) /\ Len(G!Key) = sizeof_len + key_size
      /\ G!Key = G!Packet("key", key_size)
  BY LoginConstants, PacketFacts DEF G!Key
<1>2. Len(G!Key) \in Nat
  BY <1>1, LoginConstants
<1> QED
  BY <1>1, <1>2 DEF Holds

LEMMA PasswordFacts ==
  ASSUME right \in BOOLEAN
  PROVE  /\ \E kind \in {"key", "right", "wrong"} : G!Password = G!Packet(kind, rsa_size)
         /\ G!Password \in Seq(Cell) /\ Len(G!Password) = sizeof_len + rsa_size
         /\ Len(G!Password) \in Nat /\ sizeof_len <= Len(G!Password)
         /\ Holds(G!Password, Told, 0)
<1>1. /\ G!Password \in Seq(Cell) /\ Len(G!Password) = sizeof_len + rsa_size
      /\ \A i \in 1 .. Len(G!Password) : Told[i] = G!Password[i]
  BY ToldFacts
<1>2. G!Password = G!Packet(IF right THEN "right" ELSE "wrong", rsa_size)
  BY DEF G!Password
<1>3. Len(G!Password) \in Nat /\ sizeof_len <= Len(G!Password)
  BY <1>1, LoginConstants
<1> QED
  BY <1>1, <1>2, <1>3 DEF Holds

LEMMA LoginInit == G!Init => LoginInv
<1> SUFFICES ASSUME G!Init
             PROVE  LoginInv
  OBVIOUS
<1>1. /\ down = <<>> /\ up = <<>> /\ rsa_key = <<>> /\ enc_pass = <<>> /\ heard = <<>>
      /\ checker = "asks" /\ send_ptr = 0 /\ ready = FALSE /\ acc = FALSE /\ overdue = FALSE
      /\ step = "in_connect" /\ right \in BOOLEAN /\ length \in 0 .. pass_buff_size
      /\ pass_pos = 0 /\ pass_ptr = 0
  BY DEF G!Init
<1>2. Len(G!Key) \in Nat /\ Len(G!Password) \in Nat
  BY <1>1, KeyFacts, PasswordFacts, LoginConstants
<1>3. LoginTypes
  <2>1. <<>> \in Seq(Cell) /\ 0 \in 0 .. Len(G!Key) /\ 0 \in 0 .. Len(G!Password)
    BY <1>2
  <2>2. 0 \in 0 .. length
    BY <1>1, LoginConstants
  <2> QED
    BY <1>1, <2>1, <2>2 DEF LoginTypes
<1>4. KeyGoesDown /\ PasswordGoesUp /\ HeardLast
  BY <1>1, <1>2 DEF KeyGoesDown, PasswordGoesUp, HeardLast, Holds
<1> QED
  BY <1>3, <1>4 DEF LoginInv

\* What is received as the password is the packet, when all of it has come.
LEMMA WholePassword ==
  ASSUME right \in BOOLEAN, NEW got \in Seq(Cell), Holds(got, Told, 0),
         Len(got) <= Len(G!Password), G!Whole(got)
  PROVE  got = G!Password /\ (G!check_pass(got) => right)
<1>1. PICK kind \in {"key", "right", "wrong"} : G!Password = G!Packet(kind, rsa_size)
  BY PasswordFacts
<1>2. Len(got) = Len(G!Password)
  BY <1>1, PasswordFacts, LoginConstants, Asked
<1>3. \A i \in 1 .. Len(G!Password) : got[i] = G!Password[i]
  <2>1. ASSUME NEW i \in 1 .. Len(G!Password)
        PROVE  got[i] = G!Password[i]
    <3>1. 0 + i = i
      OBVIOUS
    <3> QED
      BY <1>2, <3>1, PasswordFacts DEF Holds
  <2> QED
    BY <2>1
<1>4. got = G!Password
  BY <1>2, <1>3, PasswordFacts, SeqEqual
<1>5. ASSUME G!check_pass(got)
      PROVE  right
  <2>1. SubSeq(got, sizeof_len + 1, Len(got)) = [i \in 1 .. rsa_size |-> <<"right", i>>]
    BY <1>5 DEF G!check_pass
  <2>2. /\ Len(got) = sizeof_len + rsa_size /\ sizeof_len \in Nat /\ rsa_size \in Nat
        /\ 1 \in 1 .. rsa_size
    BY <1>2, PasswordFacts, LoginConstants
  <2>3. SubSeq(got, sizeof_len + 1, Len(got))[1] = got[sizeof_len + 1]
    BY <2>2
  <2>4. got[sizeof_len + 1] = <<"right", 1>>
    BY <2>1, <2>2, <2>3
  <2>5. got[sizeof_len + 1] = <<IF right THEN "right" ELSE "wrong", 1>>
    BY <1>4, ToldFacts
  <2> QED
    BY <2>4, <2>5
<1> QED
  BY <1>4, <1>5

(***************************************************************************)
(* The steps with a part of a packet.                                      *)
(***************************************************************************)
LEMMA SendKeyStep ==
  ASSUME LoginInv, G!SendKey
  PROVE  /\ down' \in Seq(Cell) /\ send_ptr' \in 0 .. Len(G!Key)
         /\ Holds(down', G!Key, Len(rsa_key)) /\ Len(rsa_key) + Len(down') = send_ptr'
<1>1. /\ down \in Seq(Cell) /\ rsa_key \in Seq(Cell) /\ send_ptr \in 0 .. Len(G!Key)
      /\ Holds(down, G!Key, Len(rsa_key)) /\ Len(rsa_key) + Len(down) = send_ptr
      /\ G!IsWritten(G!Key, send_ptr, down, send_ptr', down')
  BY DEF LoginInv, LoginTypes, KeyGoesDown, G!SendKey
<1>2. /\ sizeof_len <= Len(G!Key) /\ Len(rsa_key) \in Nat
      /\ G!Key \in Seq(Cell) /\ Holds(G!Key, G!Key, 0)
  BY <1>1, KeyFacts, LoginConstants, LenProperties
<1> QED
  BY <1>1, <1>2, Written

LEMMA ReadKeyStep ==
  ASSUME LoginInv, G!ReadKey
  PROVE  /\ rsa_key' \in Seq(Cell) /\ down' \in Seq(Cell)
         /\ Holds(rsa_key', G!Key, 0) /\ Holds(down', G!Key, Len(rsa_key'))
         /\ Len(rsa_key') + Len(down') = send_ptr
<1>1. /\ down \in Seq(Cell) /\ rsa_key \in Seq(Cell)
      /\ Holds(rsa_key, G!Key, 0) /\ Holds(down, G!Key, Len(rsa_key))
      /\ Len(rsa_key) + Len(down) = send_ptr
      /\ G!IsRead(rsa_key, down, rsa_key', down')
  BY DEF LoginInv, LoginTypes, KeyGoesDown, G!ReadKey
<1> QED
  BY <1>1, ReadBehind

LEMMA SendPasswordStep ==
  ASSUME LoginInv, G!SendPassword
  PROVE  /\ up' \in Seq(Cell) /\ pass_ptr' \in 0 .. Len(G!Password)
         /\ Holds(up', Told, Len(enc_pass) + Len(heard))
         /\ Len(enc_pass) + Len(heard) + Len(up') = pass_ptr'
<1>1. /\ up \in Seq(Cell) /\ enc_pass \in Seq(Cell) /\ heard \in Seq(Cell)
      /\ pass_ptr \in 0 .. Len(G!Password) /\ right \in BOOLEAN
      /\ Holds(up, Told, Len(enc_pass) + Len(heard))
      /\ Len(enc_pass) + Len(heard) + Len(up) = pass_ptr
      /\ G!IsWritten(G!Password, pass_ptr, up, pass_ptr', up')
  BY DEF LoginInv, LoginTypes, PasswordGoesUp, G!SendPassword
<1>2. Len(enc_pass) \in Nat /\ Len(heard) \in Nat
  BY <1>1, LenProperties
<1> DEFINE at == Len(enc_pass) + Len(heard)
<1>3. at \in Nat /\ Holds(up, Told, at) /\ at + Len(up) = pass_ptr
  BY <1>1, <1>2
<1> HIDE DEF at
<1>4. /\ pass_ptr' \in 0 .. Len(G!Password) /\ up' \in Seq(Cell)
      /\ Holds(up', Told, at) /\ at + Len(up') = pass_ptr'
  BY <1>1, <1>3, PasswordFacts, Written
<1> QED
  BY <1>4 DEF at

LEMMA ReadPasswordStep ==
  ASSUME LoginInv, G!ReadPassword
  PROVE  /\ enc_pass' \in Seq(Cell) /\ up' \in Seq(Cell) /\ heard = <<>>
         /\ Holds(enc_pass', Told, 0) /\ Holds(up', Told, Len(enc_pass'))
         /\ Len(enc_pass') + Len(up') = Len(enc_pass) + Len(up)
         /\ Len(enc_pass') <= Len(G!Password)
         /\ ready' \in BOOLEAN /\ acc' \in {FALSE, ready'}
         /\ acc' => right /\ enc_pass' = G!Password
<1>1. /\ up \in Seq(Cell) /\ enc_pass \in Seq(Cell) /\ heard = <<>> /\ right \in BOOLEAN
      /\ Holds(enc_pass, Told, 0) /\ Holds(up, Told, Len(enc_pass) + Len(heard))
      /\ Len(enc_pass) <= Len(G!Password)
      /\ G!IsRead(enc_pass, up, enc_pass', up')
      /\ ready' = (G!TooBig(enc_pass') \/ G!Whole(enc_pass'))
      /\ acc' = (G!Whole(enc_pass') /\ G!check_pass(enc_pass'))
  BY DEF LoginInv, LoginTypes, PasswordGoesUp, HeardLast, G!ReadPassword
<1>2. Len(heard) = 0 /\ Len(enc_pass) \in Nat
  BY <1>1, LenProperties
<1>3. Len(enc_pass) + Len(heard) = Len(enc_pass)
  BY <1>2
<1>4. Holds(up, Told, Len(enc_pass))
  BY <1>1, <1>3
<1>5. /\ enc_pass' \in Seq(Cell) /\ up' \in Seq(Cell)
      /\ Holds(enc_pass', Told, 0) /\ Holds(up', Told, Len(enc_pass'))
      /\ Len(enc_pass') + Len(up') = Len(enc_pass) + Len(up)
      /\ Len(enc_pass') <= G!Asks(enc_pass)
  BY <1>1, <1>4, ReadBehind
<1>6. Len(enc_pass') <= Len(G!Password)
  <2>1. PICK kind \in {"key", "right", "wrong"} : G!Password = G!Packet(kind, rsa_size)
    BY <1>1, PasswordFacts
  <2>2. rsa_size \in Nat /\ Holds(G!Password, Told, 0)
    BY <1>1, PasswordFacts, LoginConstants
  <2>3. G!Asks(enc_pass) \in Nat /\ G!Asks(enc_pass) <= Len(G!Password)
    BY <1>1, <2>1, <2>2, Asked
  <2>4. Len(enc_pass') \in Nat /\ Len(G!Password) \in Nat
    BY <1>1, <1>5, PasswordFacts, LenProperties
  <2> QED
    BY <1>5, <2>3, <2>4
<1>7. G!Whole(enc_pass') /\ G!check_pass(enc_pass') => right /\ enc_pass' = G!Password
  BY <1>1, <1>5, <1>6, WholePassword
<1>8. ready' \in BOOLEAN /\ acc' \in {FALSE, ready'}
  <2>1. G!Whole(enc_pass') \in BOOLEAN /\ G!TooBig(enc_pass') \in BOOLEAN
    BY DEF G!Whole, G!TooBig
  <2> QED
    BY <1>1, <2>1
<1> QED
  BY <1>1, <1>5, <1>6, <1>7, <1>8

\* What the packet and the command are does not change.
LEMMA ToldStays ==
  ASSUME right' = right
  PROVE  G!Password' = G!Password /\ Told' = Told /\ G!Key' = G!Key
<1>1. G!Password' = G!Password /\ G!Key' = G!Key /\ G!send_info' = G!send_info
  BY DEF G!Password, G!Key, G!Packet, G!send_info
<1> QED
  BY <1>1 DEF Told

LEMMA ServeClientStep ==
  ASSUME LoginInv, G!ServeClient
  PROVE  /\ heard' \in Seq(Cell) /\ up' = <<>> /\ Len(heard') = Len(heard) + Len(up)
         /\ Holds(heard', Told, Len(enc_pass))
<1>1. /\ heard \in Seq(Cell) /\ up \in Seq(Cell) /\ enc_pass \in Seq(Cell)
      /\ Holds(heard, Told, Len(enc_pass)) /\ Holds(up, Told, Len(enc_pass) + Len(heard))
      /\ heard' = heard \o up /\ up' = <<>>
  BY DEF LoginInv, LoginTypes, PasswordGoesUp, G!ServeClient
<1>2. Len(enc_pass) \in Nat
  BY <1>1, LenProperties
<1>3. Joins(heard, up, heard', Told, Len(enc_pass))
  BY <1>1, <1>2 DEF Joins
<1> QED
  BY <1>1, <1>3, Joined

LEMMA InteractiveStep ==
  ASSUME LoginInv, G!Interactive
  PROVE  /\ up' \in Seq(Cell) /\ Len(up') = Len(up) + 1
         /\ Holds(up', Told, Len(enc_pass) + Len(heard))
         /\ Len(enc_pass) + Len(heard) + Len(up) = pass_ptr
         /\ pass_ptr = Len(G!Password)
<1>1. /\ heard \in Seq(Cell) /\ up \in Seq(Cell) /\ enc_pass \in Seq(Cell)
      /\ Holds(up, Told, Len(enc_pass) + Len(heard))
      /\ right \in BOOLEAN /\ step = "connected"
      /\ pass_ptr = Len(G!Password)
      /\ Len(enc_pass) + Len(heard) + Len(up) = pass_ptr
      /\ up' = Append(up, G!send_info)
  BY DEF LoginInv, LoginTypes, PasswordGoesUp, G!Interactive
<1>2. Len(enc_pass) \in Nat /\ Len(heard) \in Nat /\ Len(up) \in Nat
  BY <1>1, LenProperties
<1> DEFINE at == Len(enc_pass) + Len(heard)
           c == G!send_info
<1>3. at \in Nat /\ Holds(up, Told, at) /\ at + Len(up) = pass_ptr
  BY <1>1, <1>2
<1>4. c \in Cell /\ Told[pass_ptr + 1] = c
  BY <1>1, ToldFacts DEF Cell, G!send_info
<1>5. up' = Append(up, c)
  BY <1>1
<1> HIDE DEF at, c
<1>6. /\ up' \in Seq(Cell) /\ Len(up') = Len(up) + 1
      /\ \A i \in 1 .. Len(up) : up'[i] = up[i]
      /\ up'[Len(up) + 1] = c
  BY <1>1, <1>4, <1>5
<1>7. ASSUME NEW i \in 1 .. Len(up')
      PROVE  up'[i] = Told[at + i]
  <2>1. CASE i \in 1 .. Len(up)
    BY <1>3, <1>6, <2>1 DEF Holds
  <2>2. CASE i = Len(up) + 1
    <3>1. at + i = pass_ptr + 1
      BY <1>2, <1>3, <2>2
    <3> QED
      BY <1>4, <1>6, <2>2, <3>1
  <2> QED
    BY <1>2, <1>6, <2>1, <2>2
<1>8. Holds(up', Told, at)
  BY <1>7 DEF Holds
<1> QED
  BY <1>1, <1>6, <1>8 DEF at

(***************************************************************************)
(* Every step of a login.                                                  *)
(***************************************************************************)
LEMMA KeyStays ==
  ASSUME LoginInv, UNCHANGED <<down, rsa_key, send_ptr>>
  PROVE  KeyGoesDown'
<1>1. G!Key' = G!Key
  BY DEF G!Key, G!Packet
<1> QED
  BY <1>1 DEF LoginInv, KeyGoesDown, Holds

LEMMA PasswordStays ==
  ASSUME LoginInv, UNCHANGED <<up, enc_pass, heard, pass_ptr, right>>,
         step' # "connected", step \in {"interactive", "exit"} => step' = "exit"
  PROVE  PasswordGoesUp'
<1>1. Told' = Told /\ G!Password' = G!Password
  BY ToldStays
<1> QED
  BY <1>1 DEF LoginInv, PasswordGoesUp, Holds

\* What a step of the server's leaves of the rest.
LEMMA ServerStep ==
  ASSUME LoginInv, G!Serves \/ G!MinuteOver
  PROVE  LoginInv'
<1>0. LoginTypes /\ KeyGoesDown /\ PasswordGoesUp /\ HeardLast
  BY DEF LoginInv
<1>1. UNCHANGED <<step, rsa_key, pass_pos, pass_ptr, right, length>>
  BY DEF G!Serves, G!SendKey, G!ReadPassword, G!MinuteOver, G!CheckReady, G!NoticeGone,
         G!ServeClient, G!client
<1>2. Told' = Told /\ G!Password' = G!Password /\ G!Key' = G!Key
  BY <1>1, ToldStays
<1>3. CASE G!SendKey
  <2>1. UNCHANGED <<up, checker, enc_pass, ready, acc, overdue, heard>>
    BY <1>3 DEF G!SendKey
  <2>2. /\ down' \in Seq(Cell) /\ send_ptr' \in 0 .. Len(G!Key)
        /\ Holds(down', G!Key, Len(rsa_key)) /\ Len(rsa_key) + Len(down') = send_ptr'
    BY <1>3, SendKeyStep
  <2>3. LoginTypes'
    BY <1>0, <1>1, <1>2, <2>1, <2>2 DEF LoginTypes
  <2>4. KeyGoesDown'
    BY <1>0, <1>1, <1>2, <2>2 DEF KeyGoesDown, Holds
  <2>5. PasswordGoesUp' /\ HeardLast'
    BY <1>0, <1>1, <1>2, <2>1 DEF PasswordGoesUp, HeardLast, Holds
  <2> QED
    BY <2>3, <2>4, <2>5 DEF LoginInv
<1>4. CASE G!ReadPassword
  <2>1. UNCHANGED <<down, checker, send_ptr, overdue, heard>> /\ checker = "asks" /\ ~ready
    BY <1>4 DEF G!ReadPassword
  <2>2. /\ enc_pass' \in Seq(Cell) /\ up' \in Seq(Cell) /\ heard = <<>>
        /\ Holds(enc_pass', Told, 0) /\ Holds(up', Told, Len(enc_pass'))
        /\ Len(enc_pass') + Len(up') = Len(enc_pass) + Len(up)
        /\ Len(enc_pass') <= Len(G!Password)
        /\ ready' \in BOOLEAN /\ acc' \in {FALSE, ready'}
        /\ acc' => right /\ enc_pass' = G!Password
    BY <1>4, ReadPasswordStep
  <2>3. LoginTypes'
    BY <1>0, <1>1, <1>2, <2>1, <2>2 DEF LoginTypes
  <2>4. KeyGoesDown'
    BY <1>1, <2>1, KeyStays
  <2>5. PasswordGoesUp'
    <3>1. /\ Len(heard) = 0 /\ Len(enc_pass) \in Nat /\ Len(enc_pass') \in Nat
          /\ Len(up) \in Nat /\ Len(up') \in Nat
      BY <1>0, <2>2, LenProperties DEF LoginTypes
    <3>2. /\ Len(enc_pass') + Len(heard) = Len(enc_pass')
          /\ Len(enc_pass') + Len(heard) + Len(up') = Len(enc_pass) + Len(heard) + Len(up)
      BY <2>2, <3>1
    <3>3. Holds(heard, Told, Len(enc_pass'))
      BY <3>1 DEF Holds
    <3>4. Holds(up', Told, Len(enc_pass') + Len(heard))
      BY <2>2, <3>2
    <3> QED
      BY <1>0, <1>1, <1>2, <2>1, <2>2, <3>2, <3>3, <3>4 DEF PasswordGoesUp, Holds
  <2>6. HeardLast'
    BY <1>0, <1>1, <1>2, <2>1, <2>2 DEF HeardLast, LoginTypes
  <2> QED
    BY <2>3, <2>4, <2>5, <2>6 DEF LoginInv
<1>5. CASE G!MinuteOver \/ G!CheckReady \/ G!NoticeGone
  <2>1. /\ UNCHANGED <<down, up, send_ptr, enc_pass, ready, acc, heard>>
        /\ \/ overdue' = TRUE /\ checker' = checker
           \/ /\ checker = "asks" /\ checker' = IF acc THEN "client" ELSE "closed"
              /\ overdue' = overdue
           \/ checker' = "closed" /\ overdue' = overdue
    BY <1>5 DEF G!MinuteOver, G!CheckReady, G!NoticeGone
  <2>2. LoginTypes'
    BY <1>0, <1>1, <1>2, <2>1 DEF LoginTypes
  <2>3. KeyGoesDown'
    BY <1>1, <2>1, KeyStays
  <2>4. PasswordGoesUp' /\ HeardLast'
    BY <1>0, <1>1, <1>2, <2>1 DEF PasswordGoesUp, HeardLast, Holds
  <2> QED
    BY <2>2, <2>3, <2>4 DEF LoginInv
<1>6. CASE G!ServeClient
  <2>1. UNCHANGED <<down, checker, send_ptr, enc_pass, ready, acc, overdue>> /\ checker = "client"
    BY <1>6 DEF G!ServeClient
  <2>2. /\ heard' \in Seq(Cell) /\ up' = <<>> /\ Len(heard') = Len(heard) + Len(up)
        /\ Holds(heard', Told, Len(enc_pass))
    BY <1>6, ServeClientStep
  <2>3. LoginTypes'
    <3>1. up' \in Seq(Cell)
      BY <2>2
    <3> QED
      BY <1>0, <1>1, <1>2, <2>1, <2>2, <3>1 DEF LoginTypes
  <2>4. KeyGoesDown'
    BY <1>1, <2>1, KeyStays
  <2>5. PasswordGoesUp'
    <3>1. /\ Len(up') = 0 /\ Len(enc_pass) \in Nat /\ Len(heard) \in Nat
          /\ Len(heard') \in Nat /\ Len(up) \in Nat
      BY <1>0, <2>2, LenProperties DEF LoginTypes
    <3>2. Len(enc_pass) + Len(heard') + Len(up') = Len(enc_pass) + Len(heard) + Len(up)
      BY <2>2, <3>1
    <3>3. Holds(up', Told, Len(enc_pass) + Len(heard'))
      BY <3>1 DEF Holds
    <3> QED
      BY <1>0, <1>1, <1>2, <2>1, <2>2, <3>2, <3>3 DEF PasswordGoesUp, Holds
  <2>6. HeardLast'
    BY <1>0, <1>1, <1>2, <2>1, <2>2 DEF HeardLast
  <2> QED
    BY <2>3, <2>4, <2>5, <2>6 DEF LoginInv
<1> QED
  BY <1>3, <1>4, <1>5, <1>6 DEF G!Serves

\* What a step of the client's leaves of the rest.
LEMMA ClientStep ==
  ASSUME LoginInv, G!Enters
  PROVE  LoginInv'
<1>0. LoginTypes /\ KeyGoesDown /\ PasswordGoesUp /\ HeardLast
  BY DEF LoginInv
<1>1. UNCHANGED <<checker, send_ptr, enc_pass, ready, acc, overdue, heard, right, length>>
  BY DEF G!Enters, G!connect, G!ReadKey, G!TypePassword, G!SendPassword, G!Interactive,
         G!HangUp, G!server
<1>2. Told' = Told /\ G!Password' = G!Password /\ G!Key' = G!Key
  BY <1>1, ToldStays
<1>3. HeardLast'
  BY <1>0, <1>1, <1>2 DEF HeardLast
<1>4. CASE G!connect \/ G!TypePassword \/ G!HangUp
  <2>1. /\ UNCHANGED <<down, up, rsa_key, pass_ptr>>
        /\ step' # "connected" /\ (step \in {"interactive", "exit"} => step' = "exit")
    BY <1>0, <1>4 DEF G!connect, G!TypePassword, G!HangUp, LoginTypes
  <2>2. /\ step' \in {"in_connect", "get_rsa_key", "read_password", "send_password",
                      "connected", "interactive", "exit"}
        /\ pass_pos' \in 0 .. length
    BY <1>0, <1>4, LoginConstants DEF G!connect, G!TypePassword, G!HangUp, LoginTypes
  <2>3. LoginTypes'
    BY <1>0, <1>1, <1>2, <2>1, <2>2 DEF LoginTypes
  <2>4. KeyGoesDown' /\ PasswordGoesUp'
    BY <1>1, <2>1, KeyStays, PasswordStays
  <2> QED
    BY <1>3, <2>3, <2>4 DEF LoginInv
<1>5. CASE G!ReadKey
  <2>1. /\ UNCHANGED <<up, pass_pos, pass_ptr>> /\ step = "get_rsa_key"
        /\ step' \in {"get_rsa_key", "read_password"}
    BY <1>5 DEF G!ReadKey
  <2>2. /\ rsa_key' \in Seq(Cell) /\ down' \in Seq(Cell)
        /\ Holds(rsa_key', G!Key, 0) /\ Holds(down', G!Key, Len(rsa_key'))
        /\ Len(rsa_key') + Len(down') = send_ptr
    BY <1>5, ReadKeyStep
  <2>3. LoginTypes'
    BY <1>0, <1>1, <1>2, <2>1, <2>2 DEF LoginTypes
  <2>4. KeyGoesDown'
    BY <1>1, <1>2, <2>2 DEF KeyGoesDown, Holds
  <2>5. PasswordGoesUp'
    BY <1>1, <2>1, PasswordStays
  <2> QED
    BY <1>3, <2>3, <2>4, <2>5 DEF LoginInv
<1>6. CASE G!SendPassword
  <2>1. /\ UNCHANGED <<down, rsa_key, pass_pos>> /\ step = "send_password"
        /\ step' = IF pass_ptr' = Len(G!Password) THEN "connected" ELSE step
    BY <1>6 DEF G!SendPassword
  <2>2. /\ up' \in Seq(Cell) /\ pass_ptr' \in 0 .. Len(G!Password)
        /\ Holds(up', Told, Len(enc_pass) + Len(heard))
        /\ Len(enc_pass) + Len(heard) + Len(up') = pass_ptr'
    BY <1>6, SendPasswordStep
  <2>3. LoginTypes'
    BY <1>0, <1>1, <1>2, <2>1, <2>2 DEF LoginTypes
  <2>4. KeyGoesDown'
    BY <1>1, <2>1, KeyStays
  <2>5. PasswordGoesUp'
    BY <1>0, <1>1, <1>2, <2>1, <2>2 DEF PasswordGoesUp, Holds
  <2> QED
    BY <1>3, <2>3, <2>4, <2>5 DEF LoginInv
<1>7. CASE G!Interactive
  <2>1. UNCHANGED <<down, rsa_key, pass_pos, pass_ptr>> /\ step' = "interactive"
    BY <1>7 DEF G!Interactive
  <2>2. /\ up' \in Seq(Cell) /\ Len(up') = Len(up) + 1
        /\ Holds(up', Told, Len(enc_pass) + Len(heard))
        /\ Len(enc_pass) + Len(heard) + Len(up) = pass_ptr
        /\ pass_ptr = Len(G!Password)
    BY <1>7, InteractiveStep
  <2>3. LoginTypes'
    BY <1>0, <1>1, <1>2, <2>1, <2>2 DEF LoginTypes
  <2>4. KeyGoesDown'
    BY <1>1, <2>1, KeyStays
  <2>5. PasswordGoesUp'
    <3>1. /\ Len(enc_pass) \in Nat /\ Len(heard) \in Nat /\ Len(up) \in Nat
      BY <1>0, LenProperties DEF LoginTypes
    <3>2. Len(enc_pass) + Len(heard) + Len(up') = pass_ptr + 1
      BY <2>2, <3>1
    <3> QED
      BY <1>0, <1>1, <1>2, <2>1, <2>2, <3>2 DEF PasswordGoesUp, Holds
  <2> QED
    BY <1>3, <2>3, <2>4, <2>5 DEF LoginInv
<1> QED
  BY <1>4, <1>5, <1>6, <1>7 DEF G!Enters

LEMMA LoginStep ==
  ASSUME LoginInv, [G!Next]_login
  PROVE  LoginInv'
<1>1. CASE G!Next
  BY <1>1, ServerStep, ClientStep DEF G!Next
<1>2. CASE UNCHANGED login
  <2>1. /\ UNCHANGED <<down, up, checker, send_ptr, enc_pass, ready, acc, overdue, heard>>
        /\ UNCHANGED <<step, rsa_key, right, length, pass_pos, pass_ptr>>
    BY <1>2 DEF login
  <2>2. Told' = Told /\ G!Password' = G!Password /\ G!Key' = G!Key
    BY <2>1, ToldStays
  <2> QED
    BY <2>1, <2>2, ZenonT(60) DEF LoginInv, LoginTypes, KeyGoesDown, PasswordGoesUp, HeardLast, Holds
<1> QED
  BY <1>1, <1>2

\* Nothing is heard but the command.
LEMMA LoginAdmits == LoginInv => G!AdmittedByPassword
<1> SUFFICES ASSUME LoginInv
             PROVE  G!AdmittedByPassword
  OBVIOUS
<1>0. LoginTypes /\ PasswordGoesUp /\ HeardLast
  BY DEF LoginInv
<1>1. /\ Len(enc_pass) \in Nat /\ Len(heard) \in Nat /\ Len(up) \in Nat
      /\ Len(G!Password) \in Nat /\ heard \in Seq(Cell)
  BY <1>0, PasswordFacts, LenProperties DEF LoginTypes
<1>2. checker = "client" => right /\ enc_pass = G!Password
  BY <1>0 DEF HeardLast
<1>3. CASE heard = <<>>
  BY <1>2, <1>3 DEF G!AdmittedByPassword
<1>4. CASE heard # <<>>
  <2>1. Len(enc_pass) = Len(G!Password)
    BY <1>0, <1>4 DEF HeardLast
  <2>2. Len(enc_pass) + Len(heard) + Len(up) <= Len(G!Password) + 1
    BY <1>0, <1>1 DEF LoginTypes, PasswordGoesUp
  <2>3. Len(heard) # 0
    <3>1. heard \in Seq(Cell) /\ heard # <<>>
      BY <1>1, <1>4
    <3>2. Len(heard) \in Nat \ {0}
      BY <3>1, EmptySeq, Zenon
    <3> QED
      BY <3>2
  <2>4. Len(heard) = 1
    <3> DEFINE p == Len(G!Password)
               h == Len(heard)
               u == Len(up)
    <3>1. p \in Nat /\ h \in Nat /\ u \in Nat /\ h # 0 /\ p + h + u <= p + 1
      BY <1>1, <2>1, <2>2, <2>3
    <3> HIDE DEF p, h, u
    <3>2. h = 1
      BY <3>1
    <3> QED
      BY <3>2 DEF h
  <2>5. heard[1] = Told[Len(G!Password) + 1]
    BY <1>0, <2>1, <2>4 DEF PasswordGoesUp, Holds
  <2>6. heard[1] = G!send_info
    BY <1>0, <2>5, ToldFacts DEF LoginTypes
  <2>7. heard = <<G!send_info>>
    BY <1>1, <2>4, <2>6
  <2> QED
    BY <1>2, <2>7 DEF G!AdmittedByPassword
<1> QED
  BY <1>3, <1>4

(***************************************************************************)
(* Both halves of who is admitted.                                         *)
(***************************************************************************)
LEMMA AnyStart == AnyInit => IInv /\ LoginInv
<1> SUFFICES ASSUME AnyInit
             PROVE  IInv /\ LoginInv
  OBVIOUS
<1>1. Init /\ G!Init
  BY DEF AnyInit
<1> QED
  BY <1>1, InvInit, LoginInit

LEMMA AnyStep ==
  ASSUME IInv, LoginInv, [AnyNext]_all
  PROVE  IInv' /\ LoginInv'
<1>1. CASE UNCHANGED <<vars, login>>
  BY <1>1, InvStep, LoginStep
<1>2. CASE Next /\ UNCHANGED login
  BY <1>2, InvStep, LoginStep
<1>3. CASE G!Next /\ UNCHANGED vars
  BY <1>3, InvStep, LoginStep
<1>4. \/ UNCHANGED <<vars, login>>
      \/ Next /\ UNCHANGED login
      \/ G!Next /\ UNCHANGED vars
  BY DEF AnyNext, all
<1> QED
  BY <1>1, <1>2, <1>3, <1>4

\* Whoever is heard is on the local socket or had the password (process_auth and
\* pass_checker), and what is heard of a client that comes over TCP is the command
\* that it sent behind its packet: for all lengths of the packets, in whatever pieces
\* they are sent and received.
THEOREM AlwaysOnlyAdmitted == AnySpec => []OnlyAdmitted
<1>1. IInv /\ LoginInv => OnlyAdmitted
  BY LoginAdmits DEF IInv, Passed, OnlyAdmitted
<1>2. AnyInit => IInv /\ LoginInv
  BY AnyStart
<1>3. (IInv /\ LoginInv) /\ [AnyNext]_all => (IInv /\ LoginInv)'
  BY AnyStep
<1> QED
  BY <1>1, <1>2, <1>3, PTL DEF AnySpec

----------------------------------------------------------------------------
(***************************************************************************)
(* Sequences, whatever they are of.                                        *)
(***************************************************************************)
\* What is so at a, and goes on from each number to the next, is so up to b.
LEMMA Upwards ==
  ASSUME NEW a \in Nat, NEW b \in Nat, NEW T, a \in T,
         \A i \in a .. b - 1 : i \in T => i + 1 \in T
  PROVE  a .. b \subseteq T
<1> DEFINE Bad == (a .. b) \ T
<1> SUFFICES ASSUME Bad # {}
             PROVE  FALSE
  OBVIOUS
<1>1. Bad \in SUBSET Nat
  OBVIOUS
<1> HIDE DEF Bad
<1>2. PICK m \in Bad : \A n \in Bad : <<n, m>> \notin OpToRel(<, Nat)
  BY <1>1, NatLessThanWellFounded, WFMin
<1>3. m \in a .. b /\ m \notin T
  BY DEF Bad
<1>4. m # a
  BY <1>3
<1>5. m - 1 \in a .. b - 1 /\ (m - 1) + 1 = m /\ m - 1 \in a .. b
  BY <1>3, <1>4
<1>6. m - 1 \notin Bad
  <2> SUFFICES ASSUME m - 1 \in Bad
               PROVE  FALSE
    OBVIOUS
  <2>1. ~(m - 1 < m)
    BY <1>1, <1>2 DEF OpToRel
  <2> QED
    BY <1>3, <2>1
<1>7. m - 1 \in T
  BY <1>5, <1>6 DEF Bad
<1>8. m \in T
  <2>1. (m - 1) + 1 \in T
    BY <1>5, <1>7
  <2> QED
    BY <1>5, <2>1
<1> QED
  BY <1>3, <1>8

\* Sequences one behind the other, however they are grouped.
AreSequences(S, s, t, u) == s \in Seq(S) /\ t \in Seq(S) /\ u \in Seq(S)

LEMMA Grouped ==
  ASSUME NEW S, NEW s, NEW t, NEW u, AreSequences(S, s, t, u)
  PROVE  (s \o t) \o u = s \o (t \o u)
BY ConcatAssociative DEF AreSequences

\* Of u the first n go behind t.
LEMMA MovedOver ==
  ASSUME NEW S, NEW t \in Seq(S), NEW u \in Seq(S), NEW n \in 1 .. Len(u)
  PROVE  /\ t \o SubSeq(u, 1, n) \in Seq(S) /\ SubSeq(u, n + 1, Len(u)) \in Seq(S)
         /\ (t \o SubSeq(u, 1, n)) \o SubSeq(u, n + 1, Len(u)) = t \o u
<1> DEFINE a == SubSeq(u, 1, n)
           b == SubSeq(u, n + 1, Len(u))
<1>0. t \in Seq(S) /\ u \in Seq(S) /\ n \in 1 .. Len(u)
  OBVIOUS
<1>1. Len(u) \in Nat
  BY <1>0, LenProperties
<1>2. a \in Seq(S) /\ b \in Seq(S)
  BY <1>0, <1>1
<1>3. a \o b = u
  <2>1. 1 \in 1 .. Len(u) + 1 /\ n \in 1 - 1 .. Len(u) /\ Len(u) \in n .. Len(u)
    BY <1>0, <1>1
  <2>2. SubSeq(u, 1, n) \o SubSeq(u, n + 1, Len(u)) = SubSeq(u, 1, Len(u))
    BY <1>0, <2>1, ConcatAdjacentSubSeq
  <2>3. SubSeq(u, 1, Len(u)) = u
    BY <1>0, SubSeqFull
  <2> QED
    BY <2>2, <2>3
<1> HIDE DEF a, b
<1>4. (t \o a) \o b = t \o (a \o b) /\ t \o a \in Seq(S)
  <2>1. t \in Seq(S) /\ a \in Seq(S) /\ b \in Seq(S)
    BY <1>0, <1>2
  <2>2. t \o a \in Seq(S)
    BY <2>1, ConcatProperties
  <2>3. (t \o a) \o b = t \o (a \o b)
    <3>1. AreSequences(S, t, a, b)
      BY <2>1 DEF AreSequences
    <3> QED
      BY <3>1, Grouped
  <2> QED
    BY <2>2, <2>3
<1> QED
  BY <1>2, <1>3, <1>4 DEF a, b

\* Of two sequences that are the same as two others, what is behind the first of those.
SameWhole(S, s, rest, w, v) ==
  /\ s \in Seq(S) /\ rest \in Seq(S) /\ w \in Seq(S) /\ v \in Seq(S)
  /\ s \o rest = w \o v /\ Len(w) <= Len(s)

LEMMA SplitTheSame ==
  ASSUME NEW S, NEW s, NEW rest, NEW w, NEW v, SameWhole(S, s, rest, w, v)
  PROVE  /\ SubSeq(s, 1, Len(w)) = w
         /\ SubSeq(s, Len(w) + 1, Len(s)) \in Seq(S)
         /\ SubSeq(s, Len(w) + 1, Len(s)) \o rest = v
<1> DEFINE n == Len(w)
           a == SubSeq(s, 1, n)
           b == SubSeq(s, n + 1, Len(s))
<1>0. /\ s \in Seq(S) /\ rest \in Seq(S) /\ w \in Seq(S) /\ v \in Seq(S)
      /\ s \o rest = w \o v /\ Len(w) <= Len(s)
  BY DEF SameWhole
<1>1. Len(s) \in Nat /\ Len(rest) \in Nat /\ Len(w) \in Nat /\ n \in 0 .. Len(s)
  BY <1>0, LenProperties
<1>2. a \in Seq(S) /\ Len(a) = n /\ (\A i \in 1 .. n : a[i] = s[i]) /\ b \in Seq(S)
  BY <1>0, <1>1
<1>3. a \o b = s
  <2>1. 1 \in 1 .. Len(s) + 1 /\ n \in 1 - 1 .. Len(s) /\ Len(s) \in n .. Len(s)
    BY <1>1
  <2>2. SubSeq(s, 1, n) \o SubSeq(s, n + 1, Len(s)) = SubSeq(s, 1, Len(s))
    BY <1>0, <2>1, ConcatAdjacentSubSeq
  <2>3. SubSeq(s, 1, Len(s)) = s
    BY <1>0, SubSeqFull
  <2> QED
    BY <2>2, <2>3
<1> HIDE DEF a, b
<1>4. a = w
  <2>1. ASSUME NEW i \in 1 .. n
        PROVE  a[i] = w[i]
    <3>1. (s \o rest)[i] = s[i] /\ (w \o v)[i] = w[i]
      <4>1. i \in 1 .. Len(s) + Len(rest) /\ i <= Len(s)
        BY <1>1
      <4>2. Len(v) \in Nat
        BY <1>0, LenProperties
      <4>3. i \in 1 .. Len(w) + Len(v) /\ i <= Len(w)
        BY <1>1, <4>2
      <4>4. (s \o rest)[i] = s[i]
        BY <1>0, <4>1, ConcatProperties
      <4>5. (w \o v)[i] = w[i]
        BY <1>0, <4>3, ConcatProperties
      <4> QED
        BY <4>4, <4>5
    <3> QED
      BY <1>0, <1>2, <3>1
  <2> QED
    BY <1>0, <1>2, <2>1, SeqEqual
<1>5. w \o (b \o rest) = w \o v
  <2>1. (w \o b) \o rest = w \o (b \o rest)
    <3>1. w \in Seq(S) /\ b \in Seq(S) /\ rest \in Seq(S)
      BY <1>0, <1>2
    <3> QED
      BY <3>1, ConcatAssociative
  <2>2. w \o b = s
    BY <1>3, <1>4
  <2> QED
    BY <1>0, <2>1, <2>2, Zenon
<1>6. b \o rest = v
  <2>1. b \o rest \in Seq(S)
    BY <1>0, <1>2, ConcatProperties
  <2> QED
    BY <1>0, <1>5, <2>1, ConcatSimplifications
<1> QED
  BY <1>2, <1>4, <1>6 DEF a, b

\* What is in one of two sequences or in the other.
LEMMA SetOfJoined ==
  ASSUME NEW S, NEW s \in Seq(S), NEW t \in Seq(S)
  PROVE  C!ToSet(s \o t) = C!ToSet(s) \cup C!ToSet(t)
<1>1. Len(s) \in Nat /\ Len(t) \in Nat /\ DOMAIN s = 1 .. Len(s) /\ DOMAIN t = 1 .. Len(t)
  OBVIOUS
<1>2. /\ s \o t \in Seq(S) /\ Len(s \o t) = Len(s) + Len(t)
      /\ \A i \in 1 .. Len(s) + Len(t) : (s \o t)[i] = IF i <= Len(s) THEN s[i] ELSE t[i - Len(s)]
  BY ConcatProperties
<1> DEFINE u == s \o t
<1>3. DOMAIN u = 1 .. Len(s) + Len(t)
  BY <1>2
<1> HIDE DEF u
<1>4. ASSUME NEW i \in DOMAIN u
      PROVE  u[i] \in C!ToSet(s) \cup C!ToSet(t)
  <2>1. CASE i <= Len(s)
    BY <1>1, <1>2, <1>3, <2>1 DEF C!ToSet, u
  <2>2. CASE ~(i <= Len(s))
    <3>1. i - Len(s) \in DOMAIN t /\ u[i] = t[i - Len(s)]
      BY <1>1, <1>2, <1>3, <2>2 DEF u
    <3> QED
      BY <3>1 DEF C!ToSet
  <2> QED
    BY <2>1, <2>2
<1>5. ASSUME NEW i \in DOMAIN s
      PROVE  s[i] \in C!ToSet(u)
  <2>1. i \in DOMAIN u /\ u[i] = s[i]
    BY <1>1, <1>2, <1>3 DEF u
  <2> QED
    BY <2>1 DEF C!ToSet
<1>6. ASSUME NEW i \in DOMAIN t
      PROVE  t[i] \in C!ToSet(u)
  <2>1. Len(s) + i \in DOMAIN u /\ u[Len(s) + i] = t[i]
    <3>1. Len(s) + i \in 1 .. Len(s) + Len(t) /\ ~(Len(s) + i <= Len(s)) /\ (Len(s) + i) - Len(s) = i
      BY <1>1
    <3> QED
      BY <1>2, <1>3, <3>1 DEF u
  <2> QED
    BY <2>1 DEF C!ToSet
<1> QED
  BY <1>4, <1>5, <1>6 DEF C!ToSet, u

----------------------------------------------------------------------------
(***************************************************************************)
(* Frames.  A place is where a reader is that takes the bytes one by one:  *)
(* at pos of a part of size bytes, nr bytes of data behind it; mask and    *)
(* len are what it knows of the frame.                                     *)
(***************************************************************************)
Parts == {"header", "len_2", "len_8", "mask", "data"}

\* A byte of the line: what it is sent as, and two values of it.
FrameByte == Parts \X Nat \X Int

\* All places.
Place == [part : Parts, pos : Nat, size : Nat, mask : BOOLEAN, len : Nat, nr : Nat]

\* A place by its fields.
At(where, off, size, mask, len, nr) ==
  [part |-> where, pos |-> off, size |-> size, mask |-> mask, len |-> len, nr |-> nr]

\* Before a header, nr bytes of data behind it.
Begin(nr) == At("header", 0, header_size, FALSE, 0, nr)

\* Before the data; a frame without data is over there.
InData(size, mask, nr) ==
  IF size = 0 THEN Begin(nr) ELSE At("data", 0, size, mask, 0, nr)

\* Behind the size: before the mask, if there is one, or the data.
Sized(size, mask, nr) ==
  IF mask THEN At("mask", 0, mask_size, TRUE, size, nr) ELSE InData(size, FALSE, nr)

\* Behind n bytes of the same part.
Inside(p, n) ==
  At(p.part, p.pos + n, p.size, p.mask, p.len, IF p.part = "data" THEN p.nr + n ELSE p.nr)

\* Behind the last byte of a part.
Behind(p, n, byte) ==
  IF p.part = "header" THEN
    IF byte[2] = short THEN At("len_2", 0, len_2_size, byte[3] = 1, 0, p.nr)
    ELSE IF byte[2] > short THEN At("len_8", 0, len_8_size, byte[3] = 1, 0, p.nr)
    ELSE Sized(byte[2], byte[3] = 1, p.nr)
  ELSE IF p.part = "mask" THEN InData(p.len, TRUE, p.nr)
  ELSE IF p.part = "data" THEN Begin(p.nr + n)
  ELSE Sized(byte[2], p.mask, p.nr)

\* Behind n bytes of one part, of which byte is the last.
Further(p, n, byte) == IF p.pos + n < p.size THEN Inside(p, n) ELSE Behind(p, n, byte)

\* The n-th byte from p is what is expected there.
Suits(p, n, byte) ==
  /\ byte[1] = p.part
  /\ p.part = "data" =>
       /\ byte[2] = p.nr + n
       /\ byte[3] = IF p.mask THEN (p.pos + n - 1) % mask_size ELSE -1

\* What is known of a place when told bytes of data have been sent.
Sound(p, told) ==
  /\ p.pos < p.size /\ p.nr <= told /\ p.len <= MaxData
  /\ p.part # "data" => p.size = W!Size[p.part]
  /\ p.part = "data" => p.size <= MaxData
  /\ p.part # "mask" => p.len = 0
  /\ p.part = "header" => p.mask = FALSE
  /\ p.part = "mask" => p.mask = TRUE

\* r are the places before each byte of t and behind the last.
Runs(r, t, told) ==
  /\ r \in [0 .. Len(t) -> Place]
  /\ \A i \in 0 .. Len(t) : Sound(r[i], told)
  /\ \A i \in 0 .. Len(t) : \A n \in 1 .. Len(t) :
       i + n <= Len(t) /\ r[i].pos + n <= r[i].size =>
         Suits(r[i], n, t[i + n]) /\ r[i + n] = Further(r[i], n, t[i + n])

\* What the assumption says of the sizes.
LEMMA FrameConstants ==
  /\ short \in Nat \ {0} /\ long \in Nat /\ short < long
  /\ header_size \in Nat \ {0} /\ len_2_size \in Nat \ {0} /\ len_8_size \in Nat \ {0}
  /\ mask_size \in Nat \ {0} /\ buffer_size \in Nat \ {0}
  /\ FrameSizes \subseteq Nat /\ Misread \subseteq Nat /\ MaxData \in Nat
  /\ W!Size["header"] = header_size /\ W!Size["len_2"] = len_2_size
  /\ W!Size["len_8"] = len_8_size /\ W!Size["mask"] = mask_size
<1>1. W!WebSocketAssumption
  BY PartsAssumption
<1>2. /\ DOMAIN W!Size = {"header", "len_2", "len_8", "mask"}
      /\ W!Size["header"] = header_size /\ W!Size["len_2"] = len_2_size
      /\ W!Size["len_8"] = len_8_size /\ W!Size["mask"] = mask_size
  BY DEF W!Size
<1> QED
  BY <1>1, <1>2 DEF W!WebSocketAssumption

\* The fields of a place.
LEMMA PlaceFields ==
  ASSUME NEW p \in Place
  PROVE  /\ p.part \in Parts /\ p.pos \in Nat /\ p.size \in Nat
         /\ p.mask \in BOOLEAN /\ p.len \in Nat /\ p.nr \in Nat
BY DEF Place

\* The fields At gives.
LEMMA AtFields ==
  ASSUME NEW where, NEW off, NEW size, NEW mask, NEW len, NEW nr
  PROVE  LET p == At(where, off, size, mask, len, nr)
         IN  /\ p.part = where /\ p.pos = off /\ p.size = size
             /\ p.mask = mask /\ p.len = len /\ p.nr = nr
BY DEF At

\* The fields of a place n bytes further.
LEMMA InsideFields ==
  ASSUME NEW p \in Place, NEW n \in Nat
  PROVE  /\ Inside(p, n) \in Place
         /\ Inside(p, n).part = p.part /\ Inside(p, n).pos = p.pos + n
         /\ Inside(p, n).size = p.size /\ Inside(p, n).mask = p.mask
         /\ Inside(p, n).len = p.len
         /\ Inside(p, n).nr = IF p.part = "data" THEN p.nr + n ELSE p.nr
BY PlaceFields DEF Inside, At, Place

\* No bytes further is the same place.
LEMMA InsideNone ==
  ASSUME NEW p \in Place
  PROVE  Inside(p, 0) = p
BY DEF Inside, At, Place

\* a bytes and n more are a + n.
LEMMA FurtherTwice ==
  ASSUME NEW p \in Place, NEW a \in Nat, NEW n \in Nat \ {0}, NEW byte
  PROVE  /\ Further(Inside(p, a), n, byte) = Further(p, a + n, byte)
         /\ Suits(Inside(p, a), n, byte) <=> Suits(p, a + n, byte)
<1> DEFINE q == Inside(p, a)
<1>1. /\ q \in Place /\ q.part = p.part /\ q.pos = p.pos + a /\ q.size = p.size
      /\ q.mask = p.mask /\ q.len = p.len
      /\ q.nr = IF p.part = "data" THEN p.nr + a ELSE p.nr
  BY InsideFields
<1>2. /\ p.pos \in Nat /\ p.size \in Nat /\ p.nr \in Nat
  BY PlaceFields
<1> HIDE DEF q
<1>3. /\ q.pos + n = p.pos + (a + n) /\ p.nr + a + n = p.nr + (a + n)
      /\ q.pos + n - 1 = p.pos + (a + n) - 1
  BY <1>1, <1>2
<1>4. Inside(q, n) = Inside(p, a + n)
  BY <1>1, <1>3 DEF Inside
<1>5. Behind(q, n, byte) = Behind(p, a + n, byte)
  BY <1>1, <1>3 DEF Behind
<1>6. Suits(q, n, byte) <=> Suits(p, a + n, byte)
  BY <1>1, <1>3 DEF Suits
<1> QED
  BY <1>1, <1>3, <1>4, <1>5, <1>6 DEF Further, q

(***************************************************************************)
(* What is read goes from the begin, and what is sent comes behind.        *)
(***************************************************************************)
\* The places from n on.
PlacesFrom(r, t, n) == [i \in 0 .. Len(t) - n |-> r[i + n]]

\* A run without its first n bytes is a run from their end on.
LEMMA RunFrom ==
  ASSUME NEW t \in Seq(FrameByte), NEW told \in Nat, NEW r, Runs(r, t, told),
         NEW n \in Nat, n <= Len(t)
  PROVE  /\ Runs(PlacesFrom(r, t, n), SubSeq(t, n + 1, Len(t)), told)
         /\ Len(SubSeq(t, n + 1, Len(t))) = Len(t) - n
         /\ PlacesFrom(r, t, n)[0] = r[n] /\ PlacesFrom(r, t, n)[Len(t) - n] = r[Len(t)]
<1> DEFINE u == SubSeq(t, n + 1, Len(t))
           q == PlacesFrom(r, t, n)
<1>1. Len(t) \in Nat
  BY LenProperties
<1>2. /\ Len(u) = Len(t) - n
      /\ \A i \in 1 .. Len(t) - n : u[i] = t[n + i]
  BY <1>1
<1>3. q = [i \in 0 .. Len(t) - n |-> r[i + n]]
  BY DEF PlacesFrom
<1> HIDE DEF u, q
<1>4. /\ r \in [0 .. Len(t) -> Place]
      /\ \A i \in 0 .. Len(t) : Sound(r[i], told)
      /\ \A i \in 0 .. Len(t) : \A k \in 1 .. Len(t) :
           i + k <= Len(t) /\ r[i].pos + k <= r[i].size =>
             Suits(r[i], k, t[i + k]) /\ r[i + k] = Further(r[i], k, t[i + k])
  BY DEF Runs
<1>5. \A i \in 0 .. Len(t) - n : q[i] = r[i + n] /\ i + n \in 0 .. Len(t)
  BY <1>1, <1>3
<1>6. q \in [0 .. Len(u) -> Place] /\ \A i \in 0 .. Len(u) : Sound(q[i], told)
  BY <1>1, <1>2, <1>3, <1>4, <1>5
<1>7. ASSUME NEW i \in 0 .. Len(u), NEW k \in 1 .. Len(u), i + k <= Len(u),
             q[i].pos + k <= q[i].size
      PROVE  Suits(q[i], k, u[i + k]) /\ q[i + k] = Further(q[i], k, u[i + k])
  <2>1. /\ i + n \in 0 .. Len(t) /\ k \in 1 .. Len(t) /\ (i + n) + k <= Len(t)
        /\ i + k \in 0 .. Len(t) - n /\ i + k \in 1 .. Len(t) - n
        /\ n + (i + k) = (i + n) + k /\ (i + k) + n = (i + n) + k
    BY <1>1, <1>2, <1>7
  <2>2. q[i] = r[i + n] /\ q[i + k] = r[(i + n) + k] /\ u[i + k] = t[(i + n) + k]
    BY <1>2, <1>5, <2>1
  <2>3. r[i + n].pos + k <= r[i + n].size
    BY <1>7, <2>2
  <2> QED
    BY <1>4, <2>1, <2>2, <2>3
<1>8. q[0] = r[n] /\ q[Len(t) - n] = r[Len(t)]
  BY <1>1, <1>5
<1>9. Runs(q, u, told)
  BY <1>6, <1>7 DEF Runs
<1> QED
  BY <1>2, <1>8, <1>9 DEF u, q

\* s are bytes of p's part, of which more may come.
Fill(s, p, told, told_after) ==
  /\ s \in Seq(FrameByte) /\ Len(s) > 0 /\ p.pos + Len(s) <= p.size
  /\ \A j \in 1 .. Len(s) : Suits(p, j, s[j])
  /\ told \in Nat /\ told_after \in Nat /\ told <= told_after
  /\ p.part = "data" => p.nr + Len(s) <= told_after

\* r goes through t to p, and s are bytes that come behind and lead to q.
RunAnd(r, t, told, p, s, told_after, q) ==
  /\ t \in Seq(FrameByte) /\ Runs(r, t, told) /\ p = r[Len(t)]
  /\ Fill(s, p, told, told_after)
  /\ q \in Place /\ q = Further(p, Len(s), s[Len(s)]) /\ Sound(q, told_after)

\* A run goes on with bytes that suit the place it came to.
LEMMA RunFurther ==
  ASSUME NEW r, NEW t, NEW told, NEW p, NEW s, NEW told_after, NEW q,
         RunAnd(r, t, told, p, s, told_after, q)
  PROVE  /\ t \o s \in Seq(FrameByte)
         /\ \E r2 : Runs(r2, t \o s, told_after) /\ r2[0] = r[0] /\ r2[Len(t \o s)] = q
<1>1. /\ t \in Seq(FrameByte) /\ Runs(r, t, told) /\ p = r[Len(t)]
      /\ Fill(s, p, told, told_after)
      /\ q \in Place /\ q = Further(p, Len(s), s[Len(s)]) /\ Sound(q, told_after)
  BY DEF RunAnd
<1>2. /\ s \in Seq(FrameByte) /\ Len(s) > 0 /\ p.pos + Len(s) <= p.size
      /\ \A j \in 1 .. Len(s) : Suits(p, j, s[j])
      /\ told \in Nat /\ told_after \in Nat /\ told <= told_after
      /\ p.part = "data" => p.nr + Len(s) <= told_after
  BY <1>1 DEF Fill
<1>3. Len(t) \in Nat /\ Len(s) \in Nat \ {0}
  BY <1>1, <1>2, LenProperties
<1> DEFINE u == t \o s
           r2 == [i \in 0 .. Len(t) + Len(s) |->
                    IF i <= Len(t) THEN r[i] ELSE Further(p, i - Len(t), s[i - Len(t)])]
<1>4. /\ u \in Seq(FrameByte) /\ Len(u) = Len(t) + Len(s)
      /\ \A i \in 1 .. Len(t) + Len(s) : u[i] = IF i <= Len(t) THEN t[i] ELSE s[i - Len(t)]
  BY <1>1, <1>2, ConcatProperties
<1>5. /\ r \in [0 .. Len(t) -> Place]
      /\ \A i \in 0 .. Len(t) : Sound(r[i], told)
      /\ \A i \in 0 .. Len(t) : \A k \in 1 .. Len(t) :
           i + k <= Len(t) /\ r[i].pos + k <= r[i].size =>
             Suits(r[i], k, t[i + k]) /\ r[i + k] = Further(r[i], k, t[i + k])
  BY <1>1 DEF Runs
<1>6. p \in Place /\ Sound(p, told)
  BY <1>1, <1>3, <1>5
<1>7. /\ \A i \in 0 .. Len(t) : r2[i] = r[i]
      /\ \A j \in 1 .. Len(s) : r2[Len(t) + j] = Further(p, j, s[j])
      /\ DOMAIN r2 = 0 .. Len(t) + Len(s)
  <2>1. ASSUME NEW j \in 1 .. Len(s)
        PROVE  r2[Len(t) + j] = Further(p, j, s[j])
    <3>1. Len(t) + j \in 0 .. Len(t) + Len(s) /\ ~(Len(t) + j <= Len(t)) /\ Len(t) + j - Len(t) = j
      BY <1>3
    <3> QED
      BY <3>1
  <2>2. \A i \in 0 .. Len(t) : r2[i] = r[i]
    BY <1>3
  <2> QED
    BY <2>1, <2>2
<1>8. \A j \in 1 .. Len(s) : u[Len(t) + j] = s[j]
  <2>1. ASSUME NEW j \in 1 .. Len(s)
        PROVE  u[Len(t) + j] = s[j]
    <3>1. Len(t) + j \in 1 .. Len(t) + Len(s) /\ ~(Len(t) + j <= Len(t)) /\ Len(t) + j - Len(t) = j
      BY <1>3
    <3> QED
      BY <1>4, <3>1
  <2> QED
    BY <2>1
<1>9. r2 = [i \in 0 .. Len(t) + Len(s) |-> r2[i]]
  OBVIOUS
<1> HIDE DEF u, r2
<1>10. \A j \in 1 .. Len(s) - 1 :
        /\ Further(p, j, s[j]) = Inside(p, j)
        /\ Inside(p, j) \in Place /\ Sound(Inside(p, j), told_after)
  <2>1. ASSUME NEW j \in 1 .. Len(s) - 1
        PROVE  /\ Further(p, j, s[j]) = Inside(p, j)
               /\ Inside(p, j) \in Place /\ Sound(Inside(p, j), told_after)
    <3>1. /\ p.part \in Parts /\ p.pos \in Nat /\ p.size \in Nat /\ p.nr \in Nat
      BY <1>6, PlaceFields
    <3>2. p.pos + j < p.size /\ p.nr <= told_after /\ (p.part = "data" => p.nr + j <= told_after)
      <4>1. p.pos + j < p.size
        BY <1>2, <1>3, <3>1
      <4>2. p.nr <= told_after
        BY <1>2, <1>6, <3>1 DEF Sound
      <4>3. p.part = "data" => p.nr + j <= told_after
        BY <1>2, <1>3, <3>1
      <4> QED
        BY <4>1, <4>2, <4>3
    <3>3. /\ Inside(p, j) \in Place
          /\ Inside(p, j).part = p.part /\ Inside(p, j).pos = p.pos + j
          /\ Inside(p, j).size = p.size /\ Inside(p, j).mask = p.mask
          /\ Inside(p, j).len = p.len
          /\ Inside(p, j).nr = IF p.part = "data" THEN p.nr + j ELSE p.nr
      <4>1. j \in Nat
        BY <1>3
      <4> QED
        BY <1>6, <4>1, InsideFields
    <3>4. Inside(p, j).nr <= told_after
      <4>1. CASE p.part = "data"
        BY <3>2, <3>3, <4>1
      <4>2. CASE p.part # "data"
        <5>1. Inside(p, j).nr = p.nr
          BY <3>3, <4>2, Zenon
        <5> QED
          BY <3>2, <5>1
      <4> QED
        BY <4>1, <4>2
    <3> QED
      BY <1>6, <3>2, <3>3, <3>4 DEF Sound, Further
  <2> QED
    BY <2>1
<1>11. ASSUME NEW i \in 0 .. Len(u)
      PROVE  r2[i] \in Place /\ Sound(r2[i], told_after)
  <2>1. CASE i \in 0 .. Len(t)
    <3>1. r2[i] \in Place /\ Sound(r2[i], told)
      BY <1>5, <1>7, <2>1
    <3>2. r2[i].nr \in Nat /\ r2[i].nr <= told
      BY <3>1, PlaceFields DEF Sound
    <3>3. r2[i].nr <= told_after
      BY <1>2, <3>2
    <3> QED
      BY <3>1, <3>3 DEF Sound
  <2>2. CASE i \in Len(t) + 1 .. Len(t) + Len(s)
    <3>1. i - Len(t) \in 1 .. Len(s) /\ i = Len(t) + (i - Len(t))
      BY <1>3, <2>2
    <3>2. r2[i] = Further(p, i - Len(t), s[i - Len(t)])
      BY <1>7, <3>1
    <3>3. CASE i - Len(t) = Len(s)
      BY <1>1, <3>2, <3>3
    <3>4. CASE i - Len(t) \in 1 .. Len(s) - 1
      BY <1>10, <3>2, <3>4
    <3> QED
      BY <1>3, <3>1, <3>3, <3>4
  <2> QED
    BY <1>3, <1>4, <2>1, <2>2
<1>12. ASSUME NEW i \in 0 .. Len(u), NEW k \in 1 .. Len(u), i + k <= Len(u),
              r2[i].pos + k <= r2[i].size
       PROVE  Suits(r2[i], k, u[i + k]) /\ r2[i + k] = Further(r2[i], k, u[i + k])
  <2>1. CASE i + k <= Len(t)
    <3>1. i \in 0 .. Len(t) /\ i + k \in 0 .. Len(t) /\ k \in 1 .. Len(t) /\ i + k \in 1 .. Len(t) + Len(s)
      BY <1>3, <2>1
    <3>2. r2[i] = r[i] /\ r2[i + k] = r[i + k] /\ u[i + k] = t[i + k]
      BY <1>4, <1>7, <2>1, <3>1
    <3>3. r[i].pos + k <= r[i].size
      BY <1>12, <3>2
    <3> QED
      BY <1>5, <2>1, <3>1, <3>2, <3>3
  <2>2. CASE i + k > Len(t)
    <3> DEFINE j == i + k - Len(t)
    <3>1. j \in 1 .. Len(s) /\ Len(t) + j = i + k
      BY <1>3, <1>4, <1>12, <2>2
    <3>2. r2[i + k] = Further(p, j, s[j]) /\ u[i + k] = s[j] /\ Suits(p, j, s[j])
      BY <1>2, <1>7, <1>8, <3>1
    <3> HIDE DEF j
    <3>3. CASE i <= Len(t)
      <4> DEFINE m == Len(t) - i
      <4>1. m \in Nat /\ k = m + j /\ m + i = Len(t) /\ i \in 0 .. Len(t) /\ j \in Nat \ {0}
        BY <1>3, <3>1, <3>3
      <4> HIDE DEF m
      <4>2. r2[i] = r[i] /\ r[i] \in Place
        BY <1>5, <1>7, <4>1
      <4>3. p = Inside(r[i], m)
        <5>1. CASE m = 0
          BY <1>1, <4>1, <4>2, <5>1, InsideNone
        <5>2. CASE m # 0
          <6>1. /\ r[i].pos \in Nat /\ r[i].size \in Nat
            BY <4>2, PlaceFields
          <6>2. m \in 1 .. Len(t) /\ i + m = Len(t) /\ r[i].pos + m < r[i].size
            BY <1>3, <1>12, <4>1, <4>2, <5>2, <6>1
          <6>3. r[i + m] = Further(r[i], m, t[i + m])
            BY <1>3, <1>5, <4>1, <6>1, <6>2, SMTT(60)
          <6> QED
            BY <1>1, <6>2, <6>3 DEF Further
        <5> QED
          BY <5>1, <5>2
      <4>4. /\ Further(p, j, s[j]) = Further(r[i], m + j, s[j])
            /\ Suits(p, j, s[j]) <=> Suits(r[i], m + j, s[j])
        BY <4>1, <4>2, <4>3, FurtherTwice
      <4> QED
        BY <3>2, <4>1, <4>2, <4>4
    <3>4. CASE i > Len(t)
      <4> DEFINE m == i - Len(t)
      <4>1. /\ m \in 1 .. Len(s) - 1 /\ m \in Nat /\ j = m + k /\ Len(t) + m = i
            /\ k \in Nat \ {0} /\ m \in 1 .. Len(s)
        <5>1. i \in Int /\ k \in Nat \ {0} /\ i + k <= Len(t) + Len(s)
          BY <1>3, <1>4, <1>12
        <5> QED
          BY <1>3, <3>1, <3>4, <5>1
      <4> HIDE DEF m
      <4>2. r2[i] = Inside(p, m)
        BY <1>7, <1>10, <4>1
      <4>3. /\ Further(Inside(p, m), k, s[j]) = Further(p, m + k, s[j])
            /\ Suits(Inside(p, m), k, s[j]) <=> Suits(p, m + k, s[j])
        BY <1>6, <4>1, FurtherTwice
      <4> QED
        BY <3>2, <4>1, <4>2, <4>3
    <3> QED
      BY <1>3, <3>3, <3>4
  <2> QED
    BY <1>3, <1>4, <2>1, <2>2
<1>13. Runs(r2, u, told_after)
  BY <1>4, <1>9, <1>11, <1>12 DEF Runs
<1>14. r2[0] = r[0] /\ r2[Len(u)] = q
  <2>1. 0 \in 0 .. Len(t) /\ Len(s) \in 1 .. Len(s)
    BY <1>3
  <2>2. r2[Len(t) + Len(s)] = Further(p, Len(s), s[Len(s)])
    BY <1>7, <2>1
  <2> QED
    BY <1>1, <1>4, <1>7, <2>1, <2>2
<1> QED
  BY <1>4, <1>13, <1>14 DEF u

\* Who reads t from first comes to p.
ReadsTo(first, t, told, p) ==
  /\ t \in Seq(FrameByte) /\ told \in Nat
  /\ \E r : Runs(r, t, told) /\ r[0] = first /\ r[Len(t)] = p

\* With the bytes s of a part p becomes q.
ComesTo(p, s, told, q) == q \in Place /\ q = Further(p, Len(s), s[Len(s)]) /\ Sound(q, told)

\* The same of one who reads from a place to a place.
LEMMA ReadsOn ==
  ASSUME NEW first, NEW t, NEW told, NEW p, ReadsTo(first, t, told, p),
         NEW s, NEW told_after, NEW q, Fill(s, p, told, told_after), ComesTo(p, s, told_after, q)
  PROVE  ReadsTo(first, t \o s, told_after, q)
<1>1. PICK r : Runs(r, t, told) /\ r[0] = first /\ r[Len(t)] = p
  BY DEF ReadsTo
<1>2. t \in Seq(FrameByte) /\ told_after \in Nat
  BY DEF ReadsTo, Fill
<1>3. q \in Place /\ q = Further(p, Len(s), s[Len(s)]) /\ Sound(q, told_after)
  BY DEF ComesTo
<1>4. /\ t \o s \in Seq(FrameByte)
      /\ \E r2 : Runs(r2, t \o s, told_after) /\ r2[0] = r[0] /\ r2[Len(t \o s)] = q
  <2>1. RunAnd(r, t, told, p, s, told_after, q)
    BY <1>1, <1>2, <1>3 DEF RunAnd
  <2> QED
    BY <2>1, RunFurther
<1> QED
  BY <1>1, <1>2, <1>4 DEF ReadsTo

\* Both of its ends are places, and sound.
LEMMA ReadEnds ==
  ASSUME NEW first, NEW t, NEW told, NEW p, ReadsTo(first, t, told, p)
  PROVE  p \in Place /\ Sound(p, told) /\ first \in Place /\ Sound(first, told) /\ told \in Nat
<1>1. PICK r : Runs(r, t, told) /\ r[0] = first /\ r[Len(t)] = p
  BY DEF ReadsTo
<1>2. Len(t) \in Nat /\ told \in Nat
  BY LenProperties DEF ReadsTo
<1> QED
  BY <1>1, <1>2 DEF Runs

\* The places at the begin of a part are sound.
LEMMA PlainPlaces ==
  ASSUME NEW told \in Nat, NEW nr \in 0 .. told, NEW size \in 0 .. MaxData, NEW mask \in BOOLEAN
  PROVE  /\ Begin(nr) \in Place /\ Sound(Begin(nr), told)
         /\ InData(size, mask, nr) \in Place /\ Sound(InData(size, mask, nr), told)
         /\ Sized(size, mask, nr) \in Place /\ Sound(Sized(size, mask, nr), told)
         /\ \A kind \in {"len_2", "len_8"} :
              LET p == At(kind, 0, W!Size[kind], mask, 0, nr)
              IN  p \in Place /\ Sound(p, told)
<1>1. /\ MaxData \in Nat /\ header_size \in Nat \ {0} /\ len_2_size \in Nat \ {0}
      /\ len_8_size \in Nat \ {0} /\ mask_size \in Nat \ {0}
      /\ W!Size["header"] = header_size /\ W!Size["len_2"] = len_2_size
      /\ W!Size["len_8"] = len_8_size /\ W!Size["mask"] = mask_size
  BY FrameConstants
<1>2. Begin(nr) \in Place /\ Sound(Begin(nr), told)
  BY <1>1 DEF Begin, At, Place, Parts, Sound
<1>3. ASSUME NEW m \in BOOLEAN
      PROVE  InData(size, m, nr) \in Place /\ Sound(InData(size, m, nr), told)
  <2>1. CASE size = 0
    BY <1>2, <2>1 DEF InData
  <2>2. CASE size # 0
    BY <1>1, <2>2 DEF InData, At, Place, Parts, Sound
  <2> QED
    BY <2>1, <2>2
<1>4. Sized(size, mask, nr) \in Place /\ Sound(Sized(size, mask, nr), told)
  <2>1. CASE mask
    BY <1>1, <2>1 DEF Sized, At, Place, Parts, Sound
  <2>2. CASE ~mask
    BY <1>3, <2>2 DEF Sized
  <2> QED
    BY <2>1, <2>2
<1>5. ASSUME NEW kind \in {"len_2", "len_8"}
      PROVE  LET p == At(kind, 0, W!Size[kind], mask, 0, nr)
             IN  p \in Place /\ Sound(p, told)
  BY <1>1 DEF At, Place, Parts, Sound
<1> QED
  BY <1>2, <1>3, <1>4, <1>5

\* All of a part of a header.
LEMMA PartOn ==
  ASSUME NEW first, NEW t, NEW told, NEW p, ReadsTo(first, t, told, p),
         p.pos = 0, NEW kind \in {"header", "len_2", "len_8", "mask"}, p.part = kind,
         NEW number \in Nat, NEW key \in Int,
         NEW q \in Place, q = Behind(p, W!Size[kind], <<kind, number, key>>), Sound(q, told)
  PROVE  /\ ReadsTo(first, t \o W!Bytes(kind, number, key), told, q)
         /\ W!Bytes(kind, number, key) \in Seq(FrameByte)
         /\ Len(W!Bytes(kind, number, key)) \in Nat \ {0}
<1> DEFINE s == W!Bytes(kind, number, key)
           n == W!Size[kind]
<1>1. n \in Nat \ {0}
  BY FrameConstants
<1>2. s \in Seq(FrameByte) /\ Len(s) = n /\ \A j \in 1 .. Len(s) : s[j] = <<kind, number, key>>
  <2>1. s = [i \in 1 .. n |-> <<kind, number, key>>]
    BY DEF W!Bytes
  <2>2. <<kind, number, key>> \in FrameByte
    BY DEF FrameByte, Parts
  <2> HIDE DEF s, n
  <2> QED
    BY <1>1, <2>1, <2>2
<1>3. p \in Place /\ Sound(p, told) /\ told \in Nat
  BY ReadEnds
<1>4. p.size = n
  BY <1>3 DEF Sound
<1> HIDE DEF s, n
<1>5. \A j \in 1 .. Len(s) : Suits(p, j, s[j])
  <2>1. ASSUME NEW j \in 1 .. Len(s)
        PROVE  Suits(p, j, s[j])
    <3>1. s[j][1] = kind /\ kind # "data"
      BY <1>2
    <3> QED
      BY <3>1 DEF Suits
  <2> QED
    BY <2>1
<1>6. Fill(s, p, told, told)
  BY <1>1, <1>2, <1>3, <1>4, <1>5 DEF Fill
<1>7. q = Further(p, Len(s), s[Len(s)])
  <2>1. s[Len(s)] = <<kind, number, key>> /\ Len(s) = n /\ ~(p.pos + n < p.size)
    BY <1>1, <1>2, <1>4
  <2> QED
    BY <2>1 DEF Further, n
<1>8. ComesTo(p, s, told, q)
  BY <1>7 DEF ComesTo
<1>9. ReadsTo(first, t \o s, told, q)
  BY <1>6, <1>8, ReadsOn
<1> QED
  BY <1>1, <1>2, <1>9 DEF s

\* The header of a frame, with its length, which the other side reads as it is meant.
LEMMA HeaderOn ==
  ASSUME NEW first, NEW t, NEW told, ReadsTo(first, t, told, Begin(told)),
         NEW size \in 0 .. MaxData, NEW key \in {0, 1}, W!Heard(size) = size
  PROVE  /\ W!Header(size, key) \in Seq(FrameByte) /\ Len(W!Header(size, key)) \in Nat \ {0}
         /\ ReadsTo(first, t \o W!Header(size, key), told, Sized(size, key = 1, told))
<1>1. /\ short \in Nat \ {0} /\ long \in Nat /\ short < long /\ MaxData \in Nat
      /\ W!Size["len_2"] = len_2_size /\ W!Size["len_8"] = len_8_size
  BY FrameConstants
<1>0. told \in Nat /\ t \in Seq(FrameByte)
  BY DEF ReadsTo
<1> DEFINE q == Sized(size, key = 1, told)
           b == Begin(told)
<1>2. /\ q \in Place /\ Sound(q, told) /\ told \in 0 .. told /\ (key = 1) \in BOOLEAN
      /\ b.pos = 0 /\ b.part = "header" /\ b.nr = told
  <2>1. told \in 0 .. told /\ (key = 1) \in BOOLEAN
    BY <1>0
  <2>2. b.pos = 0 /\ b.part = "header" /\ b.nr = told
    BY DEF Begin, At
  <2> QED
    BY <1>0, <2>1, <2>2, PlainPlaces
<1>3. CASE size < short
  <2>1. W!Header(size, key) = W!Bytes("header", size, key)
    BY <1>3 DEF W!Header, W!IsShort
  <2>2. q = Behind(b, W!Size["header"], <<"header", size, key>>)
    BY <1>1, <1>2, <1>3 DEF Behind
  <2>3. size \in Nat /\ key \in Int /\ ReadsTo(first, t, told, b)
    BY <1>1
  <2> HIDE DEF q, b
  <2>4. /\ ReadsTo(first, t \o W!Bytes("header", size, key), told, q)
        /\ W!Bytes("header", size, key) \in Seq(FrameByte)
        /\ Len(W!Bytes("header", size, key)) \in Nat \ {0}
    BY <1>2, <2>2, <2>3, PartOn
  <2> QED
    BY <2>1, <2>4 DEF q
<1>4. CASE size >= short
  <2> DEFINE kind == IF size < long THEN "len_2" ELSE "len_8"
             code == IF size < long THEN short ELSE short + 1
             p == At(kind, 0, W!Size[kind], key = 1, 0, told)
             h == W!Bytes("header", code, key)
             l == W!Bytes(kind, size, 0)
  <2>1. W!Header(size, key) = h \o l
    BY <1>1, <1>4 DEF W!Header, W!IsShort, W!LengthPart
  <2>2. p \in Place /\ Sound(p, told)
    BY <1>0, <1>2, PlainPlaces
  <2>3. p.pos = 0 /\ p.part = kind /\ p.mask = (key = 1) /\ p.nr = told
    BY DEF At
  <2>4. p = Behind(b, W!Size["header"], <<"header", code, key>>)
    BY <1>1, <1>2 DEF Behind
  <2>5. q = Behind(p, W!Size[kind], <<kind, size, 0>>)
    BY <2>3 DEF Behind
  <2>6. /\ kind \in {"header", "len_2", "len_8", "mask"} /\ code \in Nat
        /\ size \in Nat /\ 0 \in Nat /\ key \in Int /\ 0 \in Int
        /\ ReadsTo(first, t, told, b)
    BY <1>1
  <2> HIDE DEF q, b, p, kind, code
  <2>7. ReadsTo(first, t \o h, told, p) /\ h \in Seq(FrameByte) /\ Len(h) \in Nat \ {0}
    BY <1>2, <2>2, <2>4, <2>6, PartOn
  <2> HIDE DEF h
  <2>8. ReadsTo(first, (t \o h) \o l, told, q) /\ l \in Seq(FrameByte) /\ Len(l) \in Nat \ {0}
    BY <1>2, <2>3, <2>5, <2>6, <2>7, PartOn, ZenonT(60)
  <2> HIDE DEF l
  <2>9. (t \o h) \o l = t \o (h \o l)
    BY <1>0, <2>7, <2>8, ConcatAssociative
  <2>10. h \o l \in Seq(FrameByte) /\ Len(h \o l) \in Nat \ {0}
    <3>1. h \o l \in Seq(FrameByte) /\ Len(h \o l) = Len(h) + Len(l)
      BY <2>7, <2>8, ConcatProperties
    <3> QED
      BY <2>7, <2>8, <3>1
  <2> QED
    BY <2>1, <2>8, <2>9, <2>10 DEF q
<1> QED
  BY <1>1, <1>3, <1>4

\* n bytes of data behind p, the next to be sent.
LEMMA DataOn ==
  ASSUME NEW first, NEW t, NEW told, NEW p, ReadsTo(first, t, told, p),
         p.part = "data", p.nr = told,
         NEW n \in Nat \ {0}, p.pos + n <= p.size, NEW s, s \in Seq(FrameByte), Len(s) = n,
         \A i \in 1 .. n : /\ s[i][1] = "data" /\ s[i][2] = told + i
                           /\ s[i][3] = IF p.mask THEN (p.pos + i - 1) % mask_size ELSE -1
  PROVE  ReadsTo(first, t \o s, told + n, IF p.pos + n < p.size THEN Inside(p, n) ELSE Begin(told + n))
<1> DEFINE q == IF p.pos + n < p.size THEN Inside(p, n) ELSE Begin(told + n)
<1>1. p \in Place /\ Sound(p, told) /\ told \in Nat
  BY ReadEnds
<1>2. p.pos \in Nat /\ p.size \in Nat /\ told + n \in Nat /\ told <= told + n
  BY <1>1, PlaceFields
<1>3. Fill(s, p, told, told + n)
  <2>1. \A j \in 1 .. Len(s) : Suits(p, j, s[j])
    BY DEF Suits
  <2> QED
    BY <1>1, <1>2, <2>1 DEF Fill
<1>4. q = Further(p, Len(s), s[Len(s)])
  BY DEF Further, Behind
<1>5. q \in Place /\ Sound(q, told + n)
  <2>1. CASE p.pos + n < p.size
    <3>1. /\ Inside(p, n) \in Place
          /\ Inside(p, n).part = p.part /\ Inside(p, n).pos = p.pos + n
          /\ Inside(p, n).size = p.size /\ Inside(p, n).mask = p.mask
          /\ Inside(p, n).len = p.len /\ Inside(p, n).nr = told + n
      BY <1>1, InsideFields
    <3> QED
      BY <1>1, <1>2, <2>1, <3>1 DEF Sound
  <2>2. CASE ~(p.pos + n < p.size)
    <3>1. 0 \in 0 .. MaxData /\ told + n \in 0 .. told + n /\ TRUE \in BOOLEAN
      BY <1>2, FrameConstants
    <3> QED
      BY <1>2, <2>2, <3>1, PlainPlaces
  <2> QED
    BY <2>1, <2>2
<1> HIDE DEF q
<1>6. ComesTo(p, s, told + n, q)
  BY <1>4, <1>5 DEF ComesTo
<1>7. ReadsTo(first, t \o s, told + n, q)
  BY <1>3, <1>6, ReadsOn
<1> QED
  BY <1>7 DEF q

(***************************************************************************)
(* The invariant of the frames.                                            *)
(***************************************************************************)
\* What holds of all that is kept, whether or not the two sides agree.
Framed ==
  /\ browser \in BOOLEAN /\ has_mask \in BOOLEAN /\ agreed \in BOOLEAN /\ in_step \in BOOLEAN
  /\ offered \in 0 .. MaxData /\ sent \in 0 .. offered /\ (browser => sent = offered)
  /\ announced \in Nat /\ data_len \in Nat
  /\ wire \in Seq(FrameByte) /\ header \in Seq(FrameByte)
  /\ received \in Seq(Int) /\ aligned \in Seq(BOOLEAN) /\ Len(aligned) = Len(received)
  /\ status \in Parts /\ cur_pos \in Nat /\ cur_size \in Nat /\ cur_pos <= cur_size
  /\ status # "data" => cur_size = W!Size[status] /\ cur_pos < cur_size

\* What the sender keeps, as long as they do.
SenderTypes ==
  /\ browser \in BOOLEAN
  /\ offered \in 0 .. MaxData /\ sent \in 0 .. offered /\ announced \in Nat
  /\ wire \in Seq(FrameByte) /\ header \in Seq(FrameByte)
  /\ browser => announced = 0 /\ sent = offered
  /\ ~browser => announced <= offered - sent
  /\ announced = 0 => header = <<>>

\* What the reader keeps.
ReaderTypes ==
  /\ has_mask \in BOOLEAN /\ received \in Seq(Int) /\ in_step = TRUE
  /\ aligned \in Seq(BOOLEAN) /\ Len(aligned) = Len(received)
  /\ status \in Parts /\ cur_pos \in Nat /\ cur_size \in Nat /\ data_len \in 0 .. MaxData
  /\ status # "data" => cur_size = W!Size[status] /\ cur_pos < cur_size
  /\ status = "data" => cur_size <= MaxData /\ (cur_pos < cur_size \/ (cur_pos = 0 /\ cur_size = 0))
  /\ status = "mask" => has_mask

\* Where the reader is; a frame without data is done, though it has not been read of.
Now ==
  IF status = "header" THEN At("header", cur_pos, header_size, FALSE, 0, Len(received))
  ELSE IF cur_pos = cur_size THEN Begin(Len(received))
  ELSE At(status, cur_pos, cur_size, has_mask, IF status = "mask" THEN data_len ELSE 0,
          Len(received))

\* Where one comes to who reads all that was sent: to the next header, or to as much
\* data as are still announced.
Ending(p, left, told) ==
  /\ left = 0 => p = Begin(told)
  /\ left # 0 => /\ p.part = "data" /\ p.mask = FALSE /\ p.nr = told
                 /\ p.size - p.pos = left

\* One who reads all that is on the line or still to be written of a header comes from
\* where the reader is to where the sender is.
FrameRun == \E p : ReadsTo(Now, wire \o header, sent, p) /\ Ending(p, announced, sent)

\* What holds as long as both sides agree.
Exact == SenderTypes /\ ReaderTypes /\ FrameRun /\ W!InOrder

\* The invariant of the frames.
FrameInv == Framed /\ (agreed => Exact)

\* It holds at the begin.
LEMMA FrameInit == W!Init => FrameInv
<1> SUFFICES ASSUME W!Init
             PROVE  FrameInv
  OBVIOUS
<1>1. /\ browser \in BOOLEAN /\ offered = 0 /\ sent = 0 /\ announced = 0 /\ header = <<>>
      /\ wire = <<>> /\ status = "header" /\ cur_pos = 0 /\ cur_size = header_size
      /\ has_mask = FALSE /\ data_len = 0 /\ received = <<>> /\ aligned = <<>>
      /\ agreed = TRUE /\ in_step = TRUE
  BY DEF W!Init
<1>2. /\ header_size \in Nat \ {0} /\ MaxData \in Nat /\ W!Size["header"] = header_size
  BY FrameConstants
<1>3. SenderTypes /\ ReaderTypes /\ Framed
  <2>1. /\ wire \in Seq(FrameByte) /\ header \in Seq(FrameByte) /\ received \in Seq(Int)
        /\ aligned \in Seq(BOOLEAN) /\ Len(aligned) = Len(received)
    BY <1>1
  <2>2. status \in Parts /\ status # "data" /\ status # "mask" /\ W!Size[status] = header_size
    BY <1>1, <1>2 DEF Parts
  <2>3. /\ browser \in BOOLEAN /\ has_mask \in BOOLEAN /\ agreed \in BOOLEAN
        /\ in_step \in BOOLEAN /\ in_step = TRUE
    BY <1>1
  <2>4. /\ offered \in 0 .. MaxData /\ sent \in 0 .. offered /\ announced \in Nat
        /\ cur_pos \in Nat /\ cur_size \in Nat /\ data_len \in 0 .. MaxData
        /\ data_len \in Nat /\ cur_pos <= cur_size
        /\ announced <= offered - sent /\ announced = 0 /\ sent = offered /\ header = <<>>
        /\ cur_size = W!Size[status] /\ cur_pos < cur_size
    BY <1>1, <1>2
  <2> QED
    BY <2>1, <2>2, <2>3, <2>4 DEF SenderTypes, ReaderTypes, Framed
<1>4. W!InOrder
  BY <1>1 DEF W!InOrder
<1>5. FrameRun
  <2> DEFINE b == Begin(0)
             r == [i \in 0 .. 0 |-> b]
  <2>1. Now = b
    BY <1>1 DEF Now, Begin
  <2>2. b \in Place /\ Sound(b, 0)
    <3>1. 0 \in Nat /\ 0 \in 0 .. 0 /\ 0 \in 0 .. MaxData /\ TRUE \in BOOLEAN
      BY <1>2
    <3> QED
      BY <3>1, PlainPlaces
  <2>3. wire \o header = <<>> /\ Len(wire \o header) = 0
    BY <1>1
  <2> HIDE DEF b
  <2>4. Runs(r, <<>>, 0)
    BY <2>2 DEF Runs
  <2>5. ReadsTo(b, <<>>, 0, b)
    BY <2>4 DEF ReadsTo
  <2>6. Ending(b, announced, sent)
    BY <1>1 DEF Ending, b
  <2> QED
    BY <1>1, <2>1, <2>3, <2>5, <2>6 DEF FrameRun
<1> QED
  BY <1>3, <1>4, <1>5 DEF FrameInv, Exact

\* Sequences one behind the other, however they are grouped.
LEMMA Regroup ==
  ASSUME NEW u \in Seq(FrameByte), NEW v \in Seq(FrameByte), NEW x \in Seq(FrameByte)
  PROVE  (u \o v) \o x = u \o (v \o x)
BY ConcatAssociative

\* A part of what is to come goes from the one sequence to the other.
LEMMA CutJoins ==
  ASSUME NEW w \in Seq(FrameByte), NEW h \in Seq(FrameByte), NEW n \in 0 .. Len(h)
  PROVE  /\ SubSeq(h, 1, n) \in Seq(FrameByte) /\ SubSeq(h, n + 1, Len(h)) \in Seq(FrameByte)
         /\ w \o SubSeq(h, 1, n) \in Seq(FrameByte)
         /\ (w \o SubSeq(h, 1, n)) \o SubSeq(h, n + 1, Len(h)) = w \o h
<1>1. Len(h) \in Nat
  BY LenProperties
<1> DEFINE a == SubSeq(h, 1, n)
           b == SubSeq(h, n + 1, Len(h))
<1>2. a \in Seq(FrameByte) /\ b \in Seq(FrameByte)
  BY <1>1
<1>3. a \o b = h
  <2>1. 1 \in 1 .. Len(h) + 1 /\ n \in 1 - 1 .. Len(h) /\ Len(h) \in n .. Len(h)
    BY <1>1
  <2>2. SubSeq(h, 1, n) \o SubSeq(h, n + 1, Len(h)) = SubSeq(h, 1, Len(h))
    BY <2>1, ConcatAdjacentSubSeq
  <2>3. SubSeq(h, 1, Len(h)) = h
    BY SubSeqFull
  <2> QED
    BY <2>2, <2>3
<1> HIDE DEF a, b
<1>4. (w \o a) \o b = w \o (a \o b)
  <2>1. w \in Seq(FrameByte) /\ a \in Seq(FrameByte) /\ b \in Seq(FrameByte)
    BY <1>2
  <2> QED
    BY <2>1, Regroup
<1>5. w \o a \in Seq(FrameByte)
  BY <1>2, ConcatProperties
<1> QED
  BY <1>2, <1>3, <1>4, <1>5 DEF a, b

\* What is left of the first of two sequences, with the second behind it.
LEMMA RestJoins ==
  ASSUME NEW w \in Seq(FrameByte), NEW h \in Seq(FrameByte), NEW n \in 0 .. Len(w)
  PROVE  /\ SubSeq(w, n + 1, Len(w)) \in Seq(FrameByte)
         /\ SubSeq(w, n + 1, Len(w)) \o h = SubSeq(w \o h, n + 1, Len(w \o h))
         /\ n <= Len(w \o h) /\ \A i \in 1 .. n : (w \o h)[i] = w[i]
<1>1. Len(w) \in Nat /\ Len(h) \in Nat
  BY LenProperties
<1> DEFINE a == SubSeq(w, n + 1, Len(w))
           u == w \o h
           c == SubSeq(u, n + 1, Len(u))
<1>2. a \in Seq(FrameByte) /\ Len(a) = Len(w) - n /\ \A i \in 1 .. Len(w) - n : a[i] = w[n + i]
  BY <1>1
<1>3. /\ u \in Seq(FrameByte) /\ Len(u) = Len(w) + Len(h)
      /\ \A i \in 1 .. Len(w) + Len(h) : u[i] = IF i <= Len(w) THEN w[i] ELSE h[i - Len(w)]
  BY ConcatProperties
<1> HIDE DEF a, u
<1>4. c \in Seq(FrameByte) /\ Len(c) = Len(u) - n /\ \A i \in 1 .. Len(u) - n : c[i] = u[n + i]
  BY <1>1, <1>3
<1> HIDE DEF c
<1>5. /\ a \o h \in Seq(FrameByte) /\ Len(a \o h) = Len(a) + Len(h)
      /\ \A i \in 1 .. Len(a) + Len(h) : (a \o h)[i] = IF i <= Len(a) THEN a[i] ELSE h[i - Len(a)]
  BY <1>2, ConcatProperties
<1>6. Len(a \o h) = Len(c)
  BY <1>1, <1>2, <1>3, <1>4, <1>5
<1>7. ASSUME NEW i \in 1 .. Len(c)
      PROVE  (a \o h)[i] = c[i]
  <2>1. /\ i \in 1 .. Len(a) + Len(h) /\ i \in 1 .. Len(u) - n /\ n + i \in 1 .. Len(w) + Len(h)
    BY <1>1, <1>2, <1>3, <1>4
  <2>2. CASE i <= Len(a)
    <3>1. i \in 1 .. Len(w) - n /\ n + i <= Len(w)
      BY <1>1, <1>2, <2>1, <2>2
    <3> QED
      BY <1>2, <1>3, <1>4, <1>5, <2>1, <2>2, <3>1
  <2>3. CASE ~(i <= Len(a))
    <3>1. ~(n + i <= Len(w)) /\ ~(i <= Len(a)) /\ n + i - Len(w) = i - Len(a)
      BY <1>1, <1>2, <2>1, <2>3
    <3>2. c[i] = u[n + i] /\ u[n + i] = h[n + i - Len(w)]
      BY <1>3, <1>4, <2>1, <3>1
    <3>3. (a \o h)[i] = h[i - Len(a)]
      BY <1>5, <2>1, <3>1
    <3> QED
      BY <3>1, <3>2, <3>3
  <2> QED
    BY <2>2, <2>3
<1>8. a \o h = c
  BY <1>4, <1>5, <1>6, <1>7, SeqEqual
<1>9. n <= Len(u) /\ \A i \in 1 .. n : u[i] = w[i]
  BY <1>1, <1>3
<1> QED
  BY <1>2, <1>8, <1>9 DEF a, c, u

\* n bytes of a part are read.
LEMMA ReadsFrom ==
  ASSUME NEW first, NEW t, NEW told, NEW p, ReadsTo(first, t, told, p),
         NEW n \in Nat \ {0}, n <= Len(t), first.pos + n <= first.size
  PROVE  /\ ReadsTo(Further(first, n, t[n]), SubSeq(t, n + 1, Len(t)), told, p)
         /\ \A j \in 1 .. n : Suits(first, j, t[j])
<1>1. PICK r : Runs(r, t, told) /\ r[0] = first /\ r[Len(t)] = p
  BY DEF ReadsTo
<1>2. t \in Seq(FrameByte) /\ told \in Nat /\ Len(t) \in Nat
  BY LenProperties DEF ReadsTo
<1>3. first \in Place /\ first.pos \in Nat /\ first.size \in Nat
  BY ReadEnds, PlaceFields
<1>4. ASSUME NEW j \in 1 .. n
      PROVE  Suits(first, j, t[j]) /\ r[j] = Further(first, j, t[j])
  <2>1. 0 \in 0 .. Len(t) /\ j \in 1 .. Len(t) /\ 0 + j = j /\ j <= Len(t)
        /\ first.pos + j <= first.size
    BY <1>2, <1>3
  <2> QED
    BY <1>1, <2>1 DEF Runs
<1>5. n \in 1 .. n /\ n \in Nat
  OBVIOUS
<1> DEFINE q == PlacesFrom(r, t, n)
           u == SubSeq(t, n + 1, Len(t))
<1>6. Runs(q, u, told) /\ Len(u) = Len(t) - n /\ q[0] = r[n] /\ q[Len(t) - n] = r[Len(t)]
  BY <1>1, <1>2, <1>5, RunFrom
<1>7. u \in Seq(FrameByte)
  BY <1>2
<1> HIDE DEF q, u
<1>8. ReadsTo(Further(first, n, t[n]), u, told, p)
  BY <1>1, <1>2, <1>4, <1>5, <1>6, <1>7 DEF ReadsTo
<1> QED
  BY <1>4, <1>8 DEF u

(***************************************************************************)
(* The senders' steps.                                                     *)
(***************************************************************************)
LEMMA ReaderStays ==
  ASSUME UNCHANGED W!reader, agreed
  PROVE  /\ Now' = Now /\ (ReaderTypes => ReaderTypes') /\ (W!InOrder => W!InOrder')
<1>1. UNCHANGED <<status, cur_pos, cur_size, has_mask, data_len, received, aligned, in_step>>
  BY DEF W!reader
<1>2. Now' = Now
  BY <1>1 DEF Now
<1>3. ReaderTypes => ReaderTypes'
  BY <1>1 DEF ReaderTypes
<1>4. W!InOrder => W!InOrder'
  BY <1>1 DEF W!InOrder
<1> QED
  BY <1>2, <1>3, <1>4

\* More to be sent changes nothing of it.
LEMMA OfferKeeps ==
  ASSUME Exact, agreed, agreed', W!Offer
  PROVE  Exact'
<1>1. /\ ~browser /\ offered < MaxData /\ offered' = offered + 1
      /\ UNCHANGED <<browser, sent, announced, header, wire>> /\ UNCHANGED W!reader
  BY DEF W!Offer
<1>2. SenderTypes'
  BY <1>1, FrameConstants DEF Exact, SenderTypes
<1>3. FrameRun'
  BY <1>1, ReaderStays DEF Exact, FrameRun, Ending
<1> QED
  BY <1>1, <1>2, <1>3, ReaderStays DEF Exact

\* A header, or what is left of one.
LEMMA WriteHeader ==
  ASSUME Exact, agreed, NEW size \in 1 .. offered - sent, NEW head, NEW n \in 0 .. Len(head),
         announced = 0 => W!Heard(size) = size,
         announced = 0 \/ header # <<>>, ~browser,
         head = IF announced = 0 THEN W!Header(size, 0) ELSE header,
         wire' = wire \o SubSeq(head, 1, n), header' = W!Rest(head, n),
         announced' = IF announced = 0 THEN size ELSE announced,
         UNCHANGED <<browser, offered, sent>>, UNCHANGED W!reader
  PROVE  Exact'
<1>0. SenderTypes /\ ReaderTypes /\ FrameRun /\ W!InOrder
  BY DEF Exact
<1>1. /\ offered \in 0 .. MaxData /\ sent \in 0 .. offered /\ announced \in Nat
      /\ wire \in Seq(FrameByte) /\ header \in Seq(FrameByte) /\ MaxData \in Nat
      /\ size \in 0 .. MaxData /\ size # 0 /\ 0 \in {0, 1}
  BY <1>0, FrameConstants DEF SenderTypes
<1>2. PICK p : ReadsTo(Now, wire \o header, sent, p) /\ Ending(p, announced, sent)
  BY <1>0 DEF FrameRun
<1>3. ASSUME head \in Seq(FrameByte), NEW q, ReadsTo(Now, wire \o head, sent, q), Ending(q, announced', sent')
      PROVE  Exact'
  <2>1. header' = SubSeq(head, n + 1, Len(head))
    BY DEF W!Rest
  <2>2. /\ header' \in Seq(FrameByte) /\ wire' \in Seq(FrameByte)
        /\ wire' \o header' = wire \o head
    <3>1. /\ SubSeq(head, n + 1, Len(head)) \in Seq(FrameByte)
          /\ wire \o SubSeq(head, 1, n) \in Seq(FrameByte)
          /\ (wire \o SubSeq(head, 1, n)) \o SubSeq(head, n + 1, Len(head)) = wire \o head
      BY <1>1, <1>3, CutJoins
    <3> QED
      BY <2>1, <3>1
  <2>3. announced' # 0 /\ announced' \in Nat /\ announced' <= offered - sent
    BY <1>0, <1>1 DEF SenderTypes
  <2>4. SenderTypes'
    BY <1>0, <2>2, <2>3 DEF SenderTypes
  <2>5. FrameRun'
    BY <1>3, <2>2, ReaderStays DEF FrameRun
  <2> QED
    BY <1>0, <2>4, <2>5, ReaderStays DEF Exact
<1>4. CASE announced = 0
  <2>1. p = Begin(sent) /\ header = <<>> /\ head = W!Header(size, 0) /\ announced' = size
    BY <1>0, <1>2, <1>4 DEF Ending, SenderTypes
  <2>2. wire \o header = wire
    BY <1>1, <2>1, ConcatEmptySeq
  <2>3. ReadsTo(Now, wire, sent, Begin(sent))
    BY <1>2, <2>1, <2>2
  <2>4. /\ head \in Seq(FrameByte)
        /\ ReadsTo(Now, wire \o head, sent, Sized(size, 0 = 1, sent))
    BY <1>1, <1>4, <2>1, <2>3, HeaderOn
  <2> DEFINE q == Sized(size, 0 = 1, sent)
  <2>5. q = At("data", 0, size, FALSE, 0, sent)
    BY <1>1 DEF Sized, InData
  <2>6. Ending(q, announced', sent')
    <3>1. q.part = "data" /\ q.mask = FALSE /\ q.nr = sent /\ q.size - q.pos = size
      BY <1>1, <2>5 DEF At
    <3> HIDE DEF q
    <3> QED
      BY <1>1, <2>1, <3>1 DEF Ending
  <2> QED
    BY <1>3, <2>4, <2>6
<1>5. CASE announced # 0
  <2>1. head = header /\ announced' = announced
    BY <1>5
  <2>2. Ending(p, announced', sent')
    BY <1>2, <1>5, <2>1 DEF Ending
  <2> QED
    BY <1>1, <1>2, <1>3, <2>1, <2>2
<1> QED
  BY <1>4, <1>5

\* A piece of data is written.
LEMMA WriteData ==
  ASSUME Exact, agreed, NEW size \in 1 .. offered - sent, NEW n \in 1 .. W!AsAnnounced(size),
         announced # 0, header = <<>>, ~browser,
         wire' = wire \o [i \in 1 .. n |-> <<"data", sent + i, -1>>],
         sent' = sent + n, announced' = announced - n,
         UNCHANGED <<browser, offered, header>>, UNCHANGED W!reader
  PROVE  Exact'
<1>0. SenderTypes /\ ReaderTypes /\ FrameRun /\ W!InOrder
  BY DEF Exact
<1>1. /\ offered \in 0 .. MaxData /\ sent \in 0 .. offered /\ announced \in Nat
      /\ wire \in Seq(FrameByte) /\ header \in Seq(FrameByte) /\ MaxData \in Nat
      /\ announced <= offered - sent
  BY <1>0, FrameConstants DEF SenderTypes
<1>2. n \in Nat \ {0} /\ n <= size /\ n <= announced
  BY <1>1 DEF W!AsAnnounced, W!Min2
<1>3. PICK p : ReadsTo(Now, wire \o header, sent, p) /\ Ending(p, announced, sent)
  BY <1>0 DEF FrameRun
<1>4. ReadsTo(Now, wire, sent, p)
  <2>1. wire \o header = wire
    BY <1>1, ConcatEmptySeq
  <2> QED
    BY <1>3, <2>1
<1>5. p \in Place /\ p.pos \in Nat /\ p.size \in Nat /\ p.part = "data" /\ p.mask = FALSE
      /\ p.nr = sent /\ p.size - p.pos = announced
  <2>1. p.part = "data" /\ p.mask = FALSE /\ p.nr = sent /\ p.size - p.pos = announced
    BY <1>3 DEF Ending
  <2> QED
    BY <1>4, <2>1, ReadEnds, PlaceFields
<1> DEFINE s == [i \in 1 .. n |-> <<"data", sent + i, -1>>]
           q == IF p.pos + n < p.size THEN Inside(p, n) ELSE Begin(sent + n)
<1>6. /\ s \in Seq(FrameByte) /\ Len(s) = n
      /\ \A i \in 1 .. n : s[i][1] = "data" /\ s[i][2] = sent + i /\ s[i][3] = -1
  <2>1. \A i \in 1 .. n : <<"data", sent + i, -1>> \in FrameByte
    BY <1>1, <1>2 DEF FrameByte, Parts
  <2> QED
    BY <1>2, <2>1
<1>7. wire' = wire \o s
  OBVIOUS
<1> HIDE DEF s
<1>8. ReadsTo(Now, wire \o s, sent + n, q)
  <2>1. p.pos + n <= p.size
    BY <1>1, <1>2, <1>5
  <2>2. \A i \in 1 .. n : /\ s[i][1] = "data" /\ s[i][2] = sent + i
                          /\ s[i][3] = IF p.mask THEN (p.pos + i - 1) % mask_size ELSE -1
    BY <1>5, <1>6
  <2> QED
    BY <1>2, <1>4, <1>5, <1>6, <2>1, <2>2, DataOn
<1>9. Ending(q, announced', sent')
  <2>1. CASE announced = n
    <3>1. q = Begin(sent + n) /\ announced' = 0
      BY <1>1, <1>2, <1>5, <2>1
    <3> QED
      BY <3>1 DEF Ending
  <2>2. CASE announced # n
    <3>1. p.pos + n < p.size /\ n \in Nat /\ announced - n # 0
      BY <1>1, <1>2, <1>5, <2>2
    <3>2. q = Inside(p, n)
      BY <3>1
    <3>3. q.part = "data" /\ q.pos = p.pos + n /\ q.size = p.size /\ q.mask = FALSE /\ q.nr = sent + n
      BY <1>5, <3>1, <3>2, InsideFields
    <3> HIDE DEF q
    <3>4. q.size - q.pos = announced - n
      BY <1>1, <1>2, <1>5, <3>3, SMTT(60)
    <3> QED
      BY <3>1, <3>3, <3>4 DEF Ending
  <2> QED
    BY <2>1, <2>2
<1> HIDE DEF q
<1>10. wire' \in Seq(FrameByte) /\ wire' \o header' = wire \o s
  <2>1. wire' \in Seq(FrameByte)
    BY <1>1, <1>6, <1>7, ConcatProperties, ZenonT(60)
  <2>2. wire' \o <<>> = wire'
    BY <2>1, ConcatEmptySeq
  <2> QED
    BY <1>7, <2>1, <2>2
<1>11. SenderTypes'
  <2>1. /\ sent + n \in 0 .. offered /\ announced - n \in Nat
        /\ announced - n <= offered - (sent + n)
    BY <1>1, <1>2
  <2> QED
    BY <1>0, <1>10, <2>1 DEF SenderTypes
<1>12. FrameRun'
  BY <1>8, <1>9, <1>10, ReaderStays DEF FrameRun
<1> QED
  BY <1>0, <1>11, <1>12, ReaderStays DEF Exact

\* Every write of the server keeps the invariant.
LEMMA WriteKeeps ==
  ASSUME Exact, agreed, agreed', NEW size, W!write(size)
  PROVE  Exact'
<1>1. /\ ~browser /\ size \in 1 .. offered - sent /\ UNCHANGED <<browser, offered>>
      /\ UNCHANGED W!reader
  BY DEF W!write
<1>2. CASE announced = 0 \/ header # <<>>
  <2> DEFINE head == IF announced = 0 THEN W!Header(size, 0) ELSE header
  <2>1. PICK n \in 0 .. Len(head) :
          /\ wire' = wire \o SubSeq(head, 1, n) /\ header' = W!Rest(head, n)
          /\ announced' = (IF announced = 0 THEN size ELSE announced)
          /\ agreed' = (agreed /\ (announced = 0 => W!Heard(size) = size))
          /\ UNCHANGED sent
    BY <1>2 DEF W!write
  <2> QED
    BY <1>1, <1>2, <2>1, WriteHeader
<1>3. CASE ~(announced = 0 \/ header # <<>>)
  <2>1. PICK n \in 0 .. W!AsAnnounced(size) :
          /\ wire' = wire \o [i \in 1 .. n |-> <<"data", sent + i, -1>>]
          /\ sent' = sent + n /\ announced' = announced - W!Returned(n) /\ UNCHANGED header
          /\ agreed' = (agreed /\ n # 0)
    BY <1>3 DEF W!write
  <2>2. n # 0
    BY <2>1, Zenon
  <2>3. offered \in Nat /\ sent \in Nat /\ announced \in Nat
    BY FrameConstants DEF Exact, SenderTypes
  <2>4. n \in 1 .. W!AsAnnounced(size) /\ announced' = announced - n
    BY <1>1, <2>1, <2>2, <2>3 DEF W!Returned, W!AsAnnounced, W!Min2
  <2> QED
    BY <1>1, <1>3, <2>1, <2>4, WriteData
<1> QED
  BY <1>2, <1>3

\* A masked frame of a browser keeps it.
LEMMA BrowserKeeps ==
  ASSUME Exact, agreed, agreed', NEW size \in FrameSizes, W!BrowserSends(size)
  PROVE  Exact'
<1>0. SenderTypes /\ ReaderTypes /\ FrameRun /\ W!InOrder
  BY DEF Exact
<1> DEFINE h == W!Header(size, 1)
           m == W!Bytes("mask", 0, 0)
           s == [i \in 1 .. size |-> <<"data", sent + i, (i - 1) % mask_size>>]
<1>1. /\ browser /\ sent + size <= MaxData /\ offered' = offered + size /\ sent' = sent + size
      /\ wire' = ((wire \o h) \o m) \o s /\ W!Heard(size) = size
      /\ UNCHANGED <<browser, announced, header>> /\ UNCHANGED W!reader
  BY DEF W!BrowserSends
<1>2. /\ offered \in 0 .. MaxData /\ sent = offered /\ announced = 0 /\ header = <<>>
      /\ wire \in Seq(FrameByte) /\ MaxData \in Nat /\ size \in 0 .. MaxData
      /\ mask_size \in Nat \ {0} /\ sent \in Nat
  BY <1>0, <1>1, FrameConstants DEF SenderTypes
<1>3. ReadsTo(Now, wire, sent, Begin(sent))
  <2>1. PICK p : ReadsTo(Now, wire \o header, sent, p) /\ Ending(p, announced, sent)
    BY <1>0 DEF FrameRun
  <2>2. wire \o header = wire /\ p = Begin(sent)
    BY <1>2, <2>1, ConcatEmptySeq DEF Ending
  <2> QED
    BY <2>1, <2>2
<1>4. ReadsTo(Now, wire \o h, sent, Sized(size, TRUE, sent))
  <2>1. ReadsTo(Now, wire \o h, sent, Sized(size, 1 = 1, sent))
    <3>1. 1 \in {0, 1}
      OBVIOUS
    <3> QED
      BY <1>1, <1>2, <1>3, <3>1, HeaderOn
  <2>2. (1 = 1) = TRUE
    OBVIOUS
  <2> QED
    BY <2>1, <2>2
<1>5. s = [i \in 1 .. size |-> <<"data", sent + i, (i - 1) % mask_size>>]
  OBVIOUS
<1> DEFINE p == Sized(size, TRUE, sent)
           q == InData(size, TRUE, sent)
<1>6. /\ p.part = "mask" /\ p.pos = 0 /\ p.len = size /\ p.nr = sent
  BY DEF Sized, At
<1> HIDE DEF h, m, s, p
<1>7. ReadsTo(Now, (wire \o h) \o m, sent, q)
  <2>1. q \in Place /\ Sound(q, sent) /\ "mask" \in {"header", "len_2", "len_8", "mask"} /\ 0 \in Int
    <3>1. sent \in Nat /\ sent \in 0 .. sent /\ size \in 0 .. MaxData /\ TRUE \in BOOLEAN
      BY <1>2
    <3> HIDE DEF q
    <3>2. q \in Place /\ Sound(q, sent)
      BY <3>1, PlainPlaces DEF q
    <3> QED
      BY <3>2
  <2>2. q = Behind(p, W!Size["mask"], <<"mask", 0, 0>>)
    BY <1>6 DEF Behind
  <2>3. ReadsTo(Now, wire \o h, sent, p)
    BY <1>4 DEF p
  <2> HIDE DEF q
  <2> QED
    BY <1>6, <2>1, <2>2, <2>3, PartOn DEF m
<1> DEFINE u == (wire \o h) \o m
<1>8. u \in Seq(FrameByte)
  BY <1>7 DEF ReadsTo
<1>9. ReadsTo(Now, wire', sent + size, Begin(sent + size))
  <2>1. CASE size = 0
    <3>1. s = <<>>
      BY <1>5, <2>1
    <3>2. wire' = u
      BY <1>1, <1>8, <3>1, ConcatEmptySeq
    <3>3. q = Begin(sent) /\ sent + size = sent
      BY <1>2, <2>1 DEF InData
    <3> QED
      BY <1>7, <3>2, <3>3
  <2>2. CASE size # 0
    <3>1. /\ q.part = "data" /\ q.nr = sent /\ q.pos = 0 /\ q.size = size /\ q.mask = TRUE
      BY <2>2 DEF InData, At
    <3> HIDE DEF q, u
    <3>2. /\ s \in Seq(FrameByte) /\ Len(s) = size
          /\ \A i \in 1 .. size :
               s[i][1] = "data" /\ s[i][2] = sent + i /\ s[i][3] = (i - 1) % mask_size
      <4>1. \A i \in 1 .. size : <<"data", sent + i, (i - 1) % mask_size>> \in FrameByte
        <5>1. \A i \in 1 .. size : sent + i \in Nat /\ (i - 1) % mask_size \in Int
          BY <1>2
        <5> QED
          BY <5>1 DEF FrameByte, Parts
      <4>2. s \in [1 .. size -> FrameByte]
        BY <1>5, <4>1, Zenon
      <4>3. size \in Nat
        BY <1>2
      <4>4. s \in Seq(FrameByte) /\ Len(s) = size
        BY <4>2, <4>3
      <4>5. ASSUME NEW i \in 1 .. size
            PROVE  s[i] = <<"data", sent + i, (i - 1) % mask_size>>
        BY <1>5, Zenon
      <4> QED
        BY <4>4, <4>5
    <3>3. /\ size \in Nat \ {0} /\ q.pos + size <= q.size /\ ~(q.pos + size < q.size)
          /\ \A i \in 1 .. size : q.pos + i - 1 = i - 1
      BY <1>2, <2>2, <3>1
    <3>4. \A i \in 1 .. size : /\ s[i][1] = "data" /\ s[i][2] = sent + i
                               /\ s[i][3] = IF q.mask THEN (q.pos + i - 1) % mask_size ELSE -1
      BY <3>1, <3>2, <3>3
    <3>5. ReadsTo(Now, u, sent, q)
      BY <1>7 DEF u
    <3>6. ReadsTo(Now, u \o s, sent + size,
                  IF q.pos + size < q.size THEN Inside(q, size) ELSE Begin(sent + size))
      BY <3>1, <3>2, <3>3, <3>4, <3>5, DataOn
    <3> QED
      BY <1>1, <3>3, <3>6 DEF u
  <2> QED
    BY <2>1, <2>2
<1>10. wire' \in Seq(FrameByte) /\ wire' \o header' = wire'
  <2>1. wire' \in Seq(FrameByte)
    BY <1>9 DEF ReadsTo
  <2> QED
    BY <1>1, <1>2, <2>1, ConcatEmptySeq
<1>11. SenderTypes'
  BY <1>0, <1>1, <1>2, <1>10 DEF SenderTypes
<1>12. FrameRun'
  <2>1. Ending(Begin(sent + size), announced', sent')
    BY <1>1, <1>2 DEF Ending
  <2> QED
    BY <1>1, <1>9, <1>10, <2>1, ReaderStays DEF FrameRun
<1> QED
  BY <1>0, <1>1, <1>11, <1>12, ReaderStays DEF Exact

(***************************************************************************)
(* The reader's steps.                                                     *)
(***************************************************************************)
\* A read that begins at a multiple of mask_size counts the mask as the sender did.
LEMMA SameKey ==
  ASSUME NEW m \in Nat \ {0}, NEW at \in Nat, at % m = 0, NEW k \in Nat
  PROVE  (at + k) % m = k % m
<1> DEFINE a == at \div m
           b == k \div m
           c == (at + k) \div m
           x == k % m
           y == (at + k) % m
<1>1. at = m * a /\ a \in Int
  OBVIOUS
<1>2. k = m * b + x /\ b \in Int /\ x \in 0 .. m - 1
  OBVIOUS
<1>3. at + k = m * c + y /\ c \in Int /\ y \in 0 .. m - 1
  OBVIOUS
<1> HIDE DEF a, b, c, x, y
<1> DEFINE d == c - a - b
<1>4. d \in Int /\ x - y = m * d
  BY <1>1, <1>2, <1>3
<1> HIDE DEF d
<1>5. CASE d >= 1
  <2>1. m * d >= m
    BY <1>4, <1>5
  <2> QED
    BY <1>2, <1>3, <1>4, <2>1
<1>6. CASE d <= -1
  <2>1. m * d <= -m
    BY <1>4, <1>6
  <2> QED
    BY <1>2, <1>3, <1>4, <2>1
<1>7. CASE d = 0
  <2>1. x = y
    BY <1>2, <1>3, <1>4, <1>7
  <2> QED
    BY <2>1 DEF x, y
<1> QED
  BY <1>4, <1>5, <1>6, <1>7

\* One that does not counts it otherwise.
LEMMA OtherKey ==
  ASSUME NEW m \in Nat \ {0}, NEW at \in Nat, at % m # 0, NEW k \in Nat
  PROVE  (at + k) % m # k % m
<1> SUFFICES ASSUME (at + k) % m = k % m
             PROVE  FALSE
  OBVIOUS
<1> DEFINE a == at \div m
           b == k \div m
           c == (at + k) \div m
           x == k % m
           z == at % m
<1>1. at = m * a + z /\ a \in Int /\ z \in 1 .. m - 1
  OBVIOUS
<1>2. k = m * b + x /\ b \in Int /\ x \in 0 .. m - 1
  OBVIOUS
<1>3. at + k = m * c + x /\ c \in Int
  OBVIOUS
<1> HIDE DEF a, b, c, x, z
<1> DEFINE d == c - a - b
<1>4. d \in Int /\ z = m * d
  BY <1>1, <1>2, <1>3
<1> HIDE DEF d
<1>5. CASE d >= 1
  <2>1. m * d >= m
    BY <1>4, <1>5
  <2> QED
    BY <1>1, <1>4, <2>1
<1>6. CASE d <= 0
  <2>1. m * d <= 0
    BY <1>4, <1>6
  <2> QED
    BY <1>1, <1>4, <2>1
<1> QED
  BY <1>4, <1>5, <1>6

\* What PartDone makes of the reader is where one is behind the part.
LEMMA PartDoneIs ==
  ASSUME ReaderTypes, status # "data", NEW n, NEW byte \in FrameByte, W!PartDone(byte),
         UNCHANGED <<received, aligned, in_step>>, NEW told \in Nat,
         Behind(Now, n, byte) \in Place, Sound(Behind(Now, n, byte), told)
  PROVE  Now' = Behind(Now, n, byte) /\ ReaderTypes'
<1> DEFINE q == Behind(Now, n, byte)
           nr == Len(received)
<1>0. /\ header_size \in Nat \ {0} /\ len_2_size \in Nat \ {0} /\ len_8_size \in Nat \ {0}
      /\ mask_size \in Nat \ {0} /\ MaxData \in Nat /\ short \in Nat \ {0}
      /\ W!Size["header"] = header_size /\ W!Size["len_2"] = len_2_size
      /\ W!Size["len_8"] = len_8_size /\ W!Size["mask"] = mask_size
  BY FrameConstants
<1>1. /\ has_mask \in BOOLEAN /\ received \in Seq(Int) /\ in_step = TRUE
      /\ aligned \in Seq(BOOLEAN) /\ Len(aligned) = Len(received)
      /\ status \in {"header", "len_2", "len_8", "mask"} /\ cur_pos < cur_size
      /\ cur_pos \in Nat /\ cur_size \in Nat
      /\ data_len \in 0 .. MaxData /\ (status = "mask" => has_mask)
  BY DEF ReaderTypes, Parts
<1>2. byte[2] \in Int /\ byte[3] \in Int
  BY DEF FrameByte
<1>3. /\ q.size \in Nat /\ q.pos < q.size /\ q.len \in Nat /\ q.len <= MaxData
      /\ q.part = "data" => q.size <= MaxData
  BY PlaceFields DEF Sound
<1>4. Now.part = status /\ Now.nr = nr
      /\ (status # "header" => Now.mask = has_mask) /\ (status = "mask" => Now.len = data_len)
  <2>1. CASE status = "header"
    BY <2>1 DEF Now, At
  <2>2. CASE status # "header"
    <3>1. Now = At(status, cur_pos, cur_size, has_mask, IF status = "mask" THEN data_len ELSE 0, nr)
      BY <1>1, <2>2 DEF Now
    <3>2. /\ Now.part = status /\ Now.mask = has_mask /\ Now.nr = nr
          /\ Now.len = IF status = "mask" THEN data_len ELSE 0
      BY <3>1, Zenon DEF At
    <3> QED
      BY <2>2, <3>2
  <2> QED
    BY <2>1, <2>2
<1> HIDE DEF nr, q
<1> SUFFICES Now' = q /\ ReaderTypes'
  BY DEF q
\* Each of the parts that can come.
<1>5. ASSUME NEW to \in {"len_2", "len_8"}, status' = to, cur_size' = W!Size[to], cur_pos' = 0,
             has_mask' \in BOOLEAN, data_len' = data_len,
             q = At(to, 0, W!Size[to], has_mask', 0, nr)
      PROVE  Now' = q /\ ReaderTypes'
  <2>1. cur_size' \in Nat \ {0} /\ to \in Parts /\ to # "data" /\ to # "mask" /\ to # "header"
    BY <1>0, <1>5 DEF Parts
  <2>2. Now' = q
    BY <1>5, <2>1 DEF Now, nr
  <2>3. ReaderTypes'
    BY <1>1, <1>5, <2>1 DEF ReaderTypes
  <2> QED
    BY <2>2, <2>3
<1>6. ASSUME NEW size \in Int, status' = "mask", cur_size' = mask_size, cur_pos' = 0,
             has_mask' = TRUE, data_len' = size, q = At("mask", 0, mask_size, TRUE, size, nr)
      PROVE  Now' = q /\ ReaderTypes'
  <2>1. cur_size' \in Nat \ {0} /\ "mask" \in Parts
    BY <1>0, <1>6 DEF Parts
  <2>2. Now' = q
    BY <1>6, <2>1 DEF Now, nr
  <2>3. size \in 0 .. MaxData
    <3>1. q.len = size
      BY <1>6 DEF At
    <3> QED
      BY <1>0, <1>3, <3>1
  <2>4. ReaderTypes'
    BY <1>0, <1>1, <1>6, <2>1, <2>3 DEF ReaderTypes
  <2> QED
    BY <2>2, <2>4
<1>7. ASSUME NEW size \in Int, status' = "data", cur_size' = size, cur_pos' = 0,
             has_mask' \in BOOLEAN, data_len' = size, q = InData(size, has_mask', nr)
      PROVE  Now' = q /\ ReaderTypes'
  <2>1. Now' = q
    BY <1>7 DEF Now, InData, nr
  <2>2. size \in 0 .. MaxData
    <3>1. CASE size = 0
      BY <1>0, <3>1
    <3>2. CASE size # 0
      <4>1. q.part = "data" /\ q.size = size
        BY <1>7, <3>2 DEF InData, At
      <4> QED
        BY <1>0, <1>3, <4>1
    <3> QED
      BY <3>1, <3>2
  <2>3. "data" \in Parts
    BY DEF Parts
  <2>4. ReaderTypes'
    BY <1>0, <1>1, <1>7, <2>2, <2>3 DEF ReaderTypes
  <2> QED
    BY <2>1, <2>4
<1>8. ASSUME NEW size \in Int, NEW mask \in BOOLEAN, q = Sized(size, mask, nr),
             cur_pos' = 0, has_mask' = mask, data_len' = size,
             IF mask THEN status' = "mask" /\ cur_size' = mask_size
                     ELSE status' = "data" /\ cur_size' = size
      PROVE  Now' = q /\ ReaderTypes'
  <2>1. CASE mask
    <3>1. q = At("mask", 0, mask_size, TRUE, size, nr) /\ mask = TRUE
      BY <1>8, <2>1 DEF Sized
    <3> QED
      BY <1>6, <1>8, <2>1, <3>1
  <2>2. CASE ~mask
    <3>1. q = InData(size, FALSE, nr) /\ mask = FALSE
      BY <1>8, <2>2 DEF Sized
    <3>2. has_mask' = FALSE /\ has_mask' \in BOOLEAN
      BY <1>8, <3>1
    <3>3. q = InData(size, has_mask', nr)
      BY <3>1, <3>2
    <3> QED
      BY <1>7, <1>8, <2>2, <3>2, <3>3
  <2> QED
    BY <2>1, <2>2
<1>9. CASE status = "header"
  <2> DEFINE mask == byte[3] = 1
  <2>1. mask \in BOOLEAN
    OBVIOUS
  <2>2. CASE byte[2] = short \/ byte[2] > short
    <3> DEFINE to == IF byte[2] = short THEN "len_2" ELSE "len_8"
    <3>1. /\ status' = to /\ cur_size' = W!Size[to] /\ cur_pos' = 0
          /\ has_mask' = mask /\ data_len' = data_len
      BY <1>9, <2>2 DEF W!PartDone, W!Expects
    <3>2. q = At(to, 0, W!Size[to], mask, 0, nr)
      BY <1>0, <1>4, <1>9, <2>2 DEF Behind, q
    <3>3. to \in {"len_2", "len_8"}
      OBVIOUS
    <3> HIDE DEF to, mask
    <3> QED
      BY <1>5, <2>1, <3>1, <3>2, <3>3
  <2>3. CASE ~(byte[2] = short \/ byte[2] > short)
    <3>1. /\ cur_pos' = 0 /\ has_mask' = mask /\ data_len' = byte[2]
          /\ IF mask THEN status' = "mask" /\ cur_size' = W!Size["mask"]
                     ELSE status' = "data" /\ cur_size' = byte[2]
      BY <1>9, <2>3 DEF W!PartDone, W!Expects
    <3>2. q = Sized(byte[2], mask, nr)
      BY <1>4, <1>9, <2>3 DEF Behind, q
    <3> HIDE DEF mask
    <3> QED
      BY <1>0, <1>2, <1>8, <2>1, <3>1, <3>2
  <2> QED
    BY <2>2, <2>3
<1>10. CASE status \in {"len_2", "len_8"}
  <2>1. /\ cur_pos' = 0 /\ has_mask' = has_mask /\ data_len' = byte[2]
        /\ IF has_mask THEN status' = "mask" /\ cur_size' = W!Size["mask"]
                       ELSE status' = "data" /\ cur_size' = byte[2]
    BY <1>10 DEF W!PartDone, W!Expects
  <2>2. q = Sized(byte[2], has_mask, nr)
    BY <1>4, <1>10 DEF Behind, q
  <2> QED
    BY <1>0, <1>1, <1>2, <1>8, <2>1, <2>2
<1>11. CASE status = "mask"
  <2>1. has_mask = TRUE
    BY <1>1, <1>11
  <2>2. /\ cur_pos' = 0 /\ has_mask' = has_mask /\ data_len' = data_len
        /\ status' = "data" /\ cur_size' = data_len
    BY <1>11 DEF W!PartDone, W!Expects
  <2>3. q = InData(data_len, has_mask', nr)
    BY <1>4, <1>11, <2>1, <2>2 DEF Behind, q
  <2> QED
    BY <1>1, <1>7, <2>2, <2>3
<1> QED
  BY <1>1, <1>9, <1>10, <1>11

\* A read of a header, a length or a mask keeps it.
LEMMA ReadPartKeeps ==
  ASSUME Exact, agreed, NEW n, W!ReadPart(n)
  PROVE  Exact'
<1>0. SenderTypes /\ ReaderTypes /\ FrameRun /\ W!InOrder
  BY DEF Exact
<1>1. /\ status # "data" /\ n \in 1 .. W!Min2(cur_size - cur_pos, Len(wire))
      /\ wire' = SubSeq(wire, n + 1, Len(wire))
      /\ in_step' = W!StaysInStep(n)
      /\ UNCHANGED <<browser, received, aligned>> /\ UNCHANGED W!writer
      /\ IF cur_pos + n = cur_size THEN \E byte \in W!TakenFor(wire[n]) : W!PartDone(byte)
         ELSE cur_pos' = cur_pos + n /\ UNCHANGED <<status, cur_size, has_mask, data_len>>
  BY DEF W!ReadPart, W!Rest
<1>2. /\ wire \in Seq(FrameByte) /\ header \in Seq(FrameByte) /\ Len(wire) \in Nat
      /\ cur_pos \in Nat /\ cur_size \in Nat /\ cur_pos < cur_size /\ sent \in Nat
      /\ status \in {"header", "len_2", "len_8", "mask"}
      /\ UNCHANGED <<offered, sent, announced, header, agreed>>
  BY <1>0, <1>1, LenProperties DEF SenderTypes, ReaderTypes, Parts, W!writer
<1>3. /\ n \in Nat \ {0} /\ n \in 0 .. Len(wire) /\ cur_pos + n <= cur_size
      /\ n \in 1 .. n /\ n \in 1 .. Len(wire)
  BY <1>1, <1>2 DEF W!Min2
<1> DEFINE t == wire \o header
<1>4. /\ wire' \in Seq(FrameByte) /\ wire' \o header = SubSeq(t, n + 1, Len(t))
      /\ n <= Len(t) /\ t[n] = wire[n] /\ \A i \in 1 .. n : t[i] = wire[i]
  BY <1>1, <1>2, <1>3, RestJoins
<1>5. PICK p : ReadsTo(Now, t, sent, p) /\ Ending(p, announced, sent)
  BY <1>0 DEF FrameRun
<1>6. Now.part = status /\ Now.pos = cur_pos /\ Now.size = cur_size
  <2>1. CASE status = "header"
    <3>1. cur_size = header_size
      BY <1>0, <1>1, <2>1, FrameConstants DEF ReaderTypes
    <3> QED
      BY <2>1, <3>1 DEF Now, At
  <2>2. CASE status # "header"
    <3>1. Now = At(status, cur_pos, cur_size, has_mask, IF status = "mask" THEN data_len ELSE 0,
                   Len(received))
      BY <1>2, <2>2 DEF Now
    <3> QED
      BY <3>1, Zenon DEF At
  <2> QED
    BY <2>1, <2>2
<1> HIDE DEF t
<1> DEFINE q == Further(Now, n, wire[n])
<1>7. ReadsTo(q, wire' \o header, sent, p) /\ in_step' = TRUE
  <2>1. Now.pos + n <= Now.size
    BY <1>3, <1>6
  <2>2. /\ ReadsTo(Further(Now, n, t[n]), SubSeq(t, n + 1, Len(t)), sent, p)
        /\ \A j \in 1 .. n : Suits(Now, j, t[j])
    BY <1>3, <1>4, <1>5, <2>1, ReadsFrom
  <2>3. W!StaysInStep(n)
    BY <1>0, <1>4, <1>6, <2>2 DEF W!StaysInStep, Suits, ReaderTypes
  <2> QED
    BY <1>1, <1>4, <2>2, <2>3
<1>8. q \in Place /\ Sound(q, sent)
  BY <1>7, ReadEnds
<1>9. Now' = q /\ ReaderTypes'
  <2>1. CASE cur_pos + n = cur_size
    <3>1. q = Behind(Now, n, wire[n])
      BY <1>6, <2>1, <1>2, <1>3 DEF Further
    <3>2. W!PartDone(wire[n]) /\ wire[n] \in FrameByte /\ UNCHANGED in_step
      BY <1>0, <1>1, <1>2, <1>3, <1>7, <2>1 DEF W!TakenFor, ReaderTypes
    <3> HIDE DEF q
    <3> QED
      BY <1>0, <1>1, <1>2, <1>8, <3>1, <3>2, PartDoneIs
  <2>2. CASE cur_pos + n # cur_size
    <3>1. cur_pos' = cur_pos + n /\ UNCHANGED <<status, cur_size, has_mask, data_len>>
      BY <1>1, <2>2
    <3>2. cur_pos + n < cur_size /\ cur_pos + n \in Nat
      BY <1>2, <1>3, <2>2
    <3>3. q = Inside(Now, n)
      BY <1>6, <3>2 DEF Further
    <3>4. Inside(Now, n) = Now'
      <4>1. CASE status = "header"
        <5>1. cur_size = header_size /\ status' = "header"
          BY <1>0, <1>1, <3>1, <4>1, FrameConstants DEF ReaderTypes
        <5> QED
          BY <1>1, <3>1, <4>1, <5>1 DEF Now, Inside, At
      <4>2. CASE status # "header"
        <5> DEFINE len == IF status = "mask" THEN data_len ELSE 0
                   nr == Len(received)
        <5>1. Now = At(status, cur_pos, cur_size, has_mask, len, nr)
          BY <1>2, <4>2 DEF Now
        <5>2. Now' = At(status, cur_pos + n, cur_size, has_mask, len, nr)
          BY <1>1, <3>1, <3>2, <4>2 DEF Now
        <5> HIDE DEF len, nr
        <5>3. /\ Now.part = status /\ Now.pos = cur_pos /\ Now.size = cur_size
              /\ Now.mask = has_mask /\ Now.len = len /\ Now.nr = nr
          BY <5>1, Zenon DEF At
        <5>4. Inside(Now, n) = At(status, cur_pos + n, cur_size, has_mask, len, nr)
          BY <1>1, <5>3, Zenon DEF Inside
        <5> QED
          BY <5>2, <5>4
      <4> QED
        BY <4>1, <4>2
    <3>5. ReaderTypes'
      BY <1>0, <1>1, <1>7, <3>1, <3>2 DEF ReaderTypes
    <3> QED
      BY <3>3, <3>4, <3>5
  <2> QED
    BY <2>1, <2>2
<1> HIDE DEF q
<1>10. SenderTypes'
  BY <1>0, <1>1, <1>2, <1>4 DEF SenderTypes
<1>11. FrameRun'
  BY <1>2, <1>5, <1>7, <1>9 DEF FrameRun
<1>12. W!InOrder'
  BY <1>0, <1>1, <1>2 DEF W!InOrder
<1> QED
  BY <1>9, <1>10, <1>11, <1>12 DEF Exact

\* A frame without data is over when it is read of.
LEMMA ReadNone ==
  ASSUME Exact, agreed, W!ReadData(0)
  PROVE  Exact'
<1>0. SenderTypes /\ ReaderTypes /\ FrameRun /\ W!InOrder
  BY DEF Exact
<1>1. /\ status = "data" /\ cur_size = cur_pos
      /\ received' = received \o [i \in 1 .. 0 |-> W!Unmasked(wire[i], i)]
      /\ wire' = SubSeq(wire, 0 + 1, Len(wire))
      /\ aligned' = aligned \o [i \in 1 .. 0 |-> has_mask => cur_pos % mask_size = 0]
      /\ in_step' = W!StaysInStep(0)
      /\ UNCHANGED <<browser, has_mask, data_len>> /\ UNCHANGED W!writer
      /\ IF cur_pos + 0 = cur_size THEN status' = "header" /\ cur_size' = header_size /\ cur_pos' = 0
         ELSE cur_pos' = cur_pos + 0 /\ UNCHANGED <<status, cur_size>>
  BY DEF W!ReadData, W!Rest, W!FrameDone, W!Expects
<1>2. /\ wire \in Seq(FrameByte) /\ header \in Seq(FrameByte) /\ cur_pos \in Nat
      /\ received \in Seq(Int) /\ aligned \in Seq(BOOLEAN) /\ in_step = TRUE
      /\ UNCHANGED <<offered, sent, announced, header, agreed>>
  BY <1>0, <1>1 DEF SenderTypes, ReaderTypes, W!writer
<1>3. received' = received /\ aligned' = aligned /\ in_step' = in_step
  <2>1. [i \in 1 .. 0 |-> W!Unmasked(wire[i], i)] = <<>>
    OBVIOUS
  <2>2. [i \in 1 .. 0 |-> has_mask => cur_pos % mask_size = 0] = <<>>
    OBVIOUS
  <2>3. received' = received
    BY <1>1, <1>2, <2>1, ConcatEmptySeq
  <2>4. aligned' = aligned
    BY <1>1, <1>2, <2>2, ConcatEmptySeq
  <2>5. in_step' = in_step
    <3>1. W!StaysInStep(0)
      BY <1>2 DEF W!StaysInStep
    <3> QED
      BY <1>1, <1>2, <3>1, Zenon
  <2> QED
    BY <2>3, <2>4, <2>5
<1>4. wire' = wire
  BY <1>1, <1>2, SubSeqFull
<1>5. status' = "header" /\ cur_size' = header_size /\ cur_pos' = 0
  BY <1>1, <1>2
<1>6. Now' = Now
  BY <1>1, <1>3, <1>5 DEF Now, Begin
<1>7. ReaderTypes'
  <2>1. "header" \in Parts /\ 0 < header_size /\ header_size \in Nat /\ W!Size["header"] = header_size
    BY FrameConstants DEF Parts
  <2> QED
    BY <1>0, <1>1, <1>3, <1>5, <2>1 DEF ReaderTypes
<1>8. SenderTypes'
  BY <1>0, <1>1, <1>2, <1>4 DEF SenderTypes
<1>9. FrameRun'
  BY <1>0, <1>2, <1>4, <1>6 DEF FrameRun
<1>10. W!InOrder'
  BY <1>0, <1>2, <1>3 DEF W!InOrder
<1> QED
  BY <1>7, <1>8, <1>9, <1>10 DEF Exact

\* n bytes of data: each is the next that was sent, and spoilt if the read began where
\* the mask does not.
LEMMA ReadSome ==
  ASSUME Exact, agreed, NEW n, n \in 1 .. Len(wire), W!ReadData(n)
  PROVE  Exact'
<1>0. SenderTypes /\ ReaderTypes /\ FrameRun /\ W!InOrder
  BY DEF Exact
<1> DEFINE begun == has_mask => cur_pos % mask_size = 0
           new == [i \in 1 .. n |-> W!Unmasked(wire[i], i)]
           same == [i \in 1 .. n |-> begun]
           L == Len(received)
           t == wire \o header
<1>1. /\ status = "data" /\ n <= W!InFrame(cur_size - cur_pos)
      /\ received' = received \o new
      /\ wire' = SubSeq(wire, n + 1, Len(wire))
      /\ aligned' = aligned \o same /\ in_step' = W!StaysInStep(n)
      /\ UNCHANGED <<browser, has_mask, data_len>> /\ UNCHANGED W!writer
      /\ IF cur_pos + n = cur_size THEN status' = "header" /\ cur_size' = header_size /\ cur_pos' = 0
         ELSE cur_pos' = cur_pos + n /\ UNCHANGED <<status, cur_size>>
  BY DEF W!ReadData, W!Rest, W!FrameDone, W!Expects
<1>2. /\ wire \in Seq(FrameByte) /\ header \in Seq(FrameByte) /\ Len(wire) \in Nat
      /\ cur_pos \in Nat /\ cur_size \in Nat /\ sent \in Nat /\ received \in Seq(Int) /\ L \in Nat
      /\ has_mask \in BOOLEAN /\ aligned \in Seq(BOOLEAN) /\ Len(aligned) = L /\ in_step = TRUE
      /\ UNCHANGED <<offered, sent, announced, header, agreed>>
      /\ mask_size \in Nat \ {0} /\ buffer_size \in Nat
  BY <1>0, <1>1, LenProperties, FrameConstants DEF SenderTypes, ReaderTypes, W!writer
<1>3. n \in Nat \ {0} /\ n \in 0 .. Len(wire) /\ cur_pos + n <= cur_size /\ n \in 1 .. n
  BY <1>1, <1>2 DEF W!InFrame, W!Min2
<1>4. /\ wire' \in Seq(FrameByte) /\ wire' \o header = SubSeq(t, n + 1, Len(t))
      /\ n <= Len(t) /\ \A i \in 1 .. n : t[i] = wire[i]
  BY <1>1, <1>2, <1>3, RestJoins
<1>5. PICK p : ReadsTo(Now, t, sent, p) /\ Ending(p, announced, sent)
  BY <1>0 DEF FrameRun
<1>6. Now = At("data", cur_pos, cur_size, has_mask, 0, L)
  <2>1. cur_pos # cur_size
    BY <1>2, <1>3
  <2> QED
    BY <1>1, <2>1 DEF Now
<1> HIDE DEF t, new, same, L
<1>7. /\ Now.part = "data" /\ Now.pos = cur_pos /\ Now.size = cur_size
      /\ Now.mask = has_mask /\ Now.len = 0 /\ Now.nr = L
  BY <1>6, Zenon DEF At
<1> DEFINE q == Further(Now, n, wire[n])
<1>8. ReadsTo(q, wire' \o header, sent, p) /\ \A j \in 1 .. n : Suits(Now, j, wire[j])
  <2>1. Now.pos + n <= Now.size
    BY <1>3, <1>7
  <2>2. /\ ReadsTo(Further(Now, n, t[n]), SubSeq(t, n + 1, Len(t)), sent, p)
        /\ \A j \in 1 .. n : Suits(Now, j, t[j])
    BY <1>3, <1>4, <1>5, <2>1, ReadsFrom
  <2> QED
    BY <1>3, <1>4, <2>2
<1>9. in_step' = TRUE
  <2>1. W!StaysInStep(n)
    BY <1>1, <1>2, <1>7, <1>8 DEF W!StaysInStep, Suits
  <2> QED
    BY <1>1, <2>1, Zenon
<1>10. ASSUME NEW i \in 1 .. n
       PROVE  W!Unmasked(wire[i], i) = IF begun THEN L + i ELSE 0
  <2>1. /\ wire[i][2] = L + i
        /\ wire[i][3] = IF has_mask THEN (cur_pos + i - 1) % mask_size ELSE -1
    BY <1>7, <1>8 DEF Suits
  <2>2. i - 1 \in Nat /\ cur_pos + i - 1 = cur_pos + (i - 1)
    BY <1>2, <1>3
  <2>3. CASE ~has_mask
    BY <1>9, <2>1, <2>3 DEF W!Unmasked
  <2>4. CASE has_mask /\ cur_pos % mask_size = 0
    <3>1. (cur_pos + (i - 1)) % mask_size = (i - 1) % mask_size
      BY <1>2, <2>2, <2>4, SameKey
    <3>2. wire[i][3] = (i - 1) % mask_size
      BY <2>1, <2>2, <2>4, <3>1
    <3> QED
      BY <1>9, <2>1, <2>4, <3>2 DEF W!Unmasked, W!KeyOf
  <2>5. CASE has_mask /\ cur_pos % mask_size # 0
    <3>1. (cur_pos + (i - 1)) % mask_size # (i - 1) % mask_size
      BY <1>2, <2>2, <2>5, OtherKey
    <3>2. wire[i][3] # (i - 1) % mask_size
      BY <2>1, <2>2, <2>5, <3>1
    <3> QED
      BY <2>5, <3>2 DEF W!Unmasked, W!KeyOf
  <2> QED
    BY <2>3, <2>4, <2>5
<1>11. begun \in BOOLEAN
  OBVIOUS
<1> HIDE DEF begun
<1>12. /\ received' \in Seq(Int) /\ Len(received') = L + n
       /\ \A i \in 1 .. L : received'[i] = received[i]
       /\ \A i \in 1 .. n : received'[L + i] = W!Unmasked(wire[i], i)
  <2>1. \A i \in 1 .. n : W!Unmasked(wire[i], i) \in Int
    BY <1>2, <1>3, <1>10
  <2>2. new \in Seq(Int) /\ Len(new) = n /\ \A i \in 1 .. n : new[i] = W!Unmasked(wire[i], i)
    BY <1>3, <2>1 DEF new
  <2>3. /\ received' \in Seq(Int) /\ Len(received') = L + n
        /\ \A i \in 1 .. L + n : received'[i] = IF i <= L THEN received[i] ELSE new[i - L]
    BY <1>1, <1>2, <2>2, ConcatProperties DEF L
  <2>4. ASSUME NEW i \in 1 .. L
        PROVE  received'[i] = received[i]
    <3>1. i \in 1 .. L + n /\ i <= L
      BY <1>2, <1>3
    <3> QED
      BY <2>3, <3>1
  <2>5. ASSUME NEW i \in 1 .. n
        PROVE  received'[L + i] = W!Unmasked(wire[i], i)
    <3>1. L \in Nat /\ n \in Nat
      BY <1>2, <1>3
    <3>2. i \in 1 .. n
      OBVIOUS
    <3>3. L + i \in 1 .. L + n /\ ~(L + i <= L) /\ (L + i) - L = i
      BY <3>1, <3>2
    <3>4. \A k \in 1 .. L + n : ~(k <= L) => received'[k] = new[k - L]
      BY <2>3
    <3>5. received'[L + i] = new[(L + i) - L]
      BY <3>3, <3>4, Zenon
    <3> QED
      BY <2>2, <3>2, <3>3, <3>5, Zenon
  <2> QED
    BY <2>3, <2>4, <2>5
<1>13. /\ aligned' \in Seq(BOOLEAN) /\ Len(aligned') = L + n
       /\ \A i \in 1 .. L + n : aligned'[i] = IF i <= L THEN aligned[i] ELSE begun
  <2>1. same \in Seq(BOOLEAN) /\ Len(same) = n /\ \A i \in 1 .. n : same[i] = begun
    BY <1>3, <1>11 DEF same
  <2>2. /\ aligned' \in Seq(BOOLEAN) /\ Len(aligned') = L + n
        /\ \A i \in 1 .. L + n : aligned'[i] = IF i <= L THEN aligned[i] ELSE same[i - L]
    <3>1. /\ aligned \o same \in Seq(BOOLEAN)
          /\ Len(aligned \o same) = Len(aligned) + Len(same)
          /\ \A i \in 1 .. Len(aligned) + Len(same) :
               (aligned \o same)[i] = IF i <= Len(aligned) THEN aligned[i]
                                      ELSE same[i - Len(aligned)]
      BY <1>2, <2>1, ConcatProperties, ZenonT(60)
    <3> QED
      BY <1>1, <1>2, <2>1, <3>1, ZenonT(60)
  <2>3. ASSUME NEW i \in 1 .. L + n, ~(i <= L)
        PROVE  aligned'[i] = begun
    <3>1. i - L \in 1 .. n
      BY <1>2, <1>3, <2>3
    <3>2. same[i - L] = begun
      BY <2>1, <3>1, Zenon
    <3> QED
      BY <2>2, <2>3, <3>2, Zenon
  <2> QED
    BY <2>2, <2>3, Zenon
<1>14. W!InOrder'
  <2>1. ASSUME NEW i \in 1 .. L + n
        PROVE  received'[i] = IF aligned'[i] THEN i ELSE 0
    <3>1. CASE i \in 1 .. L
      <4>1. received[i] = IF aligned[i] THEN i ELSE 0
        BY <1>0, <3>1 DEF W!InOrder, L
      <4>2. i <= L /\ aligned'[i] = aligned[i]
        BY <1>2, <1>13, <3>1
      <4> QED
        BY <1>12, <3>1, <4>1, <4>2
    <3>2. CASE i \in L + 1 .. L + n
      <4>1. i - L \in 1 .. n /\ L + (i - L) = i /\ ~(i <= L)
        BY <1>2, <1>3, <3>2
      <4>2. received'[i] = W!Unmasked(wire[i - L], i - L)
        BY <1>12, <4>1
      <4>3. W!Unmasked(wire[i - L], i - L) = IF begun THEN i ELSE 0
        BY <1>10, <4>1
      <4>4. aligned'[i] = begun
        BY <1>13, <4>1
      <4> QED
        BY <4>2, <4>3, <4>4
    <3> QED
      BY <1>2, <1>3, <3>1, <3>2
  <2> QED
    BY <1>12, <2>1 DEF W!InOrder
<1>15. Now' = q
  <2>1. CASE cur_pos + n = cur_size
    <3>1. q = Begin(L + n)
      BY <1>2, <1>3, <1>7, <2>1 DEF Further, Behind
    <3>2. Now' = Begin(L + n)
      BY <1>1, <1>12, <2>1 DEF Now, Begin
    <3> QED
      BY <3>1, <3>2
  <2>2. CASE cur_pos + n # cur_size
    <3>1. cur_pos + n < cur_size
      BY <1>2, <1>3, <2>2
    <3>2. q = Inside(Now, n)
      BY <1>7, <3>1 DEF Further
    <3>3. Inside(Now, n) = At("data", cur_pos + n, cur_size, has_mask, 0, L + n)
      BY <1>7, Zenon DEF Inside
    <3>4. Now' = At("data", cur_pos + n, cur_size, has_mask, 0, L + n)
      BY <1>1, <1>12, <2>2 DEF Now
    <3> QED
      BY <3>2, <3>3, <3>4
  <2> QED
    BY <2>1, <2>2
<1>16. ReaderTypes'
  <2>1. "header" \in Parts /\ 0 < header_size /\ header_size \in Nat /\ W!Size["header"] = header_size
    BY FrameConstants DEF Parts
  <2>2. CASE cur_pos + n = cur_size
    BY <1>0, <1>1, <1>9, <1>12, <1>13, <2>1, <2>2 DEF ReaderTypes
  <2>3. CASE cur_pos + n # cur_size
    <3>1. cur_pos + n < cur_size /\ cur_pos + n \in Nat
      BY <1>2, <1>3, <2>3
    <3> QED
      BY <1>0, <1>1, <1>9, <1>12, <1>13, <2>3, <3>1 DEF ReaderTypes
  <2> QED
    BY <2>2, <2>3
<1> HIDE DEF q
<1>17. SenderTypes'
  BY <1>0, <1>1, <1>2, <1>4 DEF SenderTypes
<1>18. FrameRun'
  BY <1>2, <1>5, <1>8, <1>15 DEF FrameRun
<1> QED
  BY <1>14, <1>16, <1>17, <1>18 DEF Exact

(***************************************************************************)
(* What holds whether or not the two sides agree.                          *)
(***************************************************************************)
\* A header is made of bytes.
LEMMA HeaderTyped ==
  ASSUME NEW size \in 0 .. MaxData, NEW key \in {0, 1}
  PROVE  W!Header(size, key) \in Seq(FrameByte)
<1>1. ASSUME NEW kind \in {"header", "len_2", "len_8"}, NEW number \in Nat, NEW k \in Int
      PROVE  W!Bytes(kind, number, k) \in Seq(FrameByte)
  <2> DEFINE size_of == W!Size[kind]
  <2>1. size_of \in Nat
    BY FrameConstants
  <2>2. W!Bytes(kind, number, k) = [i \in 1 .. size_of |-> <<kind, number, k>>]
    BY DEF W!Bytes
  <2>3. <<kind, number, k>> \in FrameByte
    BY DEF FrameByte, Parts
  <2> HIDE DEF size_of
  <2> QED
    BY <2>1, <2>2, <2>3
<1>2. MaxData \in Nat /\ short \in Nat /\ size \in Nat /\ key \in Int /\ 0 \in Int
  BY FrameConstants
<1>3. CASE W!IsShort(size)
  <2>1. W!Header(size, key) = W!Bytes("header", size, key)
    BY <1>3 DEF W!Header
  <2> QED
    BY <1>1, <1>2, <2>1
<1>4. CASE ~W!IsShort(size)
  <2> DEFINE code == IF size < long THEN short ELSE short + 1
             kind == W!LengthPart(size)
             number == W!Heard(size)
  <2>1. W!Header(size, key) = W!Bytes("header", code, key) \o W!Bytes(kind, number, 0)
    BY <1>4 DEF W!Header
  <2>2. code \in Nat
    BY <1>2
  <2>3. kind \in {"len_2", "len_8"}
    BY DEF W!LengthPart
  <2>4. number \in Nat
    <3>1. number = other_order[kind][size]
      BY <1>4 DEF W!Heard
    <3>2. \A part_of \in {"len_2", "len_8"} : other_order[part_of][size] \in Nat
      BY PartsAssumption DEF W!WebSocketAssumption
    <3> HIDE DEF kind, number
    <3> QED
      BY <2>3, <3>1, <3>2
  <2> HIDE DEF code, kind, number
  <2>5. W!Bytes("header", code, key) \in Seq(FrameByte) /\ W!Bytes(kind, number, 0) \in Seq(FrameByte)
    BY <1>1, <1>2, <2>2, <2>3, <2>4
  <2> QED
    BY <2>1, <2>5, ConcatProperties
<1> QED
  BY <1>3, <1>4

\* Whatever is written, or fails to be.
LEMMA FramedWrite ==
  ASSUME Framed, NEW size, W!write(size)
  PROVE  Framed'
<1>1. /\ ~browser /\ size \in 1 .. offered - sent /\ UNCHANGED <<browser, offered>>
      /\ UNCHANGED <<status, cur_pos, cur_size, has_mask, data_len, received, aligned, in_step>>
  BY DEF W!write, W!reader
<1>2. /\ offered \in 0 .. MaxData /\ sent \in 0 .. offered /\ announced \in Nat /\ MaxData \in Nat
      /\ wire \in Seq(FrameByte) /\ header \in Seq(FrameByte) /\ agreed \in BOOLEAN
      /\ size \in 0 .. MaxData /\ size \in Nat
  BY <1>1, FrameConstants DEF Framed
<1>3. CASE announced = 0 \/ header # <<>>
  <2> DEFINE head == IF announced = 0 THEN W!Header(size, 0) ELSE header
  <2>1. PICK n \in 0 .. Len(head) :
          /\ wire' = wire \o SubSeq(head, 1, n) /\ header' = W!Rest(head, n)
          /\ announced' = (IF announced = 0 THEN size ELSE announced)
          /\ agreed' = (agreed /\ (announced = 0 => W!Heard(size) = size))
          /\ UNCHANGED sent
    BY <1>3 DEF W!write
  <2>2. head \in Seq(FrameByte)
    <3>1. W!Header(size, 0) \in Seq(FrameByte)
      BY <1>2, HeaderTyped
    <3> QED
      BY <1>2, <3>1
  <2> HIDE DEF head
  <2>3. wire' \in Seq(FrameByte) /\ header' \in Seq(FrameByte)
    BY <1>2, <2>1, <2>2, CutJoins DEF W!Rest
  <2>4. announced' \in Nat /\ agreed' \in BOOLEAN
    BY <1>2, <2>1
  <2> QED
    BY <1>1, <2>1, <2>3, <2>4 DEF Framed
<1>4. CASE ~(announced = 0 \/ header # <<>>)
  <2>1. PICK n \in 0 .. W!AsAnnounced(size) :
          /\ wire' = wire \o [i \in 1 .. n |-> <<"data", sent + i, -1>>]
          /\ sent' = sent + n /\ announced' = announced - W!Returned(n) /\ UNCHANGED header
          /\ agreed' = (agreed /\ n # 0)
    BY <1>4 DEF W!write
  <2>2. n \in Nat /\ n <= size /\ n <= announced
    BY <1>1, <1>2, <2>1 DEF W!AsAnnounced, W!Min2
  <2>3. wire' \in Seq(FrameByte)
    <3> DEFINE s == [i \in 1 .. n |-> <<"data", sent + i, -1>>]
    <3>1. \A i \in 1 .. n : <<"data", sent + i, -1>> \in FrameByte
      BY <1>2, <2>2 DEF FrameByte, Parts
    <3>2. s \in Seq(FrameByte)
      BY <2>2, <3>1
    <3>3. wire' = wire \o s
      BY <2>1
    <3> HIDE DEF s
    <3> QED
      BY <1>2, <3>2, <3>3, ConcatProperties
  <2>4. announced' \in Nat /\ sent' \in 0 .. offered
    BY <1>1, <1>2, <2>1, <2>2 DEF W!Returned
  <2>5. agreed' \in BOOLEAN
    BY <2>1
  <2> QED
    BY <1>1, <2>1, <2>3, <2>4, <2>5 DEF Framed
<1> QED
  BY <1>3, <1>4

\* Whatever a browser sends.
LEMMA FramedBrowser ==
  ASSUME Framed, NEW size \in FrameSizes, W!BrowserSends(size)
  PROVE  Framed'
<1> DEFINE h == W!Header(size, 1)
           m == W!Bytes("mask", 0, 0)
           s == [i \in 1 .. size |-> <<"data", sent + i, (i - 1) % mask_size>>]
<1>1. /\ browser /\ sent + size <= MaxData /\ offered' = offered + size /\ sent' = sent + size
      /\ wire' = ((wire \o h) \o m) \o s /\ agreed' = (agreed /\ W!Heard(size) = size)
      /\ UNCHANGED <<browser, announced, header>>
      /\ UNCHANGED <<status, cur_pos, cur_size, has_mask, data_len, received, aligned, in_step>>
  BY DEF W!BrowserSends, W!reader
<1>2. /\ offered \in 0 .. MaxData /\ sent = offered /\ MaxData \in Nat /\ size \in 0 .. MaxData
      /\ wire \in Seq(FrameByte) /\ mask_size \in Nat \ {0} /\ sent \in Nat
  BY <1>1, FrameConstants DEF Framed
<1>3. h \in Seq(FrameByte)
  BY <1>2, HeaderTyped
<1>4. m \in Seq(FrameByte)
  <2>1. m = [i \in 1 .. mask_size |-> <<"mask", 0, 0>>]
    BY FrameConstants DEF W!Bytes
  <2>2. <<"mask", 0, 0>> \in FrameByte
    BY DEF FrameByte, Parts
  <2> QED
    BY <1>2, <2>1, <2>2
<1>5. s \in Seq(FrameByte)
  <2>1. \A i \in 1 .. size : <<"data", sent + i, (i - 1) % mask_size>> \in FrameByte
    BY <1>2 DEF FrameByte, Parts
  <2> QED
    BY <1>2, <2>1
<1> HIDE DEF h, m, s
<1>6. wire' \in Seq(FrameByte)
  <2>1. wire \o h \in Seq(FrameByte)
    BY <1>2, <1>3, ConcatProperties
  <2>2. (wire \o h) \o m \in Seq(FrameByte)
    BY <1>4, <2>1, ConcatProperties
  <2> QED
    BY <1>1, <1>5, <2>2, ConcatProperties
<1>7. offered' \in 0 .. MaxData /\ sent' \in 0 .. offered' /\ sent' = offered' /\ agreed' \in BOOLEAN
  BY <1>1, <1>2
<1> QED
  BY <1>1, <1>6, <1>7 DEF Framed

\* Whatever a part is taken for.
LEMMA FramedPart ==
  ASSUME Framed, NEW n, W!ReadPart(n)
  PROVE  Framed'
<1>1. /\ status # "data" /\ n \in 1 .. W!Min2(cur_size - cur_pos, Len(wire))
      /\ wire' = SubSeq(wire, n + 1, Len(wire)) /\ in_step' = W!StaysInStep(n)
      /\ UNCHANGED <<browser, received, aligned, offered, sent, announced, header, agreed>>
      /\ IF cur_pos + n = cur_size THEN \E byte \in W!TakenFor(wire[n]) : W!PartDone(byte)
         ELSE cur_pos' = cur_pos + n /\ UNCHANGED <<status, cur_size, has_mask, data_len>>
  BY DEF W!ReadPart, W!Rest, W!writer
<1>2. /\ wire \in Seq(FrameByte) /\ Len(wire) \in Nat /\ cur_pos \in Nat /\ cur_size \in Nat
      /\ cur_pos < cur_size /\ status \in Parts /\ has_mask \in BOOLEAN /\ data_len \in Nat
      /\ in_step \in BOOLEAN
  BY <1>1, LenProperties DEF Framed
<1>3. n \in Nat \ {0} /\ n \in 1 .. Len(wire) /\ cur_pos + n <= cur_size
  BY <1>1, <1>2 DEF W!Min2
<1>4. wire' \in Seq(FrameByte)
  BY <1>1, <1>2, <1>3
<1>5. in_step' \in BOOLEAN
  BY <1>1, <1>2 DEF W!StaysInStep
<1>6. CASE cur_pos + n = cur_size
  <2>1. PICK byte \in W!TakenFor(wire[n]) : W!PartDone(byte)
    BY <1>1, <1>6
  <2>2. byte[2] \in Nat
    <3>1. CASE in_step'
      <4>1. byte = wire[n]
        BY <2>1, <3>1 DEF W!TakenFor
      <4>2. wire[n] \in FrameByte
        BY <1>2, <1>3
      <4> QED
        BY <4>1, <4>2 DEF FrameByte
    <3>2. CASE ~in_step'
      <4>1. byte \in {status} \X Misread \X {0, 1}
        BY <2>1, <3>2 DEF W!TakenFor
      <4> QED
        BY <4>1, FrameConstants
    <3> QED
      BY <3>1, <3>2
  <2>3. /\ cur_pos' = 0 /\ has_mask' \in BOOLEAN
    BY <1>2, <2>1 DEF W!PartDone
  <2>4. /\ data_len' \in Nat /\ status' \in Parts
        /\ cur_size' \in Nat /\ (status' # "data" => cur_size' = W!Size[status'] /\ 0 < cur_size')
    <3> DEFINE masked == IF status = "header" THEN byte[3] = 1 ELSE has_mask
               len == IF status = "mask" THEN data_len ELSE byte[2]
               to == IF status = "header" /\ len = short THEN "len_2"
                     ELSE IF status = "header" /\ len > short THEN "len_8"
                     ELSE IF status # "mask" /\ masked THEN "mask"
                     ELSE "data"
    <3>1. /\ status' = to /\ cur_size' = IF to = "data" THEN len ELSE W!Size[to]
          /\ data_len' = IF to \in {"len_2", "len_8"} THEN data_len ELSE len
      BY <2>1 DEF W!PartDone, W!Expects
    <3>2. len \in Nat
      BY <1>2, <2>2
    <3>3. to \in {"len_2", "len_8", "mask", "data"}
      OBVIOUS
    <3> HIDE DEF to, len
    <3>4. to \in Parts /\ (to # "data" => W!Size[to] \in Nat \ {0})
      BY <3>3, FrameConstants DEF Parts
    <3> QED
      BY <1>2, <3>1, <3>2, <3>4
  <2> QED
    BY <1>1, <1>4, <1>5, <2>3, <2>4 DEF Framed
<1>7. CASE cur_pos + n # cur_size
  <2>1. cur_pos' = cur_pos + n /\ UNCHANGED <<status, cur_size, has_mask, data_len>>
    BY <1>1, <1>7
  <2>2. cur_pos + n < cur_size /\ cur_pos + n \in Nat /\ cur_pos + n <= cur_size
    BY <1>2, <1>3, <1>7
  <2> QED
    BY <1>1, <1>4, <1>5, <2>1, <2>2 DEF Framed
<1> QED
  BY <1>6, <1>7

\* Whatever is taken for data.
LEMMA FramedData ==
  ASSUME Framed, NEW n \in 0 .. Len(wire), W!ReadData(n)
  PROVE  Framed'
<1> DEFINE begun == has_mask => cur_pos % mask_size = 0
           new == [i \in 1 .. n |-> W!Unmasked(wire[i], i)]
           same == [i \in 1 .. n |-> begun]
<1>1. /\ status = "data" /\ n <= W!InFrame(cur_size - cur_pos)
      /\ received' = received \o new /\ aligned' = aligned \o same
      /\ wire' = SubSeq(wire, n + 1, Len(wire)) /\ in_step' = W!StaysInStep(n)
      /\ UNCHANGED <<browser, has_mask, data_len, offered, sent, announced, header, agreed>>
      /\ IF cur_pos + n = cur_size THEN status' = "header" /\ cur_size' = header_size /\ cur_pos' = 0
         ELSE cur_pos' = cur_pos + n /\ UNCHANGED <<status, cur_size>>
  BY DEF W!ReadData, W!Rest, W!FrameDone, W!Expects, W!writer
<1>2. /\ wire \in Seq(FrameByte) /\ Len(wire) \in Nat /\ cur_pos \in Nat /\ cur_size \in Nat
      /\ cur_pos <= cur_size /\ received \in Seq(Int) /\ aligned \in Seq(BOOLEAN)
      /\ Len(aligned) = Len(received) /\ in_step \in BOOLEAN /\ buffer_size \in Nat
  BY LenProperties, FrameConstants DEF Framed
<1>3. n \in Nat /\ cur_pos + n <= cur_size
  BY <1>1, <1>2 DEF W!InFrame, W!Min2
<1>4. wire' \in Seq(FrameByte)
  BY <1>1, <1>2, <1>3
<1>5. in_step' \in BOOLEAN
  BY <1>1, <1>2 DEF W!StaysInStep
<1>6. new \in Seq(Int) /\ Len(new) = n
  <2>1. ASSUME NEW i \in 1 .. n
        PROVE  W!Unmasked(wire[i], i) \in Int
    <3>1. i \in 1 .. Len(wire)
      BY <1>2, <1>3
    <3>2. wire[i] \in FrameByte
      BY <1>2, <3>1
    <3>3. wire[i][2] \in Int
      BY <3>2 DEF FrameByte
    <3> QED
      BY <3>3 DEF W!Unmasked
  <2> QED
    BY <1>3, <2>1
<1>7. same \in Seq(BOOLEAN) /\ Len(same) = n
  <2>1. begun \in BOOLEAN
    OBVIOUS
  <2> HIDE DEF begun
  <2> QED
    BY <1>3, <2>1
<1> HIDE DEF new, same
<1>8. received' \in Seq(Int) /\ Len(received') = Len(received) + n
  BY <1>1, <1>2, <1>6, ConcatProperties
<1>9. aligned' \in Seq(BOOLEAN) /\ Len(aligned') = Len(aligned) + n
  BY <1>1, <1>2, <1>7, ConcatProperties
<1>10. Len(aligned') = Len(received')
  BY <1>2, <1>8, <1>9
<1>11. CASE cur_pos + n = cur_size
  <2>1. status' \in Parts /\ status' = "header" /\ cur_pos' = 0 /\ cur_size' = header_size
    BY <1>1, <1>11 DEF Parts
  <2>2. header_size \in Nat \ {0} /\ W!Size["header"] = header_size
    BY FrameConstants
  <2>3. cur_pos' \in Nat /\ cur_size' \in Nat /\ cur_pos' < cur_size' /\ cur_pos' <= cur_size'
        /\ cur_size' = W!Size[status']
    BY <2>1, <2>2
  <2> QED
    BY <1>1, <1>4, <1>5, <1>8, <1>9, <1>10, <2>1, <2>3 DEF Framed
<1>12. CASE cur_pos + n # cur_size
  <2>1. /\ cur_pos' = cur_pos + n /\ UNCHANGED <<status, cur_size>> /\ cur_pos' \in Nat
        /\ cur_pos' <= cur_size'
    BY <1>1, <1>2, <1>3, <1>12
  <2> QED
    BY <1>1, <1>4, <1>5, <1>8, <1>9, <1>10, <2>1 DEF Framed
<1> QED
  BY <1>11, <1>12

\* Once the two sides disagree, they do so for good.
LEMMA NeverAgain ==
  ASSUME W!Next, agreed'
  PROVE  agreed
<1>1. ASSUME W!Offer
      PROVE  agreed
  BY <1>1 DEF W!Offer
<1>2. ASSUME NEW size, W!write(size)
      PROVE  agreed
  BY <1>2 DEF W!write
<1>3. ASSUME NEW size, W!BrowserSends(size)
      PROVE  agreed
  BY <1>3 DEF W!BrowserSends
<1>4. ASSUME NEW n, W!ReadPart(n) \/ W!ReadData(n)
      PROVE  agreed
  BY <1>4 DEF W!ReadPart, W!ReadData, W!writer
<1> QED
  BY <1>1, <1>2, <1>3, <1>4 DEF W!Next, W!Writes, W!Reads

\* Every step keeps it.
LEMMA FrameStep ==
  ASSUME FrameInv, [W!Next]_frames
  PROVE  FrameInv'
<1>0. Framed
  BY DEF FrameInv
<1>1. CASE W!Next
  <2>1. Framed'
    <3>1. ASSUME W!Offer
          PROVE  Framed'
      <4>1. /\ ~browser /\ offered < MaxData /\ offered' = offered + 1
            /\ UNCHANGED <<browser, sent, announced, header, agreed, wire>>
            /\ UNCHANGED <<status, cur_pos, cur_size, has_mask, data_len, received, aligned, in_step>>
        BY <3>1 DEF W!Offer, W!reader
      <4>2. offered' \in 0 .. MaxData /\ sent \in 0 .. offered'
        BY <1>0, <4>1, FrameConstants DEF Framed
      <4> QED
        BY <1>0, <4>1, <4>2 DEF Framed
    <3> QED
      BY <1>0, <1>1, <3>1, FramedWrite, FramedBrowser, FramedPart, FramedData
         DEF W!Next, W!Writes, W!Reads
  <2>2. ASSUME agreed'
        PROVE  Exact'
    <3>1. agreed /\ Exact
      BY <1>1, <2>2, NeverAgain DEF FrameInv
    <3>2. ASSUME NEW n \in 0 .. Len(wire), W!ReadData(n)
          PROVE  Exact'
      <4>1. CASE n = 0
        BY <3>1, <3>2, <4>1, ReadNone
      <4>2. CASE n # 0
        <5>1. Len(wire) \in Nat
          BY <1>0, LenProperties DEF Framed
        <5>2. n \in 1 .. Len(wire)
          BY <4>2, <5>1
        <5> QED
          BY <3>1, <3>2, <5>2, ReadSome
      <4> QED
        BY <4>1, <4>2
    <3> QED
      BY <1>1, <2>2, <3>1, <3>2, OfferKeeps, WriteKeeps, BrowserKeeps, ReadPartKeeps
         DEF W!Next, W!Writes, W!Reads
  <2> QED
    BY <2>1, <2>2 DEF FrameInv
<1>2. CASE UNCHANGED frames
  <2>1. /\ UNCHANGED <<browser, offered, sent, announced, header, agreed, wire>>
        /\ UNCHANGED <<status, cur_pos, cur_size, has_mask, data_len, received, aligned, in_step>>
    BY <1>2 DEF frames
  <2>2. UNCHANGED W!reader
    BY <2>1 DEF W!reader
  <2>3. Framed'
    BY <1>0, <2>1 DEF Framed
  <2>4. ASSUME agreed'
        PROVE  Exact'
    <3>1. agreed /\ Exact
      BY <2>1, <2>4 DEF FrameInv
    <3>2. SenderTypes'
      BY <2>1, <3>1 DEF Exact, SenderTypes
    <3>3. FrameRun'
      BY <2>1, <2>2, <3>1, ReaderStays DEF Exact, FrameRun, Ending
    <3> QED
      BY <2>2, <3>1, <3>2, <3>3, ReaderStays DEF Exact
  <2> QED
    BY <2>3, <2>4 DEF FrameInv
<1> QED
  BY <1>1, <1>2

\* As long as both sides agree, the reader is in step with the wire, and nothing is
\* announced or read that is not there.
LEMMA ExactFacts ==
  ASSUME Exact
  PROVE  /\ in_step /\ (wire # <<>> /\ cur_pos < cur_size => wire[1][1] = status)
         /\ announced \in 0 .. offered - (IF browser THEN 0 ELSE sent)
         /\ data_len \in 0 .. MaxData /\ Len(received) \in 0 .. sent
<1>0. SenderTypes /\ ReaderTypes /\ FrameRun
  BY DEF Exact
<1>1. PICK p : ReadsTo(Now, wire \o header, sent, p) /\ Ending(p, announced, sent)
  BY <1>0 DEF FrameRun
<1>2. /\ wire \in Seq(FrameByte) /\ header \in Seq(FrameByte) /\ Len(wire) \in Nat
      /\ cur_pos \in Nat /\ cur_size \in Nat /\ sent \in Nat /\ Len(received) \in Nat
      /\ status \in Parts
  BY <1>0, LenProperties DEF SenderTypes, ReaderTypes
<1>3. Len(received) <= sent
  <2>1. Now \in Place /\ Sound(Now, sent)
    BY <1>1, ReadEnds
  <2>2. Now.nr = Len(received)
    <3> DEFINE nr == Len(received)
    <3> HIDE DEF nr
    <3>1. \/ Now = At("header", cur_pos, header_size, FALSE, 0, nr)
          \/ Now = At("header", 0, header_size, FALSE, 0, nr)
          \/ Now = At(status, cur_pos, cur_size, has_mask, IF status = "mask" THEN data_len ELSE 0, nr)
      BY DEF Now, Begin, nr
    <3>2. CASE Now = At("header", cur_pos, header_size, FALSE, 0, nr)
      BY <3>2, Zenon DEF At, nr
    <3>3. CASE Now = At("header", 0, header_size, FALSE, 0, nr)
      BY <3>3, Zenon DEF At, nr
    <3>4. CASE Now = At(status, cur_pos, cur_size, has_mask,
                        IF status = "mask" THEN data_len ELSE 0, nr)
      BY <3>4, Zenon DEF At, nr
    <3> QED
      BY <3>1, <3>2, <3>3, <3>4
  <2> QED
    BY <2>1, <2>2 DEF Sound
<1>4. ASSUME wire # <<>>, cur_pos < cur_size
      PROVE  wire[1][1] = status
  <2>1. Len(wire) # 0
    <3>1. Len(wire) \in Nat \ {0}
      BY <1>2, <1>4, EmptySeq, Zenon
    <3> QED
      BY <3>1
  <2> DEFINE t == wire \o header
  <2>2. 1 \in 0 .. Len(wire) /\ 1 \in 1 .. 1
    BY <1>2, <2>1
  <2>3. 1 <= Len(t) /\ t[1] = wire[1]
    BY <1>2, <2>2, RestJoins
  <2>4. Now.part = status /\ Now.pos = cur_pos /\ Now.size = cur_size
    <3>1. CASE status = "header"
      <4>1. cur_size = header_size
        BY <1>0, <3>1, FrameConstants DEF ReaderTypes
      <4> QED
        BY <3>1, <4>1 DEF Now, At
    <3>2. CASE status # "header"
      <4>1. Now = At(status, cur_pos, cur_size, has_mask, IF status = "mask" THEN data_len ELSE 0,
                     Len(received))
        BY <1>2, <1>4, <3>2 DEF Now
      <4> QED
        BY <4>1, Zenon DEF At
    <3> QED
      BY <3>1, <3>2
  <2> HIDE DEF t
  <2>5. ReadsTo(Now, t, sent, p)
    BY <1>1 DEF t
  <2>6. 1 \in Nat \ {0} /\ Now.pos + 1 <= Now.size
    BY <1>2, <1>4, <2>4
  <2>7. Suits(Now, 1, t[1])
    BY <2>2, <2>3, <2>5, <2>6, ReadsFrom
  <2> QED
    BY <2>3, <2>4, <2>7 DEF Suits
<1>5. announced \in 0 .. offered - (IF browser THEN 0 ELSE sent)
  <2>1. MaxData \in Nat
    BY FrameConstants
  <2> QED
    BY <1>0, <2>1 DEF SenderTypes
<1>6. Len(received) \in 0 .. sent
  BY <1>2, <1>3
<1> QED
  BY <1>0, <1>4, <1>5, <1>6 DEF ReaderTypes

\* The same of the invariant.
LEMMA FrameFacts == FrameInv => W!InStep /\ W!TypeOK
<1> SUFFICES ASSUME FrameInv
             PROVE  W!InStep /\ W!TypeOK
  OBVIOUS
<1>1. Framed /\ (agreed => Exact)
  BY DEF FrameInv
<1>2. W!InStep
  BY <1>1, ExactFacts DEF W!InStep
<1>3. DOMAIN W!Size \cup {"data"} = Parts
  BY DEF W!Size, Parts
<1>4. cur_pos \in 0 .. cur_size
  BY <1>1 DEF Framed
<1>5. agreed => /\ announced \in 0 .. offered - (IF browser THEN 0 ELSE sent)
               /\ data_len \in 0 .. MaxData
               /\ Len(received) \in 0 .. sent
  BY <1>1, ExactFacts
<1>6. W!TypeOK
  BY <1>1, <1>3, <1>4, <1>5 DEF W!TypeOK, Framed
<1> QED
  BY <1>2, <1>6

\* From the first state on, and in every step of any of the parts.
LEMMA FramesAlways ==
  /\ AnyInit => FrameInv
  /\ FrameInv /\ [AnyNext]_all => FrameInv'
<1>1. ASSUME AnyInit
      PROVE  FrameInv
  BY <1>1, FrameInit DEF AnyInit
<1>2. ASSUME FrameInv, [AnyNext]_all
      PROVE  FrameInv'
  <2>1. [W!Next]_frames
    <3>1. CASE UNCHANGED all
      BY <3>1 DEF all
    <3>2. CASE AnyNext
      BY <3>2 DEF AnyNext
    <3> QED
      BY <1>2, <3>1, <3>2
  <2> QED
    BY <1>2, <2>1, FrameStep
<1> QED
  BY <1>1, <1>2

\* For all sizes of headers and frames and of the reader's buffer, whatever the pieces
\* in which bytes come, and whatever the other order of bytes is: as long as no length
\* was announced that is another one in it (web_socket.cpp:46-57 and 122-131) and no
\* write failed amid the data (152-153), what web_socket_reader_t::read gives are the
\* data in the order in which they were sent, none twice and none left out, and of a
\* masked frame exactly those are spoilt (96-97) whose read did not begin at a multiple
\* of the mask's size.
THEOREM AlwaysInOrder == AnySpec => []InOrder
<1>1. FrameInv => InOrder
  BY DEF FrameInv, Exact, InOrder, W!InOrder
<1> QED
  BY <1>1, FramesAlways, PTL DEF AnySpec

\* So long the reader never takes a byte for what it was not sent as, however many
\* frames there are and wherever they are cut; and its state has its types at all times.
THEOREM AlwaysInStep == AnySpec => [](W!InStep /\ W!TypeOK)
<1> QED
  BY FrameFacts, FramesAlways, PTL DEF AnySpec

----------------------------------------------------------------------------
(***************************************************************************)
(* The way of commands.  What FlattenSeq and inc_command_ptr do, which are *)
(* recursive, is shown from number to number (Upwards).                    *)
(***************************************************************************)
\* The recursion in FlattenSeq.
Joining(w, g) ==
  g = [i \in 1 .. Len(w) |-> IF i = 1 THEN w[i] ELSE g[i - 1] \o w[i]]

LEMMA JoiningDefined ==
  ASSUME NEW w, Len(w) \in Nat
  PROVE  \E g : Joining(w, g)
<1> DEFINE Part(n, g) == g = [i \in 1 .. n |-> IF i = 1 THEN w[i] ELSE g[i - 1] \o w[i]]
           T == {n \in Nat : \E g : Part(n, g)}
<1>1. 0 \in T
  <2>1. Part(0, <<>>)
    OBVIOUS
  <2> QED
    BY <2>1
<1>2. ASSUME NEW n \in 0 .. Len(w) - 1, n \in T
      PROVE  n + 1 \in T
  <2>1. PICK g : Part(n, g)
    BY <1>2
  <2> DEFINE new == IF n = 0 THEN w[n + 1] ELSE g[n] \o w[n + 1]
  <2> HIDE DEF new
  <2> DEFINE h == [i \in 1 .. n + 1 |-> IF i = n + 1 THEN new ELSE g[i]]
  <2>2. ASSUME NEW i \in 1 .. n + 1
        PROVE  h[i] = IF i = 1 THEN w[i] ELSE h[i - 1] \o w[i]
    <3>1. CASE i = n + 1
      <4>1. CASE n = 0
        BY <3>1, <4>1 DEF new
      <4>2. CASE n # 0
        <5>1. n \in 1 .. n + 1 /\ n # n + 1 /\ i # 1 /\ i - 1 = n
          BY <3>1, <4>2
        <5>2. h[n] = g[n] /\ h[i] = new
          BY <3>1, <5>1
        <5> HIDE DEF h
        <5> QED
          BY <3>1, <4>2, <5>1, <5>2 DEF new
      <4> QED
        BY <4>1, <4>2
    <3>2. CASE i # n + 1
      <4>1. i \in 1 .. n /\ (i # 1 => i - 1 \in 1 .. n + 1 /\ i - 1 # n + 1)
        BY <3>2
      <4>2. h[i] = g[i] /\ (i # 1 => h[i - 1] = g[i - 1])
        BY <3>2, <4>1
      <4>3. g[i] = IF i = 1 THEN w[i] ELSE g[i - 1] \o w[i]
        BY <2>1, <4>1
      <4> HIDE DEF h
      <4> QED
        BY <4>2, <4>3
    <3> QED
      BY <3>1, <3>2
  <2>3. Part(n + 1, h)
    <3>1. h = [i \in 1 .. n + 1 |-> h[i]]
      OBVIOUS
    <3> HIDE DEF h
    <3> QED
      BY <2>2, <3>1
  <2>4. n + 1 \in Nat
    OBVIOUS
  <2> HIDE DEF h, Part
  <2> QED
    BY <2>3, <2>4
<1> HIDE DEF T
<1>3. 0 .. Len(w) \subseteq T
  BY <1>1, <1>2, Upwards
<1>4. Len(w) \in T
  BY <1>3
<1> QED
  BY <1>4 DEF T, Joining

\* w and v begin with the same m sequences, and g and h are how they are joined.
BeginAlike(w, g, v, h, m) ==
  /\ Joining(w, g) /\ Joining(v, h)
  /\ Len(w) \in Nat /\ Len(v) \in Nat /\ m \in Nat /\ m <= Len(w) /\ m <= Len(v)
  /\ \A i \in 1 .. m : w[i] = v[i]

LEMMA JoiningAgrees ==
  ASSUME NEW w, NEW g, NEW v, NEW h, NEW m, BeginAlike(w, g, v, h, m)
  PROVE  \A i \in 1 .. m : g[i] = h[i]
<1>0. /\ Joining(w, g) /\ Joining(v, h)
      /\ Len(w) \in Nat /\ Len(v) \in Nat /\ m \in Nat /\ m <= Len(w) /\ m <= Len(v)
      /\ \A i \in 1 .. m : w[i] = v[i]
  BY DEF BeginAlike
<1> DEFINE T == {i \in Nat : i = 0 \/ g[i] = h[i]}
<1>1. 0 \in T
  OBVIOUS
<1>2. ASSUME NEW i \in 0 .. m - 1, i \in T
      PROVE  i + 1 \in T
  <2>1. i + 1 \in 1 .. Len(w) /\ i + 1 \in 1 .. Len(v) /\ i + 1 \in 1 .. m /\ (i + 1) - 1 = i
    BY <1>0
  <2>2. /\ g[i + 1] = IF i + 1 = 1 THEN w[i + 1] ELSE g[(i + 1) - 1] \o w[i + 1]
        /\ h[i + 1] = IF i + 1 = 1 THEN v[i + 1] ELSE h[(i + 1) - 1] \o v[i + 1]
    BY <1>0, <2>1 DEF Joining
  <2>3. w[i + 1] = v[i + 1]
    BY <1>0, <2>1
  <2> QED
    BY <1>2, <2>1, <2>2, <2>3
<1> HIDE DEF T
<1>3. 0 .. m \subseteq T
  BY <1>0, <1>1, <1>2, Upwards
<1> QED
  BY <1>3 DEF T

\* One sequence more is joined behind the others.
LEMMA FlattenMore ==
  ASSUME NEW S, NEW w \in Seq(Seq(S)), NEW x \in Seq(S)
  PROVE  /\ C!FlattenSeq(<<>>) = <<>>
         /\ C!FlattenSeq(Append(w, x)) = C!FlattenSeq(w) \o x
<1> DEFINE v == Append(w, x)
           n == Len(w)
           g == CHOOSE f : Joining(w, f)
           h == CHOOSE f : Joining(v, f)
<1>1. /\ n \in Nat /\ Len(v) = n + 1 /\ v[n + 1] = x /\ \A i \in 1 .. n : v[i] = w[i]
      /\ n = 0 => w = <<>>
  OBVIOUS
<1> HIDE DEF v, n
<1>2. Joining(w, g) /\ Joining(v, h)
  <2>1. Len(w) \in Nat /\ Len(v) \in Nat
    BY <1>1 DEF n
  <2> QED
    BY <2>1, JoiningDefined
<1>3. /\ C!FlattenSeq(w) = IF n = 0 THEN w ELSE g[n]
      /\ C!FlattenSeq(v) = IF Len(v) = 0 THEN v ELSE h[Len(v)]
  BY DEF C!FlattenSeq, Joining, n
<1> HIDE DEF g, h
<1>4. \A i \in 1 .. n : g[i] = h[i]
  <2>1. BeginAlike(w, g, v, h, n)
    BY <1>1, <1>2 DEF BeginAlike, n
  <2> QED
    BY <2>1, JoiningAgrees
<1>5. h[n + 1] = IF n + 1 = 1 THEN v[n + 1] ELSE h[(n + 1) - 1] \o v[n + 1]
  <2>1. n + 1 \in 1 .. Len(v)
    BY <1>1
  <2> QED
    BY <1>2, <2>1 DEF Joining
<1>6. C!FlattenSeq(v) = h[n + 1]
  BY <1>1, <1>3
<1>7. CASE n = 0
  <2>1. C!FlattenSeq(w) = <<>> /\ h[n + 1] = x
    BY <1>1, <1>3, <1>5, <1>7
  <2>2. <<>> \o x = x
    BY ConcatEmptySeq
  <2> QED
    BY <1>6, <2>1, <2>2 DEF v, C!FlattenSeq
<1>8. CASE n # 0
  <2>1. n \in 1 .. n /\ (n + 1) - 1 = n /\ n + 1 # 1
    BY <1>1, <1>8
  <2>2. h[n + 1] = g[n] \o x
    BY <1>1, <1>4, <1>5, <2>1
  <2> QED
    BY <1>3, <1>6, <1>8, <2>2 DEF v, C!FlattenSeq
<1> QED
  BY <1>7, <1>8

\* From behind the a-th up to the b-th of sequences, one behind the other.
Pieces(c, a, b) == C!FlattenSeq(SubSeq(c, a + 1, b))

LEMMA PiecesMore ==
  ASSUME NEW S, NEW c \in Seq(Seq(S)), NEW a \in Nat
  PROVE  /\ Pieces(c, a, a) = <<>>
         /\ \A b \in a .. Len(c) - 1 : Pieces(c, a, b + 1) = Pieces(c, a, b) \o c[b + 1]
<1>1. Pieces(c, a, a) = <<>>
  <2>1. SubSeq(c, a + 1, a) = <<>>
    BY SubSeqEmpty
  <2>2. C!FlattenSeq(<<>>) = <<>>
    BY DEF C!FlattenSeq
  <2> QED
    BY <2>1, <2>2 DEF Pieces
<1>2. ASSUME NEW b \in a .. Len(c) - 1
      PROVE  Pieces(c, a, b + 1) = Pieces(c, a, b) \o c[b + 1]
  <2>1. Len(c) \in Nat
    OBVIOUS
  <2>2. b \in Nat /\ a + 1 \in 1 .. Len(c) /\ b + 1 \in a + 1 .. Len(c) /\ (b + 1) - 1 = b
    BY <2>1
  <2>3. c[b + 1] \in Seq(S)
    BY <2>1, <2>2, ElementOfSeq
  <2>4. SubSeq(c, a + 1, b) \in Seq(Seq(S))
    BY <2>1, <2>2
  <2>5. SubSeq(c, a + 1, b + 1) = SubSeq(c, a + 1, (b + 1) - 1) \o << c[b + 1] >>
    BY <2>2, SubSeqRecursiveSecond
  <2>6. SubSeq(c, a + 1, b + 1) = Append(SubSeq(c, a + 1, b), c[b + 1])
    BY <2>2, <2>3, <2>4, <2>5, AppendIsConcat
  <2> QED
    BY <2>3, <2>4, <2>6, FlattenMore DEF Pieces
<1> QED
  BY <1>1, <1>2

LEMMA PiecesType ==
  ASSUME NEW S, NEW c \in Seq(Seq(S)), NEW a \in Nat, NEW b \in a .. Len(c)
  PROVE  Pieces(c, a, b) \in Seq(S)
<1> DEFINE T == {n \in Nat : Pieces(c, a, n) \in Seq(S)}
<1>0. Len(c) \in Nat /\ <<>> \in Seq(S)
  OBVIOUS
<1>1. a \in T
  BY <1>0, PiecesMore
<1>2. ASSUME NEW n \in a .. Len(c) - 1, n \in T
      PROVE  n + 1 \in T
  <2>1. n \in Nat /\ n + 1 \in 1 .. Len(c)
    OBVIOUS
  <2>2. c[n + 1] \in Seq(S)
    BY <2>1, ElementOfSeq
  <2>3. Pieces(c, a, n) \o c[n + 1] \in Seq(S)
    BY <1>2, <2>2, ConcatProperties
  <2>4. Pieces(c, a, n + 1) = Pieces(c, a, n) \o c[n + 1]
    BY PiecesMore
  <2>5. n + 1 \in Nat
    BY <2>1
  <2>6. Pieces(c, a, n + 1) \in Seq(S)
    BY <2>3, <2>4, Zenon
  <2> QED
    BY <2>5, <2>6, Zenon
<1> HIDE DEF T
<1>3. a .. Len(c) \subseteq T
  BY <1>0, <1>1, <1>2, Upwards
<1> QED
  BY <1>3 DEF T

LEMMA PiecesJoin ==
  ASSUME NEW S, NEW c \in Seq(Seq(S)), NEW a \in Nat, NEW m \in a .. Len(c), NEW b \in m .. Len(c)
  PROVE  Pieces(c, a, b) = Pieces(c, a, m) \o Pieces(c, m, b)
<1> DEFINE T == {n \in Nat : Pieces(c, a, n) = Pieces(c, a, m) \o Pieces(c, m, n)}
<1>0. Len(c) \in Nat /\ m \in Nat /\ Pieces(c, a, m) \in Seq(S)
  BY PiecesType
<1>1. m \in T
  <2>1. Pieces(c, m, m) = <<>>
    BY <1>0, PiecesMore
  <2>2. Pieces(c, a, m) \o <<>> = Pieces(c, a, m)
    BY <1>0, ConcatEmptySeq
  <2> QED
    BY <1>0, <2>1, <2>2
<1>2. ASSUME NEW n \in m .. Len(c) - 1, n \in T
      PROVE  n + 1 \in T
  <2>1. n \in Nat /\ n + 1 \in 1 .. Len(c) /\ n \in a .. Len(c) - 1 /\ n \in m .. Len(c)
    BY <1>0
  <2>2. c[n + 1] \in Seq(S) /\ Pieces(c, m, n) \in Seq(S)
    BY <1>0, <2>1, ElementOfSeq, PiecesType
  <2>3. /\ Pieces(c, a, n + 1) = Pieces(c, a, n) \o c[n + 1]
        /\ Pieces(c, m, n + 1) = Pieces(c, m, n) \o c[n + 1]
    BY <1>0, <2>1, PiecesMore
  <2>4. (Pieces(c, a, m) \o Pieces(c, m, n)) \o c[n + 1] = Pieces(c, a, m) \o (Pieces(c, m, n) \o c[n + 1])
    <3> DEFINE x == Pieces(c, a, m)
               y == Pieces(c, m, n)
               z == c[n + 1]
    <3>1. x \in Seq(S) /\ y \in Seq(S) /\ z \in Seq(S)
      BY <1>0, <2>2
    <3> HIDE DEF x, y, z
    <3>2. (x \o y) \o z = x \o (y \o z)
      BY <3>1, ConcatAssociative, SMTT(60)
    <3> QED
      BY <3>2 DEF x, y, z
  <2>5. n + 1 \in Nat /\ Pieces(c, a, n) = Pieces(c, a, m) \o Pieces(c, m, n)
    BY <1>2, <2>1
  <2>6. Pieces(c, a, n + 1) = Pieces(c, a, m) \o Pieces(c, m, n + 1)
    BY <2>3, <2>4, <2>5
  <2> QED
    BY <2>5, <2>6, Zenon
<1> HIDE DEF T
<1>3. m .. Len(c) \subseteq T
  BY <1>0, <1>1, <1>2, Upwards
<1> QED
  BY <1>3 DEF T

\* What is in the pieces is in one of them.
LEMMA PiecesHave ==
  ASSUME NEW S, NEW c \in Seq(Seq(S)), NEW a \in Nat, NEW b \in a .. Len(c), NEW x
  PROVE  x \in C!ToSet(Pieces(c, a, b)) <=> \E k \in a + 1 .. b : x \in C!ToSet(c[k])
<1> DEFINE Some(n) == \E k \in a + 1 .. n : x \in C!ToSet(c[k])
           T == {n \in Nat : x \in C!ToSet(Pieces(c, a, n)) <=> Some(n)}
<1>0. Len(c) \in Nat
  OBVIOUS
<1>1. a \in T
  <2>1. C!ToSet(<<>>) = {}
    BY DEF C!ToSet
  <2>2. a + 1 .. a = {}
    OBVIOUS
  <2> QED
    BY <2>1, <2>2, PiecesMore
<1>2. ASSUME NEW n \in a .. Len(c) - 1, n \in T
      PROVE  n + 1 \in T
  <2>1. n \in Nat /\ n + 1 \in 1 .. Len(c) /\ n \in a .. Len(c)
    OBVIOUS
  <2>2. c[n + 1] \in Seq(S) /\ Pieces(c, a, n) \in Seq(S)
    BY <2>1, ElementOfSeq, PiecesType
  <2>3. Pieces(c, a, n + 1) = Pieces(c, a, n) \o c[n + 1]
    BY PiecesMore
  <2>4. C!ToSet(Pieces(c, a, n + 1)) = C!ToSet(Pieces(c, a, n)) \cup C!ToSet(c[n + 1])
    BY <2>2, <2>3, SetOfJoined, ZenonT(60)
  <2>5. Some(n + 1) <=> Some(n) \/ x \in C!ToSet(c[n + 1])
    <3>1. a + 1 .. n + 1 = (a + 1 .. n) \cup {n + 1}
      BY <2>1
    <3> QED
      BY <3>1
  <2> HIDE DEF Some
  <2> QED
    BY <1>2, <2>1, <2>4, <2>5
<1> HIDE DEF T
<1>3. a .. Len(c) \subseteq T
  BY <1>0, <1>1, <1>2, Upwards
<1> QED
  BY <1>3 DEF T

LEMMA CommandConstants ==
  /\ Commands \in [Client -> Seq(Seq(Byte))]
  /\ calc_need_rd \in [Byte -> Nat \ {0}]
  /\ C!RingAssumption
  /\ \A f \in Client : \A k \in DOMAIN Commands[f] :
       /\ Commands[f][k] # <<>>
       /\ Len(Commands[f][k]) = calc_need_rd[Commands[f][k][1]]
       /\ \A g \in Client : \A l \in DOMAIN Commands[g] :
            Commands[f][k][1] \in C!ToSet(Commands[g][l]) => f = g /\ k = l
BY PartsAssumption DEF C!CommandPathAssumption

\* A command has its length, and at least one byte.
LEMMA CommandFacts ==
  ASSUME NEW f \in Client
  PROVE  /\ Commands[f] \in Seq(Seq(Byte)) /\ Len(Commands[f]) \in Nat
         /\ \A k \in 1 .. Len(Commands[f]) :
              /\ Commands[f][k] \in Seq(Byte) /\ Len(Commands[f][k]) \in Nat \ {0}
              /\ calc_need_rd[Commands[f][k][1]] = Len(Commands[f][k])
<1> DEFINE c == Commands[f]
<1>1. c \in Seq(Seq(Byte))
  BY CommandConstants
<1>2. Len(c) \in Nat /\ DOMAIN c = 1 .. Len(c)
  BY <1>1, LenProperties
<1>3. \A k \in 1 .. Len(c) : c[k] # <<>> /\ Len(c[k]) = calc_need_rd[c[k][1]]
  BY <1>2, CommandConstants
<1> HIDE DEF c
<1>4. ASSUME NEW k \in 1 .. Len(c)
      PROVE  c[k] \in Seq(Byte) /\ Len(c[k]) \in Nat \ {0}
  <2>1. c[k] \in Seq(Byte)
    BY <1>1, ElementOfSeq
  <2> QED
    BY <1>3, <2>1, EmptySeq
<1> QED
  BY <1>1, <1>2, <1>3, <1>4 DEF c

\* The recursion in inc_command_ptr.
Onward(s, g) ==
  g = [p \in 0 .. Len(s) |->
         IF p = Len(s) \/ p + calc_need_rd[s[p + 1]] > Len(s) THEN p
         ELSE g[p + calc_need_rd[s[p + 1]]]]

LEMMA OnwardDefined ==
  ASSUME NEW s \in Seq(Byte)
  PROVE  \E g : Onward(s, g)
<1> DEFINE e == Len(s)
           Step(p) == p + calc_need_rd[s[p + 1]]
           Stop(p) == p = e \/ Step(p) > e
           Part(n, g) == g = [p \in e - n .. e |-> IF Stop(p) THEN p ELSE g[Step(p)]]
           T == {n \in Nat : \E g : Part(n, g)}
<1>1. e \in Nat
  BY LenProperties
<1>2. ASSUME NEW p \in 0 .. e, ~Stop(p)
      PROVE  Step(p) \in p + 1 .. e
  <2>1. p + 1 \in 1 .. Len(s)
    BY <1>1, <1>2
  <2>2. s[p + 1] \in Byte
    BY <2>1, ElementOfSeq
  <2>3. calc_need_rd[s[p + 1]] \in Nat \ {0}
    BY <2>2, CommandConstants
  <2> QED
    BY <1>1, <1>2, <2>3
<1> HIDE DEF Step, e
<1>3. 0 \in T
  <2>1. Part(0, [p \in e - 0 .. e |-> p])
    <3>1. e - 0 = e /\ \A p \in e .. e : Stop(p)
      BY <1>1
    <3> HIDE DEF Stop
    <3> QED
      BY <3>1
  <2> HIDE DEF Part
  <2> QED
    BY <2>1
<1>4. ASSUME NEW m \in 0 .. e - 1, m \in T
      PROVE  m + 1 \in T
  <2>1. PICK g : Part(m, g)
    BY <1>4
  <2>2. m \in Nat /\ m + 1 <= e
    BY <1>1
  <2> DEFINE n == m + 1
             new == IF Stop(e - n) THEN e - n ELSE g[Step(e - n)]
             h == [p \in e - n .. e |-> IF p = e - n THEN new ELSE g[p]]
  <2>3. ASSUME NEW p \in e - n .. e
        PROVE  h[p] = IF Stop(p) THEN p ELSE h[Step(p)]
    <3>1. /\ p \in 0 .. e
          /\ ~Stop(p) => Step(p) \in e - m .. e /\ Step(p) \in e - n .. e /\ Step(p) # e - n
      BY <1>1, <1>2, <2>2
    <3>2. ~Stop(p) => h[Step(p)] = g[Step(p)]
      BY <3>1
    <3>3. CASE p = e - n
      BY <3>2, <3>3
    <3>4. CASE p # e - n
      <4>1. p \in e - m .. e
        BY <3>4, <1>1, <2>2
      <4>2. g[p] = IF Stop(p) THEN p ELSE g[Step(p)]
        <5> HIDE DEF Stop
        <5> QED
          BY <2>1, <4>1
      <4> QED
        BY <3>2, <3>4, <4>2
    <3> QED
      BY <3>3, <3>4
  <2>4. Part(n, h)
    <3> HIDE DEF Stop
    <3> QED
      BY <2>3
  <2>5. n \in Nat
    BY <2>2
  <2> HIDE DEF Part, h
  <2> QED
    BY <2>4, <2>5
<1> HIDE DEF T
<1>5. 0 .. e \subseteq T
  BY <1>1, <1>3, <1>4, Upwards
<1>6. e \in T
  BY <1>1, <1>5
<1>7. PICK g : Part(e, g)
  BY <1>6 DEF T
<1>8. e - e = 0
  BY <1>1
<1> QED
  BY <1>7, <1>8 DEF Onward, e, Step

\* s, with rest behind it, is what is behind the first a commands of f.
Comes(f, a, s, rest) ==
  /\ f \in Client /\ a \in 0 .. Len(Commands[f])
  /\ s \in Seq(Byte) /\ rest \in Seq(Byte)
  /\ s \o rest = Pieces(Commands[f], a, Len(Commands[f]))

\* Behind the k-th command, and within s, is the begin of the next.
LEMMA CommandBegins ==
  ASSUME NEW f, NEW a, NEW s, NEW rest, Comes(f, a, s, rest),
         NEW k \in a .. Len(Commands[f]),
         Len(Pieces(Commands[f], a, k)) < Len(s)
  PROVE  LET p == Len(Pieces(Commands[f], a, k)) IN
         /\ k + 1 \in a .. Len(Commands[f])
         /\ p + calc_need_rd[s[p + 1]] = Len(Pieces(Commands[f], a, k + 1))
<1> DEFINE c == Commands[f]
           L == Len(Commands[f])
           t == Pieces(c, a, L)
           p == Len(Pieces(c, a, k))
<1>0. /\ f \in Client /\ a \in 0 .. L /\ s \in Seq(Byte) /\ rest \in Seq(Byte) /\ s \o rest = t
  BY DEF Comes
<1>1. c \in Seq(Seq(Byte)) /\ L \in Nat /\ a \in Nat /\ k \in Nat
  BY <1>0, CommandFacts
<1>2. Len(c) = L
  OBVIOUS
<1> HIDE DEF c, L
<1>3. t \in Seq(Byte) /\ Pieces(c, a, k) \in Seq(Byte)
  BY <1>0, <1>1, <1>2, PiecesType DEF L
<1>4. /\ Len(t) = Len(s) + Len(rest)
      /\ \A i \in 1 .. Len(s) : t[i] = s[i]
  BY <1>0, ConcatProperties, LenProperties
<1>5. Len(s) \in Nat /\ Len(rest) \in Nat /\ p \in Nat
  BY <1>0, <1>3, LenProperties
<1>6. p < Len(s)
  BY DEF c
<1>7. k # L
  BY <1>4, <1>5, <1>6
<1>8. k \in a .. L /\ k \in a .. L - 1 /\ k + 1 \in a .. L /\ k + 1 \in 1 .. L /\ L \in k + 1 .. L
  BY <1>1, <1>7 DEF L
<1> DEFINE b == c[k + 1]
           q == Pieces(c, a, k)
           v == Pieces(c, k + 1, L)
<1>9. b \in Seq(Byte) /\ Len(b) \in Nat \ {0} /\ calc_need_rd[b[1]] = Len(b)
  BY <1>0, <1>8, CommandFacts DEF c, L
<1>10. Pieces(c, a, k + 1) = q \o b
  BY <1>1, <1>2, <1>8, PiecesMore
<1>11. v \in Seq(Byte) /\ t = Pieces(c, a, k + 1) \o v
  <2>1. k + 1 \in Nat
    BY <1>1
  <2>2. v \in Seq(Byte)
    BY <1>1, <1>2, <1>8, <2>1, PiecesType
  <2>3. t = Pieces(c, a, k + 1) \o v
    BY <1>1, <1>2, <1>8, <2>1, PiecesJoin
  <2> QED
    BY <2>2, <2>3
<1> HIDE DEF t, b, q, v
<1>12. t = (q \o b) \o v
  BY <1>10, <1>11
<1>13. q \in Seq(Byte) /\ Len(q) = p
  BY <1>3 DEF q
<1> HIDE DEF p
<1>14. t[p + 1] = b[1] /\ Len(q \o b) = p + Len(b)
  <2>1. /\ q \o b \in Seq(Byte) /\ Len(q \o b) = p + Len(b)
        /\ \A i \in 1 .. p + Len(b) : (q \o b)[i] = IF i <= p THEN q[i] ELSE b[i - p]
    BY <1>9, <1>13, ConcatProperties
  <2>2. p + 1 \in 1 .. p + Len(b) /\ ~(p + 1 <= p) /\ (p + 1) - p = 1
    BY <1>5, <1>9
  <2>3. (q \o b)[p + 1] = b[1]
    BY <2>1, <2>2
  <2> DEFINE w == q \o b
  <2> HIDE DEF w
  <2>4. \A i \in 1 .. Len(w) + Len(v) : (w \o v)[i] = IF i <= Len(w) THEN w[i] ELSE v[i - Len(w)]
    BY <1>11, <2>1, ConcatProperties DEF w
  <2>5. Len(v) \in Nat
    BY <1>11, LenProperties
  <2>6. Len(w) = p + Len(b)
    BY <2>1 DEF w
  <2>7. p + 1 \in 1 .. Len(w) + Len(v) /\ p + 1 <= Len(w)
    BY <2>2, <2>5, <2>6
  <2>8. (w \o v)[p + 1] = w[p + 1]
    BY <2>4, <2>7
  <2> QED
    BY <1>12, <2>1, <2>3, <2>8 DEF w
<1>15. s[p + 1] = b[1]
  <2>1. p + 1 \in 1 .. Len(s)
    BY <1>5, <1>6
  <2> QED
    BY <1>4, <1>14, <2>1
<1>16. p + calc_need_rd[s[p + 1]] = Len(Pieces(c, a, k + 1))
  BY <1>9, <1>10, <1>14, <1>15 DEF q
<1> QED
  BY <1>8, <1>16 DEF c, L, p

\* inc_command_ptr ends behind a command.
LEMMA EndsWhole ==
  ASSUME NEW f, NEW a, NEW s, NEW rest, Comes(f, a, s, rest)
  PROVE  \E m \in a .. Len(Commands[f]) :
           /\ C!inc_command_ptr(s) = Len(Pieces(Commands[f], a, m))
           /\ Len(Pieces(Commands[f], a, m)) <= Len(s)
<1> DEFINE L == Len(Commands[f])
           To(k) == Len(Pieces(Commands[f], a, k))
           g == CHOOSE h : Onward(s, h)
           Reaches(k) == To(k) <= Len(s) =>
                         \E m \in a .. L : g[To(k)] = To(m) /\ To(m) <= Len(s)
           T == {n \in Nat : n <= L - a => Reaches(L - n)}
<1>0. /\ f \in Client /\ a \in 0 .. L /\ s \in Seq(Byte) /\ rest \in Seq(Byte)
      /\ s \o rest = Pieces(Commands[f], a, L)
  BY DEF Comes
<1>1. Onward(s, g)
  BY <1>0, OnwardDefined
<1>2. C!inc_command_ptr(s) = g[0]
  BY DEF C!inc_command_ptr, Onward
<1>3. Commands[f] \in Seq(Seq(Byte)) /\ L \in Nat /\ a \in Nat /\ Len(s) \in Nat
  BY <1>0, CommandFacts, LenProperties
<1>4. ASSUME NEW k \in a .. L
      PROVE  /\ To(k) \in Nat
             /\ To(k) < Len(s) =>
                  k + 1 \in a .. L /\ To(k) + calc_need_rd[s[To(k) + 1]] = To(k + 1)
  <2>1. Pieces(Commands[f], a, k) \in Seq(Byte)
    BY <1>3, PiecesType
  <2>2. To(k) < Len(s) =>
          k + 1 \in a .. L /\ To(k) + calc_need_rd[s[To(k) + 1]] = To(k + 1)
    BY CommandBegins
  <2> QED
    BY <2>1, <2>2, LenProperties
<1>5. To(a) = 0
  BY <1>3, PiecesMore
<1> HIDE DEF To, g, L
<1>6. ASSUME NEW p \in 0 .. Len(s)
      PROVE  g[p] = IF p = Len(s) \/ p + calc_need_rd[s[p + 1]] > Len(s) THEN p
                    ELSE g[p + calc_need_rd[s[p + 1]]]
  BY <1>1 DEF Onward
<1>7. ASSUME NEW k \in a .. L, k + 1 \in a .. L => Reaches(k + 1)
      PROVE  Reaches(k)
  <2> SUFFICES ASSUME To(k) <= Len(s)
               PROVE  \E m \in a .. L : g[To(k)] = To(m) /\ To(m) <= Len(s)
    OBVIOUS
  <2>1. To(k) \in 0 .. Len(s)
    BY <1>3, <1>4
  <2>2. CASE g[To(k)] = To(k)
    BY <2>1, <2>2
  <2>3. CASE g[To(k)] # To(k)
    <3>1. /\ To(k) # Len(s) /\ ~(To(k) + calc_need_rd[s[To(k) + 1]] > Len(s))
          /\ g[To(k)] = g[To(k) + calc_need_rd[s[To(k) + 1]]]
      BY <1>6, <2>1, <2>3
    <3>2. To(k) < Len(s)
      BY <1>3, <2>1, <3>1
    <3>3. k + 1 \in a .. L /\ To(k) + calc_need_rd[s[To(k) + 1]] = To(k + 1)
      BY <1>4, <3>2
    <3>4. To(k + 1) <= Len(s)
      <4>1. To(k + 1) \in Nat
        BY <1>4, <3>3
      <4> QED
        BY <1>3, <3>1, <3>3, <4>1
    <3>5. PICK m \in a .. L : g[To(k + 1)] = To(m) /\ To(m) <= Len(s)
      BY <1>7, <3>3, <3>4
    <3>6. g[To(k)] = To(m)
      BY <3>1, <3>3, <3>5
    <3> QED
      BY <3>5, <3>6
  <2> QED
    BY <2>2, <2>3
<1> HIDE DEF Reaches
<1>8. 0 \in T
  <2>1. L \in a .. L /\ L + 1 \notin a .. L /\ L - 0 = L
    BY <1>0, <1>3
  <2> QED
    BY <1>7, <2>1
<1>9. ASSUME NEW n \in 0 .. (L - a) - 1, n \in T
      PROVE  n + 1 \in T
  <2>1. n \in Nat /\ L - (n + 1) \in a .. L /\ (L - (n + 1)) + 1 = L - n /\ n <= L - a
    BY <1>3
  <2>2. Reaches(L - n)
    BY <1>9, <2>1
  <2> QED
    BY <1>7, <2>1, <2>2
<1> HIDE DEF T
<1>10. 0 .. L - a \subseteq T
  <2>1. L - a \in Nat
    BY <1>0, <1>3
  <2> QED
    BY <1>8, <1>9, <2>1, Upwards
<1>11. Reaches(a)
  <2>1. L - a \in 0 .. L - a /\ L - (L - a) = a /\ L - a <= L - a
    BY <1>0, <1>3
  <2> QED
    BY <1>10, <2>1 DEF T
<1>12. \E m \in a .. L : g[To(a)] = To(m) /\ To(m) <= Len(s)
  BY <1>3, <1>5, <1>11 DEF Reaches
<1> QED
  BY <1>2, <1>5, <1>12 DEF To, L

\* What a client has completed are its next commands, and the others come.
LEMMA WholeCommands ==
  ASSUME NEW f, NEW a, NEW s, NEW rest, Comes(f, a, s, rest)
  PROVE  \E m \in a .. Len(Commands[f]) :
           /\ SubSeq(s, 1, C!Whole(s)) = Pieces(Commands[f], a, m)
           /\ Comes(f, m, C!Rest(s, C!Whole(s) + 1), rest)
<1> DEFINE c == Commands[f]
           L == Len(Commands[f])
<1>0. /\ f \in Client /\ a \in 0 .. L /\ s \in Seq(Byte) /\ rest \in Seq(Byte)
      /\ s \o rest = Pieces(c, a, L)
  BY DEF Comes
<1>1. c \in Seq(Seq(Byte)) /\ L \in Nat /\ a \in Nat /\ Len(s) \in Nat /\ Len(c) = L
  BY <1>0, CommandFacts, LenProperties
<1>2. PICK m \in a .. L : /\ C!inc_command_ptr(s) = Len(Pieces(c, a, m))
                          /\ Len(Pieces(c, a, m)) <= Len(s)
  BY EndsWhole
<1> HIDE DEF c, L
<1> DEFINE w == Pieces(c, a, m)
           v == Pieces(c, m, L)
           n == Len(w)
<1>3. m \in Nat /\ m \in a .. Len(c) /\ L \in m .. Len(c)
  BY <1>0, <1>1, <1>2
<1>4. w \in Seq(Byte) /\ v \in Seq(Byte) /\ Pieces(c, a, L) = w \o v
  BY <1>1, <1>3, PiecesType, PiecesJoin
<1>5. C!Whole(s) = n /\ n \in 0 .. Len(s)
  <2>1. n \in Nat
    BY <1>4, LenProperties
  <2> QED
    BY <1>1, <1>2, <2>1 DEF C!Whole
<1> HIDE DEF w, v
<1>6. s \o rest = w \o v
  BY <1>0, <1>4
<1>7. /\ SubSeq(s, 1, n) = w
      /\ SubSeq(s, n + 1, Len(s)) \in Seq(Byte)
      /\ SubSeq(s, n + 1, Len(s)) \o rest = v
  <2>1. SameWhole(Byte, s, rest, w, v)
    BY <1>0, <1>2, <1>4, <1>6 DEF SameWhole, w
  <2> HIDE DEF n
  <2>2. /\ SubSeq(s, 1, Len(w)) = w
        /\ SubSeq(s, Len(w) + 1, Len(s)) \in Seq(Byte)
        /\ SubSeq(s, Len(w) + 1, Len(s)) \o rest = v
    BY <2>1, SplitTheSame
  <2> QED
    BY <2>2 DEF n
<1>8. Comes(f, m, C!Rest(s, n + 1), rest)
  <2>1. m \in 0 .. L
    BY <1>1, <1>2
  <2> QED
    BY <1>0, <1>7, <2>1 DEF Comes, C!Rest, v, c, L
<1> QED
  BY <1>2, <1>5, <1>7, <1>8 DEF w, c, L

R == INSTANCE RingBufferProofs

\* The ring of the commands is the one that RingBufferProofs is about.
LEMMA SameRing ==
  ASSUME NEW r
  PROVE  /\ C!RingTypeOK(r) <=> R!RingTypeOK(r)
         /\ C!begin(r) = R!begin(r) /\ C!end(r) = R!end(r)
         /\ \A p : /\ C!From(r, p) = R!From(r, p)
                     /\ C!WriteCount(r, p) = R!WriteCount(r, p)
                     /\ C!Given(r, p) = R!Given(r, p)
         /\ \A n : C!Grown(r, n) = R!Grown(r, n) /\ C!erase(r, n) = R!erase(r, n)
         /\ \A v : C!AddDiff(r, v) = R!AddDiff(r, v) /\ C!add(r, v) = R!add(r, v)
<1>1. \A q : C!begin(q) = R!begin(q) /\ C!end(q) = R!end(q)
  BY DEF C!begin, C!end, R!begin, R!end
<1>2. \A q, x : C!Wrap(q, x) = R!Wrap(q, x)
  BY DEF C!Wrap, R!Wrap
<1>3. \A q, p : C!Get(q, p) = R!Get(q, p)
  BY <1>2 DEF C!Get, R!Get
<1>4. \A d, c, b, z, o : C!Ring(d, c, b, z, o) = R!Ring(d, c, b, z, o)
  BY DEF C!Ring, R!Ring
<1>5. \A q, a, c : C!Ahead(q, a, c) = R!Ahead(q, a, c)
  BY DEF C!Ahead, R!Ahead
<1>6. C!RingTypeOK(r) <=> R!RingTypeOK(r)
  BY <1>1, <1>3, <1>4 DEF C!RingTypeOK, R!RingTypeOK
<1>7. \A p : /\ C!From(r, p) = R!From(r, p)
              /\ C!WriteCount(r, p) = R!WriteCount(r, p)
  BY <1>1, <1>2, <1>3 DEF C!From, R!From, C!WriteCount, R!WriteCount
<1>8. \A p : C!Given(r, p) = R!Given(r, p)
  BY <1>2, <1>7 DEF C!Given, R!Given
<1>9. \A q, n : C!realloc(q, n) = R!realloc(q, n)
  BY <1>1, <1>3, <1>4 DEF C!realloc, R!realloc
<1>10. \A n : C!Grown(r, n) = R!Grown(r, n)
  BY <1>9 DEF C!Grown, R!Grown
<1>11. \A n : C!Dropped(r, n) = R!Dropped(r, n)
  BY <1>2, <1>4, <1>5 DEF C!Dropped, R!Dropped
<1>12. \A n : C!erase(r, n) = R!erase(r, n)
  BY <1>9, <1>11 DEF C!erase, R!erase, C!Trimmed, R!Trimmed
<1>13. \A v : C!AddDiff(r, v) = R!AddDiff(r, v)
  BY <1>1 DEF C!AddDiff, R!AddDiff
<1>14. \A q, v, o : C!Stored(q, v, o) = R!Stored(q, v, o)
  BY <1>2, <1>4, <1>5 DEF C!Stored, R!Stored
<1>15. \A v : C!add(r, v) = R!add(r, v)
  BY <1>10, <1>13, <1>14 DEF C!add, R!add
<1> QED
  BY <1>1, <1>6, <1>7, <1>8, <1>10, <1>12, <1>13, <1>15

LEMMA TheirRing == R!RingAssumption
BY CommandConstants DEF C!RingAssumption, R!RingAssumption

\* Commands are put behind what is in the ring, and its first byte's number is known.
LEMMA CommandsAdded ==
  ASSUME NEW r, C!RingTypeOK(r), NEW v \in Seq(Byte), v # <<>>
  PROVE  LET q == C!add(r, v)
             p == C!begin(r) - C!AddDiff(C!Grown(r, Len(v)), v)
         IN /\ C!RingTypeOK(q) /\ p = C!begin(q)
            /\ C!From(q, p) = C!From(r, C!begin(r)) \o v
<1> DEFINE q == R!add(r, v)
           b == R!begin(r)
           d == R!AddDiff(r, v)
<1>1. R!RingTypeOK(r) /\ b \in R!begin(r) .. R!end(r)
  <2>1. R!RingTypeOK(r)
    BY SameRing
  <2>2. R!begin(r) \in Nat /\ R!end(r) \in Nat /\ R!begin(r) <= R!end(r)
    BY <2>1, R!Numbers, TheirRing DEF R!RingAssumption
  <2> QED
    BY <2>1, <2>2
<1>2. R!RingTypeOK(q) /\ R!begin(q) = b - d
  BY <1>1, R!AddKeeps, TheirRing DEF R!RingAssumption
<1>3. R!From(q, b - d) = R!From(r, b) \o v
  BY <1>1, R!Longer, TheirRing DEF R!RingAssumption
<1>4. R!AddDiff(R!Grown(r, Len(v)), v) = d
  BY R!SameDiff, TheirRing DEF R!RingAssumption
<1>5. /\ C!add(r, v) = q /\ C!begin(r) = b /\ C!From(r, b) = R!From(r, b)
      /\ C!Grown(r, Len(v)) = R!Grown(r, Len(v))
  BY SameRing
<1> HIDE DEF q, d, b
<1>6. C!AddDiff(R!Grown(r, Len(v)), v) = d
  BY <1>4, SameRing
<1>7. C!RingTypeOK(q) /\ C!begin(q) = b - d /\ C!From(q, b - d) = R!From(q, b - d)
  BY <1>2, SameRing
<1> QED
  BY <1>3, <1>5, <1>6, <1>7

\* What the device takes of the ring, and what is left in it, are what there was.
LEMMA CommandsTaken ==
  ASSUME NEW r, C!RingTypeOK(r), NEW n \in 0 .. C!WriteCount(r, C!begin(r))
  PROVE  LET taken == SubSeq(C!Given(r, C!begin(r)), 1, n)
             q == C!erase(r, n)
         IN /\ taken \in Seq(Byte) /\ C!RingTypeOK(q) /\ C!begin(q) = C!begin(r) + n
            /\ taken \o C!From(q, C!begin(q)) = C!From(r, C!begin(r))
<1> DEFINE b == R!begin(r)
           q == R!erase(r, n)
           g == R!Given(r, b)
           taken == SubSeq(g, 1, n)
<1>1. /\ C!begin(r) = b /\ C!erase(r, n) = q /\ C!Given(r, b) = g /\ R!RingTypeOK(r)
      /\ C!WriteCount(r, b) = R!WriteCount(r, b) /\ C!From(r, b) = R!From(r, b)
  BY SameRing
<1>2. n \in 0 .. R!WriteCount(r, R!begin(r))
  BY <1>1
<1>3. /\ taken \in Seq(Byte) /\ R!RingTypeOK(q) /\ R!begin(q) = b + n
      /\ taken \o R!From(q, R!begin(q)) = R!From(r, b)
  BY <1>1, <1>2, R!TakenAndLeft, TheirRing DEF R!RingAssumption
<1> HIDE DEF q, b, g, taken
<1>4. /\ C!RingTypeOK(q) /\ C!begin(q) = R!begin(q)
      /\ C!From(q, R!begin(q)) = R!From(q, R!begin(q))
  BY <1>3, SameRing
<1> QED
  BY <1>1, <1>3, <1>4 DEF taken

\* The bytes that are still in the ring.
LEMMA CommandsLeft ==
  ASSUME NEW r, C!RingTypeOK(r)
  PROVE  C!From(r, C!begin(r)) \in Seq(Byte)
<1> DEFINE b == R!begin(r)
<1>1. C!begin(r) = b /\ R!RingTypeOK(r) /\ C!From(r, b) = R!From(r, b)
  BY SameRing
<1>2. R!begin(r) \in Nat /\ R!end(r) \in Nat /\ R!begin(r) <= R!end(r)
  BY <1>1, R!Numbers, TheirRing DEF R!RingAssumption
<1>3. b \in R!begin(r) .. R!end(r)
  BY <1>2
<1>4. R!From(r, b) \in Seq(Byte)
  BY <1>1, <1>3, R!FromTyped, TheirRing DEF R!RingAssumption
<1> QED
  BY <1>1, <1>4

(***************************************************************************)
(* What has been passed on.                                                *)
(***************************************************************************)
Line == player \o C!From(data, pos)

\* Of f's commands the first got[f] have been passed on, the others come.
PassedOn(got) ==
  /\ got \in [Client -> Nat]
  /\ \A f \in Client :
       /\ got[f] <= Len(Commands[f])
       /\ \A k \in 1 .. Len(Commands[f]) : Commands[f][k][1] \in C!ToSet(Line) <=> k <= got[f]
       /\ f \in senders => Comes(f, got[f], readed_data[f], unread[f])

CommandInv == C!TypeOK /\ \E got : PassedOn(got)

LEMMA CommandInit == C!Init => CommandInv /\ Line = <<>>
<1> SUFFICES ASSUME C!Init
             PROVE  CommandInv /\ Line = <<>>
  OBVIOUS
<1>0. /\ senders = Client /\ unread = [f \in Client |-> C!FlattenSeq(Commands[f])]
      /\ readed_data = [f \in Client |-> <<>>]
      /\ data = C!EmptyRing /\ pos = 0 /\ polled = FALSE /\ player = <<>>
  BY DEF C!Init
<1>1. <<>> \in Seq(Byte)
  OBVIOUS
<1>2. /\ data = [data |-> [c \in {} |-> junk], capacity |-> 0, begin_v |-> 0,
                 size_v |-> 0, offset_in_history |-> 0]
      /\ C!begin(data) = 0 /\ C!end(data) = 0
  BY <1>0 DEF C!EmptyRing, C!Ring, C!begin, C!end
<1>3. C!RingTypeOK(data)
  <2>1. 0 .. 0 - 1 = {}
    OBVIOUS
  <2>2. data.data \in [0 .. data.capacity - 1 -> Byte \cup {junk}]
    BY <1>2, <2>1
  <2> QED
    BY <1>2, <2>1, <2>2 DEF C!RingTypeOK, C!Ring
<1>4. Line = <<>>
  <2>1. C!From(data, pos) = <<>>
    BY <1>0, <1>2 DEF C!From
  <2> QED
    BY <1>0, <2>1 DEF Line
<1>5. ASSUME NEW f \in Client
      PROVE  unread[f] \in Seq(Byte) /\ Comes(f, 0, readed_data[f], unread[f])
  <2>1. Commands[f] \in Seq(Seq(Byte)) /\ Len(Commands[f]) \in Nat
    BY CommandFacts
  <2>2. SubSeq(Commands[f], 0 + 1, Len(Commands[f])) = Commands[f]
    BY <2>1, SubSeqFull
  <2>3. unread[f] = Pieces(Commands[f], 0, Len(Commands[f]))
    BY <1>0, <2>2 DEF Pieces
  <2>4. unread[f] \in Seq(Byte)
    BY <2>1, <2>3, PiecesType
  <2>5. <<>> \o unread[f] = unread[f]
    BY <2>4, ConcatEmptySeq
  <2> QED
    BY <1>0, <1>1, <2>1, <2>3, <2>4, <2>5 DEF Comes
<1>6. C!TypeOK
  <2>1. unread \in [Client -> Seq(Byte)]
    BY <1>0, <1>5
  <2> QED
    BY <1>0, <1>1, <1>2, <1>3, <2>1 DEF C!TypeOK
<1>7. PassedOn([f \in Client |-> 0])
  <2>1. C!ToSet(Line) = {}
    BY <1>4 DEF C!ToSet
  <2>2. ASSUME NEW f \in Client
        PROVE  /\ 0 <= Len(Commands[f])
               /\ \A k \in 1 .. Len(Commands[f]) : Commands[f][k][1] \in C!ToSet(Line) <=> k <= 0
               /\ Comes(f, 0, readed_data[f], unread[f])
    <3>1. Len(Commands[f]) \in Nat
      BY CommandFacts
    <3> QED
      BY <1>5, <2>1, <3>1
  <2> QED
    BY <2>2 DEF PassedOn
<1> QED
  BY <1>4, <1>6, <1>7 DEF CommandInv

\* The abstract module's operators on sets and sequences are the same.
LEMMA SameOperators ==
  /\ \A S : C!Stream!Cardinality(S) = Cardinality(S)
  /\ \A w : C!Stream!FlattenSeq(w) = C!FlattenSeq(w)
<1>1. ASSUME NEW S
      PROVE  C!Stream!Cardinality(S) = Cardinality(S)
  BY DEF C!Stream!Cardinality, Cardinality
<1>2. ASSUME NEW w
      PROVE  C!Stream!FlattenSeq(w) = C!FlattenSeq(w)
  BY DEF C!Stream!FlattenSeq, C!FlattenSeq
<1> QED
  BY <1>1, <1>2

\* As many of a client's commands are told by their first bytes as are passed on.
LEMMA PassedCount ==
  ASSUME NEW got, PassedOn(got), NEW f \in Client
  PROVE  C!Stream!Passed(f) = got[f]
<1>1. Commands[f] \in Seq(Seq(Byte)) /\ got[f] \in 0 .. Len(Commands[f]) /\ Len(Commands[f]) \in Nat
  BY CommandFacts DEF PassedOn
<1>2. DOMAIN Commands[f] = 1 .. Len(Commands[f])
  BY <1>1, LenProperties
<1>3. C!Stream!ToSet(player \o C!From(data, pos)) = C!ToSet(Line)
  BY DEF C!Stream!ToSet, C!ToSet, Line
<1>4. {k \in DOMAIN Commands[f] : Commands[f][k][1] \in C!ToSet(Line)} = 1 .. got[f]
  <2>1. \A k \in 1 .. Len(Commands[f]) : Commands[f][k][1] \in C!ToSet(Line) <=> k <= got[f]
    BY DEF PassedOn
  <2> QED
    BY <1>1, <1>2, <2>1
<1>5. Cardinality(1 .. got[f]) = got[f]
  <2> DEFINE m == got[f]
  <2>1. m \in Nat
    BY <1>1
  <2> HIDE DEF m
  <2>2. Cardinality(1 .. m) = m
    BY <2>1, FS_Interval
  <2> QED
    BY <2>2 DEF m
<1>6. C!Stream!Passed(f) = C!Stream!Cardinality(1 .. got[f])
  BY <1>3, <1>4 DEF C!Stream!Passed
<1> QED
  BY <1>5, <1>6, SameOperators

\* A first byte tells its command.
LEMMA FirstByteTells ==
  ASSUME NEW f \in Client, NEW k \in 1 .. Len(Commands[f]),
         NEW g \in Client, NEW l \in 1 .. Len(Commands[g])
  PROVE  Commands[f][k][1] \in C!ToSet(Commands[g][l]) <=> f = g /\ k = l
<1>1. \A h \in Client : DOMAIN Commands[h] = 1 .. Len(Commands[h])
  <2>1. \A h \in Client : Commands[h] \in Seq(Seq(Byte))
    BY CommandFacts
  <2> QED
    BY <2>1, LenProperties
<1>2. Commands[f][k][1] \in C!ToSet(Commands[g][l]) => f = g /\ k = l
  <2>1. k \in DOMAIN Commands[f] /\ l \in DOMAIN Commands[g]
    BY <1>1
  <2> QED
    BY <2>1, CommandConstants, ZenonT(60)
<1>3. Commands[f][k][1] \in C!ToSet(Commands[f][k])
  <2>1. Commands[f][k] \in Seq(Byte) /\ Len(Commands[f][k]) \in Nat \ {0}
    BY CommandFacts
  <2>2. 1 \in DOMAIN Commands[f][k]
    BY <2>1, LenProperties
  <2> QED
    BY <2>2 DEF C!ToSet
<1> QED
  BY <1>2, <1>3

\* What is passed on is put behind what has been.
LEMMA AppendStep ==
  ASSUME CommandInv, NEW v \in Seq(Byte), C!append(v), player' = player
  PROVE  /\ C!RingTypeOK(data') /\ pos' = C!begin(data') /\ polled' \in BOOLEAN
         /\ Line \in Seq(Byte) /\ Line' = Line \o v
<1>0. C!RingTypeOK(data) /\ pos = C!begin(data) /\ polled \in BOOLEAN /\ player \in Seq(Byte)
  BY DEF CommandInv, C!TypeOK
<1> DEFINE t == C!From(data, pos)
<1>1. t \in Seq(Byte)
  BY <1>0, CommandsLeft
<1>2. Line = player \o t
  BY DEF Line
<1>3. Line \in Seq(Byte)
  BY <1>0, <1>1, <1>2, ConcatProperties
<1>4. Line' = player \o C!From(data', pos')
  BY DEF Line
<1>5. CASE v = <<>>
  <2>1. data' = data /\ pos' = pos /\ polled' = polled
    BY <1>5 DEF C!append, C!com
  <2>2. Line' = Line
    BY <1>4, <2>1 DEF Line
  <2>3. Line \o <<>> = Line
    BY <1>3, ConcatEmptySeq
  <2> QED
    BY <1>0, <1>3, <1>5, <2>1, <2>2, <2>3
<1>6. CASE v # <<>>
  <2>1. /\ data' = C!add(data, v)
        /\ polled' = (polled \/ pos = C!end(data))
        /\ pos' = pos - C!AddDiff(C!Grown(data, Len(v)), v)
    BY <1>6 DEF C!append, C!Woken, C!Lowered
  <2>2. /\ C!RingTypeOK(data') /\ pos' = C!begin(data')
        /\ C!From(data', pos') = t \o v
    BY <1>0, <1>6, <2>1, CommandsAdded
  <2>3. polled' \in BOOLEAN
    BY <1>0, <2>1, Zenon
  <2> HIDE DEF t
  <2>4. player \o (t \o v) = (player \o t) \o v
    BY <1>0, <1>1, ConcatAssociative
  <2>5. Line' = Line \o v
    BY <1>2, <1>4, <2>2, <2>4
  <2> QED
    BY <1>3, <2>2, <2>3, <2>5
<1> QED
  BY <1>5, <1>6

\* A client's bytes are read: what it has completed is passed on.
LEMMA ReadStep ==
  ASSUME CommandInv, NEW f \in Client, NEW n \in 1 .. MaxRead, C!read(f, n)
  PROVE  CommandInv' /\ (C!Stream!Pass(f) \/ Line' = Line)
<1>0. /\ f \in senders /\ n \in 1 .. Len(unread[f])
      /\ senders' = senders /\ player' = player
      /\ unread' = [unread EXCEPT ![f] = C!Rest(unread[f], n + 1)]
  <2>1. /\ f \in senders /\ n <= Len(unread[f])
        /\ senders' = senders /\ player' = player
        /\ unread' = [unread EXCEPT ![f] = C!Rest(unread[f], n + 1)]
    BY DEF C!read
  <2>2. unread[f] \in Seq(Byte)
    BY DEF CommandInv, C!TypeOK
  <2> QED
    BY <2>1, <2>2, LenProperties
<1> DEFINE s == readed_data[f] \o SubSeq(unread[f], 1, n)
           rest == C!Rest(unread[f], n + 1)
           whole == SubSeq(s, 1, C!Whole(s))
           c == Commands[f]
<1>1. readed_data' = [readed_data EXCEPT ![f] = C!Rest(s, C!Whole(s) + 1)] /\ C!append(whole)
  BY DEF C!read
<1>2. /\ C!TypeOK /\ unread[f] \in Seq(Byte) /\ readed_data[f] \in Seq(Byte)
      /\ unread \in [Client -> Seq(Byte)] /\ readed_data \in [Client -> Seq(Byte)]
      /\ senders \subseteq Client
  BY DEF CommandInv, C!TypeOK
<1>3. PICK got : PassedOn(got)
  BY DEF CommandInv
<1>4. Comes(f, got[f], readed_data[f], unread[f])
  BY <1>0, <1>3 DEF PassedOn
<1>5. Comes(f, got[f], s, rest)
  <2>1. /\ s \in Seq(Byte) /\ rest \in Seq(Byte) /\ s \o rest = readed_data[f] \o unread[f]
    <3> DEFINE t == readed_data[f]
               u == unread[f]
    <3>1. t \in Seq(Byte) /\ u \in Seq(Byte) /\ n \in 1 .. Len(u)
      BY <1>0, <1>2
    <3> HIDE DEF t, u
    <3>2. /\ t \o SubSeq(u, 1, n) \in Seq(Byte) /\ SubSeq(u, n + 1, Len(u)) \in Seq(Byte)
          /\ (t \o SubSeq(u, 1, n)) \o SubSeq(u, n + 1, Len(u)) = t \o u
      BY <3>1, MovedOver, ZenonT(60)
    <3> QED
      BY <3>2 DEF t, u, C!Rest
  <2> HIDE DEF s, rest
  <2> QED
    BY <1>4, <2>1 DEF Comes
<1> HIDE DEF s, rest
<1>6. PICK m \in got[f] .. Len(c) :
        whole = Pieces(c, got[f], m) /\ Comes(f, m, C!Rest(s, C!Whole(s) + 1), rest)
  BY <1>5, WholeCommands
<1>7. c \in Seq(Seq(Byte)) /\ Len(c) \in Nat /\ got[f] \in Nat /\ got \in [Client -> Nat]
  BY <1>3, CommandFacts DEF PassedOn
<1>8. whole \in Seq(Byte)
  BY <1>6, <1>7, PiecesType
<1> HIDE DEF whole
<1>9. /\ C!RingTypeOK(data') /\ pos' = C!begin(data') /\ polled' \in BOOLEAN
      /\ Line \in Seq(Byte) /\ Line' = Line \o whole
  BY <1>0, <1>1, <1>8, AppendStep
<1>10. C!TypeOK'
  <2>1. /\ C!Rest(s, C!Whole(s) + 1) \in Seq(Byte) /\ rest \in Seq(Byte)
    BY <1>6 DEF Comes
  <2>2. /\ unread' \in [Client -> Seq(Byte)] /\ readed_data' \in [Client -> Seq(Byte)]
    BY <1>0, <1>1, <1>2, <2>1 DEF rest
  <2> QED
    BY <1>0, <1>2, <1>9, <2>2 DEF C!TypeOK
<1> DEFINE got2 == [got EXCEPT ![f] = m]
<1>11. PassedOn(got2)'
  <2>1. got2 \in [Client -> Nat]
    BY <1>6, <1>7
  <2>2. C!ToSet(Line') = C!ToSet(Line) \cup C!ToSet(whole)
    BY <1>8, <1>9, SetOfJoined
  <2>3. ASSUME NEW g \in Client, NEW k \in 1 .. Len(Commands[g])
        PROVE  Commands[g][k][1] \in C!ToSet(whole) <=> g = f /\ k \in got[f] + 1 .. m
    <3>1. Commands[g][k][1] \in C!ToSet(whole)
            <=> \E l \in got[f] + 1 .. m : Commands[g][k][1] \in C!ToSet(c[l])
      BY <1>6, <1>7, PiecesHave
    <3>2. \A l \in got[f] + 1 .. m : l \in 1 .. Len(c)
      BY <1>6, <1>7
    <3>3. \A l \in got[f] + 1 .. m : Commands[g][k][1] \in C!ToSet(c[l]) <=> g = f /\ k = l
      BY <3>2, FirstByteTells
    <3> QED
      BY <3>1, <3>3, Zenon
  <2>4. ASSUME NEW g \in Client
        PROVE  /\ got2[g] <= Len(Commands[g])
               /\ \A k \in 1 .. Len(Commands[g]) :
                    Commands[g][k][1] \in C!ToSet(Line') <=> k <= got2[g]
               /\ g \in senders => Comes(g, got2[g], readed_data'[g], unread'[g])
    <3>1. /\ got[g] <= Len(Commands[g])
          /\ \A k \in 1 .. Len(Commands[g]) : Commands[g][k][1] \in C!ToSet(Line) <=> k <= got[g]
          /\ g \in senders => Comes(g, got[g], readed_data[g], unread[g])
      BY <1>3 DEF PassedOn
    <3>2. CASE g = f
      <4>1. got2[g] = m /\ m \in Nat /\ m <= Len(c) /\ got[f] <= m
        BY <1>6, <1>7, <3>2
      <4>2. ASSUME NEW k \in 1 .. Len(Commands[g])
            PROVE  Commands[g][k][1] \in C!ToSet(Line') <=> k <= m
        <5>1. Commands[g][k][1] \in C!ToSet(Line')
                <=> k <= got[f] \/ k \in got[f] + 1 .. m
          BY <2>2, <2>3, <3>1, <3>2
        <5>2. k <= got[f] \/ k \in got[f] + 1 .. m <=> k <= m
          BY <1>7, <4>1
        <5> QED
          BY <5>1, <5>2
      <4>3. readed_data'[g] = C!Rest(s, C!Whole(s) + 1) /\ unread'[g] = rest
        BY <1>0, <1>1, <1>2, <3>2 DEF rest
      <4> HIDE DEF got2
      <4> QED
        BY <1>6, <3>2, <4>1, <4>2, <4>3
    <3>3. CASE g # f
      <4>1. got2[g] = got[g] /\ readed_data'[g] = readed_data[g] /\ unread'[g] = unread[g]
        BY <1>0, <1>1, <1>2, <1>7, <3>3
      <4>2. \A k \in 1 .. Len(Commands[g]) :
              Commands[g][k][1] \in C!ToSet(Line') <=> Commands[g][k][1] \in C!ToSet(Line)
        BY <2>2, <2>3, <3>3
      <4> HIDE DEF got2
      <4> QED
        BY <3>1, <4>1, <4>2
    <3> QED
      BY <3>2, <3>3
  <2> HIDE DEF got2
  <2> QED
    BY <1>0, <2>1, <2>4 DEF PassedOn
<1>12. CommandInv'
  BY <1>10, <1>11 DEF CommandInv
<1>13. CASE m = got[f]
  <2>1. whole = <<>>
    BY <1>6, <1>7, <1>13, PiecesMore
  <2>2. Line \o <<>> = Line
    BY <1>9, ConcatEmptySeq
  <2> QED
    BY <1>9, <1>12, <2>1, <2>2
<1>14. CASE m # got[f]
  <2> DEFINE k == m - got[f]
  <2>1. k \in 1 .. Len(c) - got[f] /\ got[f] + k = m
    BY <1>6, <1>7, <1>14
  <2> HIDE DEF k
  <2>2. C!Stream!Passed(f) = got[f]
    BY <1>3, PassedCount
  <2>3. Line' = Line \o C!Stream!FlattenSeq(SubSeq(Commands[f], got[f] + 1, got[f] + k))
    BY <1>6, <1>9, <2>1, SameOperators DEF Pieces
  <2>4. C!Stream!Pass(f)
    BY <2>1, <2>2, <2>3 DEF C!Stream!Pass, Line
  <2> QED
    BY <1>12, <2>4
<1> QED
  BY <1>13, <1>14

\* A client that hangs up is read no more, and nothing of its is passed on.
LEMMA UnregStep ==
  ASSUME CommandInv, NEW f \in Client, C!unreg(f)
  PROVE  CommandInv' /\ Line' = Line
<1>0. /\ senders' = senders \ {f} /\ readed_data' = [readed_data EXCEPT ![f] = <<>>]
      /\ unread' = unread /\ data' = data /\ pos' = pos /\ polled' = polled /\ player' = player
  BY DEF C!unreg, C!com
<1>1. Line' = Line
  BY <1>0 DEF Line
<1>2. C!TypeOK
  BY DEF CommandInv
<1>3. <<>> \in Seq(Byte)
  OBVIOUS
<1>4. C!TypeOK'
  BY <1>0, <1>2, <1>3 DEF C!TypeOK
<1>5. PICK got : PassedOn(got)
  BY DEF CommandInv
<1>6. PassedOn(got)'
  <2>1. readed_data \in [Client -> Seq(Byte)]
    BY <1>2 DEF C!TypeOK
  <2>2. ASSUME NEW g \in senders'
        PROVE  g \in senders /\ readed_data'[g] = readed_data[g]
    BY <1>0, <1>2, <2>1 DEF C!TypeOK
  <2> QED
    BY <1>0, <1>1, <1>5, <2>2 DEF PassedOn
<1> QED
  BY <1>1, <1>4, <1>6 DEF CommandInv

\* The device takes bytes: they were passed on before.
LEMMA WriteStep ==
  ASSUME CommandInv, NEW n, C!write(n)
  PROVE  CommandInv' /\ Line' = Line
<1>0. /\ senders' = senders /\ readed_data' = readed_data /\ unread' = unread
      /\ n \in 0 .. C!WriteCount(data, pos)
      /\ player' = player \o SubSeq(C!Given(data, pos), 1, n)
      /\ data' = C!erase(data, n) /\ pos' = pos + n
      /\ polled' = (pos + n # C!end(C!erase(data, n)))
  BY DEF C!write, C!PolledOn
<1>1. C!TypeOK /\ C!RingTypeOK(data) /\ pos = C!begin(data) /\ player \in Seq(Byte)
  BY DEF CommandInv, C!TypeOK
<1> DEFINE taken == SubSeq(C!Given(data, pos), 1, n)
           left == C!From(data', pos')
<1>2. /\ taken \in Seq(Byte) /\ C!RingTypeOK(data') /\ pos' = C!begin(data')
      /\ taken \o left = C!From(data, pos)
  BY <1>0, <1>1, CommandsTaken
<1>3. left \in Seq(Byte)
  BY <1>2, CommandsLeft
<1>4. Line' = (player \o taken) \o left
  BY <1>0 DEF Line
<1>5. Line = player \o (taken \o left)
  BY <1>2 DEF Line
<1> HIDE DEF taken, left
<1>6. (player \o taken) \o left = player \o (taken \o left) /\ player \o taken \in Seq(Byte)
  <2>1. player \in Seq(Byte) /\ taken \in Seq(Byte) /\ left \in Seq(Byte)
    BY <1>1, <1>2, <1>3
  <2>2. (player \o taken) \o left = player \o (taken \o left)
    BY <2>1, ConcatAssociative
  <2>3. player \o taken \in Seq(Byte)
    BY <2>1, ConcatProperties
  <2> QED
    BY <2>2, <2>3
<1>7. Line' = Line
  BY <1>4, <1>5, <1>6
<1>8. player' \in Seq(Byte) /\ polled' \in BOOLEAN
  BY <1>0, <1>6 DEF taken
<1>9. C!TypeOK'
  BY <1>0, <1>1, <1>2, <1>8 DEF C!TypeOK
<1>10. PICK got : PassedOn(got)
  BY DEF CommandInv
<1>11. PassedOn(got)'
  BY <1>0, <1>7, <1>10 DEF PassedOn
<1> QED
  BY <1>7, <1>9, <1>11 DEF CommandInv

\* Every step of the commands' way, and every step that is none of it.
LEMMA CommandStep ==
  ASSUME CommandInv, [C!Next]_commands
  PROVE  CommandInv' /\ [C!Stream!Next]_Line
<1>1. CASE UNCHANGED commands
  <2>1. /\ senders' = senders /\ unread' = unread /\ readed_data' = readed_data /\ data' = data
        /\ pos' = pos /\ polled' = polled /\ player' = player
    BY <1>1 DEF commands
  <2>2. Line' = Line
    BY <2>1 DEF Line
  <2>3. C!TypeOK'
    BY <2>1 DEF CommandInv, C!TypeOK
  <2>4. PICK got : PassedOn(got)
    BY DEF CommandInv
  <2>5. PassedOn(got)'
    BY <2>1, <2>2, <2>4 DEF PassedOn
  <2> QED
    BY <2>2, <2>3, <2>5 DEF CommandInv
<1>2. CASE \E f \in Client, n \in 1 .. MaxRead : C!read(f, n)
  BY <1>2, ReadStep DEF C!Stream!Next
<1>3. CASE \E f \in Client : C!unreg(f)
  BY <1>3, UnregStep
<1>4. CASE C!write(0)
  BY <1>4, WriteStep
<1>5. CASE C!Writes
  BY <1>5, WriteStep DEF C!Writes
<1> QED
  BY <1>1, <1>2, <1>3, <1>4, <1>5 DEF C!Next

----------------------------------------------------------------------------
(***************************************************************************)
(* What holds of all parts.                                                *)
(***************************************************************************)
LEMMA CommandsAlways ==
  /\ AnyInit => CommandInv /\ Line = <<>>
  /\ CommandInv /\ [AnyNext]_all => CommandInv' /\ [C!Stream!Next]_Line
<1>1. ASSUME AnyInit
      PROVE  CommandInv /\ Line = <<>>
  BY <1>1, CommandInit DEF AnyInit
<1>2. ASSUME CommandInv, [AnyNext]_all
      PROVE  CommandInv' /\ [C!Stream!Next]_Line
  <2>1. [C!Next]_commands
    <3>1. CASE UNCHANGED all
      BY <3>1 DEF all
    <3>2. CASE AnyNext
      BY <3>2 DEF AnyNext
    <3> QED
      BY <1>2, <3>1, <3>2
  <2> QED
    BY <1>2, <2>1, CommandStep
<1> QED
  BY <1>1, <1>2

\* For all clients and commands, whatever the pieces in which a client's bytes are read,
\* the bytes that the device takes at once, and who hangs up amid a command: what goes to
\* the player are whole commands, each client's in their order, none twice and none within
\* another (clients_wrapper_t::read, inc_command_ptr, com_wrapper_t).
THEOREM AlwaysWhole == AnySpec => ImplementsCommands
<1>1. AnyInit => CommandInv /\ C!Stream!Init
  BY CommandsAlways DEF C!Stream!Init, Line
<1>2. CommandInv /\ [AnyNext]_all => CommandInv' /\ [C!Stream!Next]_(player \o C!From(data, pos))
  BY CommandsAlways DEF Line
<1> QED
  BY <1>1, <1>2, PTL DEF AnySpec, ImplementsCommands, C!ImplementsCommands, C!Stream!Spec

\* The state of every part has its types, and the numbers in it are within their bounds:
\* the ring of commands is one, and the next byte for the player is its first.
THEOREM AllTyped == AnySpec => []TypesOK
<1>1. CommandInv => C!TypeOK
  BY DEF CommandInv
<1>2. LoginInv => G!TypeOK
  <2> SUFFICES ASSUME LoginInv
               PROVE  G!TypeOK
    OBVIOUS
  <2>1. LoginTypes /\ KeyGoesDown /\ PasswordGoesUp
    BY DEF LoginInv
  <2>2. Len(rsa_key) \in Nat /\ Len(down) \in Nat /\ Len(G!Key) \in Nat
    BY <2>1, KeyFacts, LenProperties DEF LoginTypes
  <2>3. Len(rsa_key) <= Len(G!Key)
    BY <2>1, <2>2 DEF LoginTypes, KeyGoesDown
  <2>4. Len(enc_pass) <= Len(G!Password)
    BY <2>1 DEF PasswordGoesUp
  <2> QED
    BY <2>1, <2>3, <2>4 DEF LoginTypes, G!TypeOK
<1>3. IInv /\ LoginInv /\ FrameInv /\ CommandInv => TypesOK
  BY <1>1, <1>2, InvTyped, FrameFacts DEF TypesOK
<1>4. AnyInit => IInv /\ LoginInv /\ FrameInv /\ CommandInv
  BY AnyStart, FramesAlways, CommandsAlways
<1>5. (IInv /\ LoginInv /\ FrameInv /\ CommandInv) /\ [AnyNext]_all
        => (IInv /\ LoginInv /\ FrameInv /\ CommandInv)'
  BY AnyStep, FramesAlways, CommandsAlways
<1> QED
  BY <1>3, <1>4, <1>5, PTL DEF AnySpec

==============================================================================
