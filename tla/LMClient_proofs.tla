--------------------------- MODULE LMClient_proofs ---------------------------
(***************************************************************************)
(* Proofs about the server and its clients.  ProbServer, for any set of    *)
(* clients and any limit: the count of children is right at every moment,  *)
(* and so no more clients are served at a time than -server-maxclients     *)
(* allows.  LMClient and the server it talks to, for any number of words,  *)
(* clients, calls and cache sizes: what a call returns is what the server  *)
(* answers to that very call, or was made up for the empty context.        *)
(***************************************************************************)
EXTENDS LMClient, SequenceTheorems, FiniteSetTheorems, TLAPS

-----------------------------------------------------------------------------
(* The server: connections, children and their number. *)

\* Connections wait in the queue once, with no process, and no process serves a
\* client that never connected.
Queued ==
    /\ \A i \in DOMAIN backlog : conn[backlog[i]] # "none" /\ handler[backlog[i]] = "none"
    /\ \A i, j \in DOMAIN backlog : backlog[i] = backlog[j] => i = j
    /\ \A c \in Clients : conn[c] = "none" => handler[c] = "none"

\* The main process serves one client at a time or none.
Alone ==
    IF Inline
    THEN /\ Zombies = {}
         /\ server # "serving" => Serving = {}
         /\ \A c, d \in Serving : c = d
    ELSE server # "serving"

\* There is room for a client when one is accepted.
Room ==
    MaxClients > 0 /\ ~Inline => /\ numClients <= MaxClients
                                 /\ server = "accepting" => numClients < MaxClients

IInv == TypeOK /\ Queued /\ Alone /\ ChildrenCounted /\ Room

-----------------------------------------------------------------------------
LEMMA ProcessesFinite ==
    /\ IsFiniteSet(Serving) /\ IsFiniteSet(Zombies)
    /\ Cardinality(Serving) \in Nat /\ Cardinality(Zombies) \in Nat
<1>1. Serving \subseteq Clients /\ Zombies \subseteq Clients
  BY DEF Serving, Zombies
<1> QED
  BY <1>1, FS_Subset, FS_CardinalityType, ProbServerAssumption

\* A child that exits is a zombie instead of serving a client: there are as many.
LEMMA BecomesZombie ==
    ASSUME TypeOK, NEW c \in Serving, handler' = [handler EXCEPT ![c] = "zombie"]
    PROVE  Cardinality(Serving') + Cardinality(Zombies')
               = Cardinality(Serving) + Cardinality(Zombies)
<1>1. c \in Clients /\ c \notin Zombies
  BY DEF Serving, Zombies
<1>2. Serving' = Serving \ {c}
  BY <1>1 DEF TypeOK, Serving
<1>3. Zombies' = Zombies \cup {c}
  BY <1>1 DEF TypeOK, Zombies
<1>4. Cardinality(Serving \ {c}) = Cardinality(Serving) - 1
  BY ProcessesFinite, FS_RemoveElement
<1>5. Cardinality(Zombies \cup {c}) = Cardinality(Zombies) + 1
  BY <1>1, ProcessesFinite, FS_AddElement
<1> QED
  BY <1>2, <1>3, <1>4, <1>5, ProcessesFinite

LEMMA InitIInv == Init => IInv
<1> SUFFICES ASSUME Init PROVE IInv
  OBVIOUS
<1>1. Serving = {} /\ Zombies = {}
  BY DEF Init, Serving, Zombies
<1>2. Cardinality(Serving) = 0 /\ Cardinality(Zombies) = 0
  BY <1>1, FS_EmptySet
<1>3. TypeOK /\ Queued
  BY DEF Init, TypeOK, Queued
<1>4. Alone
  BY <1>1 DEF Init, Alone
<1>5. ChildrenCounted
  BY <1>2 DEF Init, ChildrenCounted
<1>6. Room
  BY ProbServerAssumption DEF Init, Room
<1> QED
  BY <1>3, <1>4, <1>5, <1>6 DEF IInv

-----------------------------------------------------------------------------
(* The main process. *)

LEMMA ReapIInv ==
    ASSUME IInv, NEW c \in Clients, Reap(c)
    PROVE  IInv'
<1> USE DEF IInv
<1>1. c \in Zombies /\ ~Inline
  BY DEF Reap, Alone
<1>2. Serving' = Serving
  BY <1>1 DEF Reap, TypeOK, Serving, Zombies
<1>3. Zombies' = Zombies \ {c}
  BY <1>1 DEF Reap, TypeOK, Zombies
<1>4. Cardinality(Zombies') = Cardinality(Zombies) - 1
  BY <1>1, <1>3, ProcessesFinite, FS_RemoveElement
<1>5. numClients' = Cardinality(Serving') + Cardinality(Zombies') /\ Inline' = Inline
  BY <1>1, <1>2, <1>4, ProcessesFinite DEF Reap, ChildrenCounted, Inline
<1>6. Cardinality(Serving') \in Nat /\ Cardinality(Zombies') \in Nat
  <2>1. Cardinality(Zombies) # 0
    BY <1>1, ProcessesFinite, FS_EmptySet
  <2> QED BY <1>2, <1>4, <2>1, ProcessesFinite
<1>7. TypeOK'
  BY <1>5, <1>6 DEF Reap, TypeOK, streams
<1>8. Queued'
  BY <1>1 DEF Reap, TypeOK, Queued, Zombies, streams
<1>9. Alone' /\ ChildrenCounted'
  BY <1>1, <1>5 DEF Reap, Alone, ChildrenCounted, Inline
<1>10. Room'
  BY <1>1, ProbServerAssumption DEF Reap, Room, TypeOK, Inline
<1> QED
  BY <1>7, <1>8, <1>9, <1>10

LEMMA StopReapingIInv ==
    ASSUME IInv, StopReaping
    PROVE  IInv'
<1> USE DEF IInv
<1>1. Serving' = Serving /\ Zombies' = Zombies /\ Inline' = Inline
  BY DEF StopReaping, Serving, Zombies, Inline
<1>2. TypeOK' /\ Queued'
  BY DEF StopReaping, TypeOK, Queued, streams
<1>3. Alone' /\ ChildrenCounted'
  BY <1>1 DEF StopReaping, Alone, ChildrenCounted, Inline
<1>4. Room'
  BY ProbServerAssumption DEF StopReaping, Room, Full, TypeOK, Inline
<1> QED
  BY <1>2, <1>3, <1>4

LEMMA AcceptIInv ==
    ASSUME IInv, Accept
    PROVE  IInv'
<1> USE DEF IInv
<1> DEFINE c == Head(backlog)
<1>1. /\ c \in Clients /\ c = backlog[1] /\ 1 \in DOMAIN backlog
      /\ conn[c] # "none" /\ handler[c] = "none"
  BY DEF Accept, TypeOK, Queued
<1>2. /\ backlog' \in Seq(Clients)
      /\ \A i \in DOMAIN backlog' : i + 1 \in DOMAIN backlog /\ backlog'[i] = backlog[i + 1]
  BY DEF Accept, TypeOK
<1>3. c \notin Serving /\ Serving' = Serving \cup {c} /\ Zombies' = Zombies
  BY <1>1 DEF Accept, TypeOK, Serving, Zombies
<1>4. Cardinality(Serving') = Cardinality(Serving) + 1
  BY <1>3, ProcessesFinite, FS_AddElement
<1>5. TypeOK'
  BY <1>1, <1>2 DEF Accept, TypeOK, streams
<1>6. Queued'
  <2>1. \A i \in DOMAIN backlog' : backlog'[i] # c
    <3> SUFFICES ASSUME NEW i \in DOMAIN backlog', backlog'[i] = c
                 PROVE  FALSE
      OBVIOUS
    <3>1. i \in Nat /\ i >= 1
      BY <1>2
    <3> QED BY <1>1, <1>2, <3>1 DEF Queued
  <2>2. \A i \in DOMAIN backlog' : conn'[backlog'[i]] # "none" /\ handler'[backlog'[i]] = "none"
    BY <1>2, <2>1 DEF Accept, TypeOK, Queued
  <2>3. \A i, j \in DOMAIN backlog' : backlog'[i] = backlog'[j] => i = j
    <3> SUFFICES ASSUME NEW i \in DOMAIN backlog', NEW j \in DOMAIN backlog',
                        backlog'[i] = backlog'[j]
                 PROVE  i = j
      OBVIOUS
    <3>1. i \in Nat /\ j \in Nat
      BY <1>2
    <3>2. i + 1 = j + 1
      BY <1>2 DEF Queued
    <3> QED BY <3>1, <3>2
  <2>4. \A d \in Clients : conn'[d] = "none" => handler'[d] = "none"
    BY <1>1 DEF Accept, TypeOK, Queued
  <2> QED BY <2>2, <2>3, <2>4 DEF Queued
<1>7. Alone'
  BY <1>3 DEF Accept, Alone, Inline
<1>8. ChildrenCounted'
  BY <1>3, <1>4, ProcessesFinite DEF Accept, ChildrenCounted, Inline
<1>9. Room'
  BY ProbServerAssumption DEF Accept, Room, TypeOK, Inline
<1> QED
  BY <1>5, <1>6, <1>7, <1>8, <1>9

LEMMA AcceptFailsIInv ==
    ASSUME IInv, AcceptFails
    PROVE  IInv'
<1> USE DEF IInv
<1>1. Serving' = Serving /\ Zombies' = Zombies /\ Inline' = Inline
  BY DEF AcceptFails, Serving, Zombies, Inline
<1>2. TypeOK' /\ Queued'
  BY DEF AcceptFails, TypeOK, Queued, streams
<1>3. Alone' /\ ChildrenCounted' /\ Room'
  BY <1>1 DEF AcceptFails, Alone, ChildrenCounted, Room, Inline
<1> QED
  BY <1>2, <1>3

LEMMA ForkFailsIInv ==
    ASSUME IInv, ForkFails
    PROVE  IInv'
<1> USE DEF IInv
<1> DEFINE c == Head(backlog)
<1>1. /\ c \in Clients /\ c = backlog[1] /\ 1 \in DOMAIN backlog
      /\ conn[c] # "none" /\ handler[c] = "none"
  BY DEF ForkFails, TypeOK, Queued
<1>2. /\ backlog' \in Seq(Clients)
      /\ \A i \in DOMAIN backlog' : i + 1 \in DOMAIN backlog /\ backlog'[i] = backlog[i + 1]
  BY DEF ForkFails, TypeOK
<1>3. Serving' = Serving /\ Zombies' = Zombies
  BY <1>1 DEF ForkFails, TypeOK, Serving, Zombies
<1>4. TypeOK'
  BY <1>1, <1>2 DEF ForkFails, TypeOK, streams
<1>5. Queued'
  <2>1. \A i \in DOMAIN backlog' : backlog'[i] # c
    <3> SUFFICES ASSUME NEW i \in DOMAIN backlog', backlog'[i] = c
                 PROVE  FALSE
      OBVIOUS
    <3>1. i \in Nat /\ i >= 1
      BY <1>2
    <3> QED BY <1>1, <1>2, <3>1 DEF Queued
  <2>2. \A i \in DOMAIN backlog' : conn'[backlog'[i]] # "none" /\ handler'[backlog'[i]] = "none"
    BY <1>2, <2>1 DEF ForkFails, TypeOK, Queued
  <2>3. \A i, j \in DOMAIN backlog' : backlog'[i] = backlog'[j] => i = j
    <3> SUFFICES ASSUME NEW i \in DOMAIN backlog', NEW j \in DOMAIN backlog',
                        backlog'[i] = backlog'[j]
                 PROVE  i = j
      OBVIOUS
    <3>1. i \in Nat /\ j \in Nat
      BY <1>2
    <3>2. i + 1 = j + 1
      BY <1>2 DEF Queued
    <3> QED BY <3>1, <3>2
  <2>4. \A d \in Clients : conn'[d] = "none" => handler'[d] = "none"
    BY <1>1 DEF ForkFails, TypeOK, Queued
  <2> QED BY <2>2, <2>3, <2>4 DEF Queued
<1>6. Alone' /\ ChildrenCounted' /\ Room'
  BY <1>3 DEF ForkFails, Alone, ChildrenCounted, Room, Inline
<1> QED
  BY <1>4, <1>5, <1>6

-----------------------------------------------------------------------------
(* The processes that serve connections. *)

\* However a process ends, by Done or by Abort, it was counted and is counted on.
LEMMA EndIInv ==
    ASSUME IInv, NEW c \in Serving, Done(c) \/ Abort(c),
           UNCHANGED <<numClients, backlog, conn, streams>>
    PROVE  IInv'
<1> USE DEF IInv
<1>1. c \in Clients /\ handler[c] # "none"
  BY DEF Serving
<1>2. handler' = [handler EXCEPT ![c] = IF Inline THEN "gone" ELSE "zombie"]
  BY DEF Done, Abort
<1>3. server' \in {server, "reaping", "stopped"} /\ (~Inline => server' = server)
  BY DEF Done, Abort
<1>4. TypeOK'
  BY <1>1, <1>2, <1>3 DEF TypeOK, streams
<1>5. Queued'
  BY <1>1, <1>2 DEF TypeOK, Queued
<1>6. CASE Inline
  <2>1. Serving' = {}
    BY <1>1, <1>2, <1>6 DEF TypeOK, Serving, Alone
  <2>2. Zombies' = {}
    BY <1>1, <1>2, <1>6 DEF TypeOK, Zombies, Alone
  <2> QED BY <1>4, <1>5, <1>6, <2>1, <2>2 DEF Alone, ChildrenCounted, Room, Inline
<1>7. CASE ~Inline
  <2>1. Cardinality(Serving') + Cardinality(Zombies') = Cardinality(Serving) + Cardinality(Zombies)
    BY <1>2, <1>7, BecomesZombie
  <2> QED BY <1>3, <1>4, <1>5, <1>7, <2>1 DEF Alone, ChildrenCounted, Room, Inline
<1> QED
  BY <1>6, <1>7

LEMMA GreetIInv ==
    ASSUME IInv, NEW c \in Clients, Greet(c)
    PROVE  IInv'
<1> USE DEF IInv
<1>1. Serving' = Serving /\ Zombies' = Zombies
  BY DEF Greet, TypeOK, Serving, Zombies
<1>2. TypeOK' /\ Queued'
  BY DEF Greet, TypeOK, Queued
<1>3. Alone' /\ ChildrenCounted' /\ Room'
  BY <1>1 DEF Greet, Alone, ChildrenCounted, Room, Inline
<1> QED
  BY <1>2, <1>3

LEMMA ReceiveIInv ==
    ASSUME IInv, NEW c \in Clients, NEW n, Receive(c, n)
    PROVE  IInv'
<1> USE DEF IInv
<1>1. UNCHANGED <<server, numClients, backlog, conn, handler>>
  BY DEF Receive
<1>2. Serving' = Serving /\ Zombies' = Zombies
  BY <1>1 DEF Serving, Zombies
<1>3. version' \in [Clients -> {1, 2}]
  <2> DEFINE s == Process(version[c], SubSeq(inbox[c], 1, n))
  <2>1. s.version \in {2, version[c]}
    BY DEF Process, VersionAt
  <2>2. version' = [version EXCEPT ![c] = s.version]
    BY DEF Receive
  <2> HIDE DEF s
  <2> QED BY <2>1, <2>2 DEF TypeOK
<1>4. TypeOK' /\ Queued'
  BY <1>1, <1>3 DEF TypeOK, Queued
<1>5. Alone' /\ ChildrenCounted' /\ Room'
  BY <1>1, <1>2 DEF Alone, ChildrenCounted, Room, Inline
<1> QED
  BY <1>4, <1>5

LEMMA HandlerIInv ==
    ASSUME IInv, NEW c \in Clients, HandlerNext(c)
    PROVE  IInv'
<1>1. CASE Greet(c)
  BY <1>1, GreetIInv
<1>2. CASE Serve(c)
  <2>1. \E n : Receive(c, n)
    BY <1>2 DEF Serve
  <2> QED BY <2>1, ReceiveIInv
<1>3. CASE SendFails(c)
  <2>1. c \in Serving
    BY <1>3 DEF SendFails, Serving
  <2> QED BY <1>3, <2>1, EndIInv DEF SendFails
<1>4. CASE Finish(c)
  <2>1. c \in Serving
    BY <1>4 DEF Finish, Serving
  <2> QED BY <1>4, <2>1, EndIInv DEF Finish
<1>5. CASE Killed(c)
  BY <1>5, EndIInv DEF Killed
<1> QED
  BY <1>1, <1>2, <1>3, <1>4, <1>5 DEF HandlerNext

-----------------------------------------------------------------------------
(* The environment, and the theorems. *)

LEMMA EnvironmentIInv ==
    ASSUME IInv, NEW c \in Clients, EnvironmentNext(c)
    PROVE  IInv'
<1> USE DEF IInv
<1>1. UNCHANGED <<server, numClients, handler, version>>
  BY DEF EnvironmentNext, Connect, Transmit, Read, Close, streams
<1>2. Serving' = Serving /\ Zombies' = Zombies
  BY <1>1 DEF Serving, Zombies
<1>3. Alone' /\ ChildrenCounted' /\ Room'
  BY <1>1, <1>2 DEF Alone, ChildrenCounted, Room, Inline
<1>4. CASE Connect(c)
  <2>1. /\ backlog' = Append(backlog, c) /\ conn[c] = "none"
        /\ conn' = [conn EXCEPT ![c] = "open"]
    BY <1>4 DEF Connect
  <2>2. \A i \in DOMAIN backlog : backlog[i] # c
    BY <2>1 DEF Queued
  <2>3. /\ backlog' \in Seq(Clients)
        /\ \A i \in DOMAIN backlog' : \/ i \in DOMAIN backlog /\ backlog'[i] = backlog[i]
                                      \/ i = Len(backlog) + 1 /\ backlog'[i] = c
    BY <2>1 DEF TypeOK
  <2>4. handler[c] = "none"
    BY <2>1 DEF Queued
  <2>5. TypeOK'
    BY <1>1, <2>1, <2>3 DEF TypeOK
  <2>6. Queued'
    BY <1>1, <2>1, <2>2, <2>3, <2>4 DEF TypeOK, Queued
  <2> QED BY <1>3, <2>5, <2>6
<1>5. CASE Close(c)
  <2>1. TypeOK' /\ Queued'
    BY <1>1, <1>5 DEF Close, TypeOK, Queued
  <2> QED BY <1>3, <2>1
<1>6. CASE (\E m \in Messages[c] : Transmit(c, m)) \/ Read(c)
  <2>1. UNCHANGED <<backlog, conn>>
    BY <1>6 DEF Transmit, Read
  <2>2. TypeOK' /\ Queued'
    BY <1>1, <2>1 DEF TypeOK, Queued
  <2> QED BY <1>3, <2>2
<1> QED
  BY <1>4, <1>5, <1>6 DEF EnvironmentNext

(* The count, the queue and the limit are kept by every step.                *)
THEOREM Invariance == Spec => []IInv
<1>1. IInv /\ [Next]_serverVars => IInv'
  <2> SUFFICES ASSUME IInv, [Next]_serverVars PROVE IInv'
    OBVIOUS
  <2>1. CASE ParentNext
    BY <2>1, ReapIInv, StopReapingIInv, AcceptIInv, AcceptFailsIInv, ForkFailsIInv DEF ParentNext
  <2>2. CASE \E c \in Clients : HandlerNext(c)
    BY <2>2, HandlerIInv
  <2>3. CASE \E c \in Clients : EnvironmentNext(c)
    BY <2>3, EnvironmentIInv
  <2>4. CASE UNCHANGED serverVars
    BY <2>4 DEF serverVars, IInv, TypeOK, Queued, Alone, ChildrenCounted, Room,
                Serving, Zombies, Inline
  <2> QED BY <2>1, <2>2, <2>3, <2>4 DEF Next, ServerNext
<1> QED
  BY InitIInv, <1>1, PTL DEF Spec

(* Every variable keeps its type; the count of children is never negative,   *)
(* so the unsigned numClients of LM.cc:1128 does not wrap around.            *)
THEOREM TypeCorrect == Spec => []TypeOK
<1>1. IInv => TypeOK
  BY DEF IInv
<1> QED BY <1>1, Invariance, PTL

(* The main process always knows how many children it has (LM.cc:1135-1183). *)
THEOREM ChildrenAlwaysCounted == Spec => []ChildrenCounted
<1>1. IInv => ChildrenCounted
  BY DEF IInv
<1> QED BY <1>1, Invariance, PTL

(* No more clients are served at a time than -server-maxclients allows.      *)
THEOREM LimitKept == Spec => []ClientLimit
<1>1. IInv => ClientLimit
  <2> SUFFICES ASSUME IInv, MaxClients > 0 PROVE Cardinality(Serving) <= MaxClients
    BY DEF ClientLimit
  <2>1. CASE Inline
    <3>1. CASE Serving = {}
      BY <2>1, <3>1, FS_EmptySet DEF Inline
    <3>2. CASE Serving # {}
      <4>1. PICK c \in Serving : TRUE
        BY <3>2
      <4>2. Serving = {c}
        BY <2>1, <4>1 DEF IInv, Alone
      <4>3. Cardinality({c}) = 1
        BY FS_Singleton
      <4> QED BY <2>1, <4>2, <4>3 DEF Inline
    <3> QED BY <3>1, <3>2
  <2>2. CASE ~Inline
    BY <2>2, ProcessesFinite, ProbServerAssumption DEF IInv, ChildrenCounted, Room, TypeOK
  <2> QED BY <2>1, <2>2
<1> QED BY <1>1, Invariance, PTL

-----------------------------------------------------------------------------
(* The client, its cache and the protocol. *)

\* What is sent: words, the commands and the numbers, none of them with a newline.
Commands == {"V2", "W", "C1", "C2", "B"}
Numbers  == {"0", "1", "2", "3"}
Tokens   == Words \cup Commands \cup Numbers

Asked == {Truncated(q) : q \in Queries}

\* Any call of the three methods, with any words, a context of any length or none,
\* and a length that Numerals has a numeral for.
IsCall(q) ==
    \/ \E w \in Words, ctx \in Seq(Words) : q = WordProb(w, ctx)
    \/ \E ctx \in Seq(Words) : q = ContextID(NoWord, ctx)
    \/ \E w \in Words, ctx \in Seq(Words) : q = ContextID(w, ctx)
    \/ \E ctx \in Seq(Words), n \in 0 .. 3 : q = ContextBOW(ctx, n)

\* No word is a newline or no word at all, and requests come in one piece: the server
\* takes what one recv() returns for whole lines (LM.cc:1213-1227).
Protocol ==
    /\ EOL \notin Tokens /\ NoWord \notin Words
    /\ ~Splits
    /\ Order \in Nat /\ CacheOrder \in Nat
    /\ \A q \in Asked : IsCall(q)

-----------------------------------------------------------------------------
(* The line protocol. *)

\* The tokens of a request before its newline.
LineOf(q) ==
    CASE q.kind = "W" -> <<"W">> \o Reverse(q.context) \o <<q.word>>
      [] q.kind = "C" /\ q.word = NoWord -> <<"C1">> \o Reverse(q.context)
      [] q.kind = "C" /\ q.word # NoWord -> <<"C2">> \o Reverse(q.context) \o <<q.word>>
      [] q.kind = "B" -> <<"B">> \o Reverse(q.context) \o <<Numerals[q.length + 1]>>

LEMMA ReverseTwice ==
    ASSUME NEW S, NEW s \in Seq(S)
    PROVE  /\ Reverse(s) \in Seq(S) /\ Len(Reverse(s)) = Len(s)
           /\ Reverse(Reverse(s)) = s
<1>1. Reverse(s) = [i \in 1 .. Len(s) |-> s[(Len(s) - i) + 1]]
  BY DEF Reverse
<1>2. \A i \in 1 .. Len(s) : s[i] \in S /\ (Len(s) - i) + 1 \in 1 .. Len(s)
  OBVIOUS
<1>3. Reverse(s) \in Seq(S) /\ Len(Reverse(s)) = Len(s)
  BY <1>1, <1>2
<1> DEFINE r == Reverse(s)
<1>4. Reverse(r) = [i \in 1 .. Len(r) |-> r[(Len(r) - i) + 1]]
  BY DEF Reverse
<1>5. \A i \in 1 .. Len(s) : r[i] = s[(Len(s) - i) + 1]
  BY <1>1
<1> HIDE DEF r
<1>6. \A i \in 1 .. Len(s) : r[(Len(s) - i) + 1] = s[i]
  <2> TAKE i \in 1 .. Len(s)
  <2> DEFINE j == (Len(s) - i) + 1
  <2>1. j \in 1 .. Len(s) /\ (Len(s) - j) + 1 = i
    OBVIOUS
  <2> HIDE DEF j
  <2>2. r[j] = s[i]
    BY <1>5, <2>1
  <2> QED BY <2>2 DEF j
<1> QED BY <1>3, <1>4, <1>6 DEF r

LEMMA LastTwo ==
    ASSUME NEW T, NEW t \in Seq(T), NEW a, NEW b
    PROVE  t \o <<a, b>> = (t \o <<a>>) \o <<b>>
<1> DEFINE U == T \cup {a, b}
<1>1. t \in Seq(U) /\ <<a>> \in Seq(U) /\ <<b>> \in Seq(U)
  OBVIOUS
<1>2. <<a, b>> = <<a>> \o <<b>>
  <2> DEFINE s == <<a>> \o <<b>>
  <2>1. s \in Seq(U) /\ Len(s) = 2 /\ s[1] = a /\ s[2] = b
    BY <1>1
  <2>2. <<a, b>> \in Seq(U) /\ Len(<<a, b>>) = 2 /\ <<a, b>>[1] = a /\ <<a, b>>[2] = b
    OBVIOUS
  <2> HIDE DEF s, U
  <2>3. \A i \in 1 .. 2 : s[i] = <<a, b>>[i]
    BY <2>1, <2>2
  <2>4. <<a, b>> = s
    BY <2>1, <2>2, <2>3, SeqEqual
  <2> QED BY <2>4 DEF s
<1> HIDE DEF U
<1> QED BY <1>1, <1>2, ConcatAssociative

\* A list between two tokens.
LEMMA Between ==
    ASSUME NEW T, NEW a \in T, NEW b \in T, NEW r \in Seq(T)
    PROVE  LET s == <<a>> \o r \o <<b>>
           IN  /\ s \in Seq(T) /\ Len(s) = Len(r) + 2
               /\ s[1] = a /\ s[Len(s)] = b
               /\ SubSeq(s, 2, Len(s) - 1) = r
<1> DEFINE s == <<a>> \o r \o <<b>>
<1>1. s \in Seq(T) /\ Len(s) = Len(r) + 2 /\ s[1] = a /\ s[Len(r) + 2] = b
  OBVIOUS
<1>2. \A i \in 1 .. Len(r) : s[i + 1] = r[i]
  OBVIOUS
<1> HIDE DEF s
<1>3. SubSeq(s, 2, Len(s) - 1) \in Seq(T) /\ Len(SubSeq(s, 2, Len(s) - 1)) = Len(r)
  BY <1>1
<1>4. \A i \in 1 .. Len(r) : SubSeq(s, 2, Len(s) - 1)[i] = r[i]
  BY <1>1, <1>2
<1>5. SubSeq(s, 2, Len(s) - 1) = r
  BY <1>3, <1>4
<1> QED BY <1>1, <1>5 DEF s

\* A list turned around with its last element, which comes to be the first.
LEMMA WordInFront ==
    ASSUME NEW T, NEW a \in T, NEW w \in T, NEW ctx \in Seq(T)
    PROVE  Reverse(Tail(<<a>> \o Reverse(ctx) \o <<w>>)) = <<w>> \o ctx
<1> DEFINE n == Len(ctx)
           r == Reverse(ctx)
           s == <<a>> \o r \o <<w>>
           t == Tail(s)
           u == Reverse(t)
           v == <<w>> \o ctx
<1>1. n \in Nat /\ r \in Seq(T) /\ Len(r) = n /\ \A i \in 1 .. n : r[i] = ctx[(n - i) + 1]
  <2>1. r = [i \in 1 .. n |-> ctx[(n - i) + 1]]
    BY DEF Reverse
  <2> QED BY <2>1, ReverseTwice
<1> HIDE DEF r
<1>2. /\ s \in Seq(T) /\ Len(s) = n + 2 /\ s[n + 2] = w
      /\ \A i \in 1 .. n : s[i + 1] = r[i]
  BY <1>1
<1> HIDE DEF s
<1>3. t \in Seq(T) /\ Len(t) = n + 1 /\ \A i \in 1 .. n + 1 : t[i] = s[i + 1]
  BY <1>1, <1>2
<1> HIDE DEF t
<1>4. u = [i \in 1 .. n + 1 |-> t[((n + 1) - i) + 1]]
  BY <1>3 DEF Reverse
<1>5. u \in Seq(T) /\ Len(u) = n + 1
  BY <1>3, ReverseTwice
<1>6. v \in Seq(T) /\ Len(v) = n + 1 /\ v[1] = w /\ \A i \in 1 .. n : v[i + 1] = ctx[i]
  OBVIOUS
<1> HIDE DEF u, v
<1>7. u[1] = w
  <2>1. u[1] = t[n + 1]
    BY <1>1, <1>4
  <2> QED BY <1>1, <1>2, <1>3, <2>1
<1>8. ASSUME NEW i \in 1 .. n PROVE u[i + 1] = ctx[i]
  <2> DEFINE j == (n - i) + 1
  <2>1. j \in 1 .. n /\ (n - j) + 1 = i
    BY <1>1
  <2>2. u[i + 1] = t[j]
    BY <1>1, <1>4
  <2> HIDE DEF j
  <2>3. t[j] = s[j + 1]
    BY <1>1, <1>3, <2>1
  <2>4. s[j + 1] = r[j] /\ r[j] = ctx[(n - j) + 1]
    BY <1>1, <1>2, <2>1
  <2> QED BY <2>1, <2>2, <2>3, <2>4
<1> HIDE DEF n
<1>9. \A i \in 1 .. n + 1 : u[i] = v[i]
  <2> TAKE i \in 1 .. n + 1
  <2>1. CASE i = 1
    BY <1>6, <1>7, <2>1
  <2>2. CASE i # 1
    <3> DEFINE k == i - 1
    <3>1. k \in 1 .. n /\ i = k + 1
      BY <1>1, <2>2
    <3> HIDE DEF k
    <3> QED BY <1>6, <1>8, <3>1
  <2> QED BY <2>1, <2>2
<1>10. u = v
  BY <1>5, <1>6, <1>9, SeqEqual
<1> QED BY <1>10 DEF r, s, t, u, v

\* A line comes out of a buffer as it was put in.
LEMMA OneLine ==
    ASSUME NEW T, EOL \notin T, NEW s \in Seq(T), s # <<>>
    PROVE  Lines(s \o <<EOL>>) = <<s>>
<1> DEFINE b == s \o <<EOL>>
           n == Len(s)
           Starts == {i \in DOMAIN b : b[i] # EOL /\ (i = 1 \/ b[i - 1] = EOL)}
           Ends   == {i \in DOMAIN b : b[i] # EOL /\ (i = Len(b) \/ b[i + 1] = EOL)}
<1>1. /\ n \in Nat \ {0} /\ Len(b) = n + 1 /\ DOMAIN b = 1 .. n + 1 /\ b[n + 1] = EOL
      /\ \A i \in 1 .. n : b[i] = s[i] /\ b[i] # EOL
  OBVIOUS
<1>2. SubSeq(b, 1, n) = s
  <2>1. SubSeq(b, 1, n) = [i \in 1 .. n |-> b[i]]
    BY <1>1
  <2>2. s = [i \in 1 .. n |-> s[i]]
    OBVIOUS
  <2> QED BY <1>1, <2>1, <2>2
<1>3. Lines(b) = [k \in 1 .. Cardinality(Starts) |-> SubSeq(b, Nth(Starts, k), Nth(Ends, k))]
  BY DEF Lines
<1> HIDE DEF b, n
<1>4. Starts = {1} /\ Ends = {n}
  BY <1>1
<1> HIDE DEF Starts, Ends
<1>5. ASSUME NEW m \in Nat PROVE Nth({m}, 1) = m
  <2>1. {k \in {m} : k <= m} = {m}
    OBVIOUS
  <2>2. Cardinality({m}) = 1
    BY FS_Singleton
  <2> QED BY <2>1, <2>2 DEF Nth
<1>6. Cardinality({1}) = 1
  BY FS_Singleton
<1>7. Lines(b) = [k \in 1 .. 1 |-> s]
  <2>1. Nth(Starts, 1) = 1 /\ Nth(Ends, 1) = n
    BY <1>1, <1>4, <1>5
  <2>2. \A k \in 1 .. 1 : SubSeq(b, Nth(Starts, k), Nth(Ends, k)) = s
    BY <1>2, <2>1
  <2> QED BY <1>3, <1>4, <1>6, <2>2
<1>8. [k \in 1 .. 1 |-> s] = <<s>>
  OBVIOUS
<1> QED BY <1>7, <1>8 DEF b

\* The server takes a line for the query it was sent for, but for C2.
LEMMA Understood ==
    ASSUME Protocol, NEW q, IsCall(q)
    PROVE  /\ LineOf(q) \in Seq(Tokens) /\ LineOf(q) # <<>>
           /\ Encode(q) = LineOf(q) \o <<EOL>>
           /\ Respond(2, LineOf(q)) = Reply(TRUE, Served(q))
<1>1. CASE \E w \in Words, ctx \in Seq(Words) : q = WordProb(w, ctx)
  <2>1. PICK w \in Words, ctx \in Seq(Words) : q = WordProb(w, ctx)
    BY <1>1
  <2> DEFINE r == Reverse(ctx)
             s == <<"W">> \o r \o <<w>>
  <2>2. q = [kind |-> "W", word |-> w, context |-> ctx, length |-> 0]
    BY <2>1 DEF WordProb, Question
  <2>3. r \in Seq(Tokens) /\ Reverse(r) = ctx
    BY ReverseTwice DEF Tokens
  <2>4. LineOf(q) = s
    BY <2>2 DEF LineOf
  <2>5. Encode(q) = <<"W">> \o r \o <<w, EOL>>
    BY <2>2 DEF Encode
  <2> HIDE DEF r
  <2>6. <<"W">> \o r \o <<w, EOL>> = s \o <<EOL>>
    <3>1. <<"W">> \o r \in Seq(Tokens)
      BY <2>3 DEF Tokens, Commands
    <3> QED BY <3>1, LastTwo
  <2>7. /\ s \in Seq(Tokens) /\ Len(s) = Len(r) + 2
        /\ s[1] = "W" /\ s[Len(s)] = w /\ SubSeq(s, 2, Len(s) - 1) = r
    BY <2>3, Between DEF Tokens, Commands
  <2> HIDE DEF s
  <2>8. Middle(s) = ctx
    BY <2>3, <2>7 DEF Middle
  <2>9. Decode(2, s) = q
    BY <2>1, <2>7, <2>8 DEF Decode
  <2>10. Respond(2, s) = Reply(TRUE, Served(q))
    <3>1. Served(q) = Value(q)
      BY <2>2 DEF Served, ForWord
    <3> QED BY <2>7, <2>9, <3>1 DEF Respond
  <2>11. s # <<>>
    BY <2>3, <2>7
  <2> QED BY <2>4, <2>5, <2>6, <2>7, <2>10, <2>11
<1>2. CASE \E ctx \in Seq(Words) : q = ContextID(NoWord, ctx)
  <2>1. PICK ctx \in Seq(Words) : q = ContextID(NoWord, ctx)
    BY <1>2
  <2> DEFINE r == Reverse(ctx)
             s == <<"C1">> \o r
  <2>2. q = [kind |-> "C", word |-> NoWord, context |-> ctx, length |-> 0]
    BY <2>1 DEF ContextID, Question
  <2>3. r \in Seq(Tokens) /\ Reverse(r) = ctx
    BY ReverseTwice DEF Tokens
  <2>4. LineOf(q) = s
    BY <2>2 DEF LineOf
  <2>5. Encode(q) = <<"C1">> \o r \o <<EOL>>
    BY <2>2 DEF Encode
  <2> HIDE DEF r
  <2>6. s \in Seq(Tokens) /\ s # <<>> /\ s[1] = "C1" /\ Tail(s) = r
    <3>1. "C1" \in Tokens
      BY DEF Tokens, Commands
    <3>2. s \in Seq(Tokens) /\ Len(s) = Len(r) + 1 /\ s[1] = "C1" /\ \A i \in 1 .. Len(r) : s[i + 1] = r[i]
      BY <2>3, <3>1
    <3> HIDE DEF s
    <3>3. Tail(s) \in Seq(Tokens) /\ Len(Tail(s)) = Len(r) /\ \A i \in 1 .. Len(r) : Tail(s)[i] = s[i + 1]
      BY <2>3, <3>2
    <3>4. Tail(s) = r
      BY <2>3, <3>2, <3>3
    <3> QED BY <3>2, <3>4
  <2> HIDE DEF s
  <2>7. Decode(2, s) = q
    <3>1. Decode(2, s) = ContextID(NoWord, Reverse(Tail(s)))
      BY <2>6 DEF Decode
    <3> QED BY <2>1, <2>3, <2>6, <3>1
  <2>8. Respond(2, s) = Reply(TRUE, Served(q))
    <3>1. Served(q) = Value(q)
      BY <2>2 DEF Served, ForWord
    <3> QED BY <2>6, <2>7, <3>1 DEF Respond
  <2> QED BY <2>4, <2>5, <2>6, <2>8 DEF s
<1>3. CASE \E w \in Words, ctx \in Seq(Words) : q = ContextID(w, ctx)
  <2>1. PICK w \in Words, ctx \in Seq(Words) : q = ContextID(w, ctx)
    BY <1>3
  <2> DEFINE r == Reverse(ctx)
             s == <<"C2">> \o r \o <<w>>
  <2>2. q = [kind |-> "C", word |-> w, context |-> ctx, length |-> 0] /\ w # NoWord
    BY <2>1 DEF ContextID, Question, Protocol
  <2>3. r \in Seq(Tokens) /\ Reverse(r) = ctx
    BY ReverseTwice DEF Tokens
  <2>4. LineOf(q) = s
    BY <2>2 DEF LineOf
  <2>5. Encode(q) = <<"C2">> \o r \o <<w, EOL>>
    BY <2>2 DEF Encode
  <2> HIDE DEF r
  <2>6. <<"C2">> \o r \o <<w, EOL>> = s \o <<EOL>>
    <3>1. <<"C2">> \o r \in Seq(Tokens)
      BY <2>3 DEF Tokens, Commands
    <3> QED BY <3>1, LastTwo
  <2>7. s \in Seq(Tokens) /\ s # <<>> /\ s[1] = "C2"
    <3>1. s \in Seq(Tokens) /\ Len(s) = Len(r) + 2 /\ s[1] = "C2"
      BY <2>3, Between DEF Tokens, Commands
    <3> HIDE DEF s
    <3> QED BY <2>3, <3>1
  <2>8. Reverse(Tail(s)) = <<w>> \o ctx
    <3>1. "C2" \in Tokens /\ w \in Tokens /\ ctx \in Seq(Tokens)
      BY DEF Tokens, Commands
    <3> QED BY <3>1, WordInFront DEF r
  <2> HIDE DEF s
  <2>9. Decode(2, s) = ContextID(NoWord, <<w>> \o ctx)
    <3>1. Decode(2, s) = ContextID(NoWord, Reverse(Tail(s)))
      BY <2>7 DEF Decode
    <3> QED BY <2>8, <3>1
  <2>10. Respond(2, s) = Reply(TRUE, Served(q))
    <3>1. Served(q) = Value(ContextID(NoWord, <<w>> \o ctx))
      BY <2>2 DEF Served, ForWord
    <3> QED BY <2>7, <2>9, <3>1 DEF Respond
  <2> QED BY <2>4, <2>5, <2>6, <2>7, <2>10
<1>4. CASE \E ctx \in Seq(Words), n \in 0 .. 3 : q = ContextBOW(ctx, n)
  <2>1. PICK ctx \in Seq(Words), n \in 0 .. 3 : q = ContextBOW(ctx, n)
    BY <1>4
  <2> DEFINE r == Reverse(ctx)
             x == Numerals[n + 1]
             s == <<"B">> \o r \o <<x>>
             N(t) == CHOOSE m \in DOMAIN Numerals : Numerals[m] = t
  <2>2. q = [kind |-> "B", word |-> NoWord, context |-> ctx, length |-> n]
    BY <2>1 DEF ContextBOW, Question
  <2>3. r \in Seq(Tokens) /\ Reverse(r) = ctx
    BY ReverseTwice DEF Tokens
  <2>4. LineOf(q) = s
    BY <2>2 DEF LineOf
  <2>5. Encode(q) = <<"B">> \o r \o <<x, EOL>>
    BY <2>2 DEF Encode
  <2>6. x \in Numbers /\ \A m \in DOMAIN Numerals : Numerals[m] = x => m = n + 1
    BY DEF Numerals, Numbers
  <2>7. n + 1 \in DOMAIN Numerals
    BY DEF Numerals
  <2>8. N(x) = n + 1
    BY <2>6, <2>7
  <2> HIDE DEF r, x
  <2>9. <<"B">> \o r \o <<x, EOL>> = s \o <<EOL>>
    BY <2>3, <2>6 DEF Tokens
  <2>10. /\ s \in Seq(Tokens) /\ Len(s) = Len(r) + 2
         /\ s[1] = "B" /\ s[Len(s)] = x /\ SubSeq(s, 2, Len(s) - 1) = r
    BY <2>3, <2>6, Between DEF Tokens, Commands
  <2> HIDE DEF s
  <2>11. Middle(s) = ctx
    BY <2>3, <2>10 DEF Middle
  <2>12. Decode(2, s) = q
    <3>2. Decode(2, s) = ContextBOW(Middle(s), N(s[Len(s)]) - 1)
      BY <2>10 DEF Decode
    <3> HIDE DEF N
    <3>1. N(s[Len(s)]) - 1 = n
      BY <2>8, <2>10
    <3> QED BY <2>1, <2>11, <3>1, <3>2
  <2>13. Respond(2, s) = Reply(TRUE, Served(q))
    <3>1. Served(q) = Value(q)
      BY <2>2 DEF Served, ForWord
    <3> QED BY <2>10, <2>12, <3>1 DEF Respond
  <2>14. s # <<>>
    BY <2>3, <2>10
  <2> QED BY <2>4, <2>5, <2>9, <2>10, <2>13, <2>14
<1> QED BY <1>1, <1>2, <1>3, <1>4 DEF IsCall

\* Before the switch of the protocol the server waits for it, and then for requests.
LEMMA Answered ==
    ASSUME Protocol
    PROVE  /\ Process(1, <<"V2", EOL>>) = [version |-> 2, response |-> <<Reply(TRUE, Nothing)>>]
           /\ \A q : IsCall(q) =>
                  Process(2, Encode(q)) = [version |-> 2, response |-> <<Reply(TRUE, Served(q))>>]
<1>1. Process(1, <<"V2", EOL>>) = [version |-> 2, response |-> <<Reply(TRUE, Nothing)>>]
  <2> DEFINE l == <<"V2">>
  <2>1. <<"V2", EOL>> = l \o <<EOL>> /\ l \in Seq(Tokens) /\ l # <<>> /\ EOL \notin Tokens
    BY DEF Protocol, Tokens, Commands
  <2>2. Lines(<<"V2", EOL>>) = <<l>>
    BY <2>1, OneLine
  <2>3. VersionAt(1, <<l>>, 2) = 2
    BY DEF VersionAt
  <2>4. Respond(VersionAt(1, <<l>>, 1), <<l>>[1]) = Reply(TRUE, Nothing)
    BY DEF Respond
  <2>5. Process(1, <<"V2", EOL>>)
            = [version |-> VersionAt(1, <<l>>, Len(<<l>>) + 1),
               response |-> [k \in DOMAIN <<l>> |-> Respond(VersionAt(1, <<l>>, k), <<l>>[k])]]
    BY <2>2 DEF Process
  <2> DEFINE R == Reply(TRUE, Nothing)
             ans(k) == Respond(VersionAt(1, <<l>>, k), <<l>>[k])
  <2>6. [k \in DOMAIN <<l>> |-> ans(k)] = <<R>>
    <3>1. ans(1) = R
      BY <2>4
    <3> HIDE DEF ans, R
    <3>2. \A k \in 1 .. 1 : ans(k) = R
      BY <3>1
    <3> QED BY <3>2
  <2>7. Len(<<l>>) + 1 = 2
    OBVIOUS
  <2> QED BY <2>3, <2>5, <2>6, <2>7
<1>2. ASSUME NEW q, IsCall(q)
      PROVE  Process(2, Encode(q)) = [version |-> 2, response |-> <<Reply(TRUE, Served(q))>>]
  <2> DEFINE l == LineOf(q)
  <2>1. /\ l \in Seq(Tokens) /\ l # <<>> /\ EOL \notin Tokens
        /\ Encode(q) = l \o <<EOL>> /\ Respond(2, l) = Reply(TRUE, Served(q))
    BY <1>2, Understood DEF Protocol
  <2> HIDE DEF l
  <2>2. Lines(Encode(q)) = <<l>>
    BY <2>1, OneLine
  <2>3. \A k : VersionAt(2, <<l>>, k) = 2
    BY DEF VersionAt
  <2>4. Process(2, Encode(q))
            = [version |-> VersionAt(2, <<l>>, Len(<<l>>) + 1),
               response |-> [k \in DOMAIN <<l>> |-> Respond(VersionAt(2, <<l>>, k), <<l>>[k])]]
    BY <2>2 DEF Process
  <2> DEFINE R == Reply(TRUE, Served(q))
             ans(k) == Respond(VersionAt(2, <<l>>, k), <<l>>[k])
  <2>5. [k \in DOMAIN <<l>> |-> ans(k)] = <<R>>
    <3>1. ans(1) = R
      BY <2>1, <2>3
    <3> HIDE DEF ans, R
    <3>2. \A k \in 1 .. 1 : ans(k) = R
      BY <3>1
    <3> QED BY <3>2
  <2> QED BY <2>3, <2>4, <2>5
<1> QED BY <1>1, <1>2

-----------------------------------------------------------------------------
(* A client and its connection. *)

\* What caches may hold: answers, and the ID that was made up for the empty context.
Known    == Asked \cup {Nothing, ContextBOW(<<>>, 0)}
Right    == {Entry(q, Served(q)) : q \in Known}
MadeUpID == Entry(ContextID(NoWord, <<>>), NullID)

ClientType ==
    /\ phase \in [Clients -> {"off", "connected", "switching", "ready", "asking", "ended"}]
    /\ call \in [Clients -> Asked \cup {NoCall}]
    /\ probCache \in [Clients -> SUBSET Right]
    /\ contextIDCache \in [Clients -> Right \cup {MadeUpID}]
    /\ contextBOWCache \in [Clients -> Right]
    /\ inbox = [c \in Clients |-> inbox[c]] /\ outbox = [c \in Clients |-> outbox[c]]

\* In every phase what is under way in either direction is what both sides wait for.
Greeted(c) == handler[c] \in {"reading", "zombie", "gone"}

Silence(c) == inbox[c] = <<>> /\ outbox[c] = <<>>

Exchange(c, request, reply) ==
    \/ inbox[c] = request /\ outbox[c] = <<>>
    \/ inbox[c] = <<>> /\ outbox[c] = <<reply>> /\ version[c] = 2

Paired(c) ==
    /\ phase[c] = "off" => conn[c] = "none" /\ version[c] = 1 /\ Silence(c)
    /\ phase[c] = "connected" =>
           /\ conn[c] = "open" /\ version[c] = 1 /\ inbox[c] = <<>>
           /\ outbox[c] \in {<<>>, <<Banner>>}
           /\ handler[c] \in {"none", "greeting"} => outbox[c] = <<>>
    /\ phase[c] = "switching" =>
           /\ conn[c] = "open" /\ Greeted(c)
           /\ inbox[c] # <<>> => version[c] = 1
           /\ Exchange(c, <<"V2", EOL>>, Reply(TRUE, Nothing))
    /\ phase[c] = "ready" => conn[c] = "open" /\ Greeted(c) /\ version[c] = 2 /\ Silence(c)
    /\ phase[c] = "asking" =>
           /\ conn[c] = "open" /\ Greeted(c) /\ version[c] = 2 /\ call[c] \in Asked
           /\ Exchange(c, Encode(call[c]), Reply(TRUE, Served(call[c])))
    /\ phase[c] # "asking" => call[c] = NoCall

CInv == IInv /\ ClientType /\ \A c \in Clients : Paired(c)

LEMMA NoCallIsNone == ASSUME Protocol PROVE NoCall \notin Asked
<1> SUFFICES ASSUME NoCall \in Asked PROVE FALSE
  OBVIOUS
<1>1. IsCall(NoCall) /\ NoCall.kind = ""
  BY DEF Protocol, NoCall, Nothing, Question
<1>2. \A q : IsCall(q) => q.kind \in {"W", "C", "B"}
  BY DEF IsCall, WordProb, ContextID, ContextBOW, Question
<1> QED BY <1>1, <1>2

\* What happens elsewhere, and what the server does to a process of the client but
\* to greet it and to answer.
LEMMA Elsewhere ==
    ASSUME NEW d \in Clients, Paired(d),
           conn'[d] = conn[d], version'[d] = version[d], inbox'[d] = inbox[d], outbox'[d] = outbox[d],
           phase'[d] = phase[d], call'[d] = call[d],
           \/ handler'[d] = handler[d]
           \/ handler[d] = "none" /\ handler'[d] = "greeting"
           \/ handler'[d] \in {"zombie", "gone"}
    PROVE  Paired(d)'
BY DEF Paired, Greeted, Silence, Exchange

LEMMA InitCInv == ASSUME Protocol, RemoteInit PROVE CInv
<1>1. IInv
  BY InitIInv DEF RemoteInit
<1>2. NoAnswer \in Right
  BY DEF NoAnswer, NoCall, Right, Known, Served, ForWord, Value, Nothing, Question
<1>3. ClientType
  BY <1>2 DEF RemoteInit, ClientInit, Init, ClientType
<1>4. \A c \in Clients : Paired(c)
  BY DEF RemoteInit, ClientInit, Init, Paired, Silence
<1> QED BY <1>1, <1>3, <1>4 DEF CInv

-----------------------------------------------------------------------------
(* The server's steps. *)

LEMMA ServerIInv == ASSUME IInv, ServerNext PROVE IInv'
<1>1. CASE ParentNext
  BY <1>1, ReapIInv, StopReapingIInv, AcceptIInv, AcceptFailsIInv, ForkFailsIInv DEF ParentNext
<1>2. CASE \E c \in Clients : HandlerNext(c)
  BY <1>2, HandlerIInv
<1> QED BY <1>1, <1>2 DEF ServerNext

\* What is received at once is all there is.
LEMMA Whole ==
    ASSUME NEW T, NEW s \in Seq(T)
    PROVE  SubSeq(s, 1, Len(s)) = s /\ SubSeq(s, Len(s) + 1, Len(s)) = <<>>
BY SubSeqFull

LEMMA RequestIsSeq ==
    ASSUME Protocol, NEW q \in Asked
    PROVE  Encode(q) \in Seq(Tokens \cup {EOL}) /\ Encode(q) # <<>>
<1>1. LineOf(q) \in Seq(Tokens) /\ Encode(q) = LineOf(q) \o <<EOL>>
  BY Understood DEF Protocol
<1> QED BY <1>1

\* An exchange goes on when the server receives the request.
LEMMA ServedExchange ==
    ASSUME NEW c \in Clients, NEW request, NEW reply, NEW T, request \in Seq(T),
           Exchange(c, request, reply), conn[c] = "open",
           inbox = [d \in Clients |-> inbox[d]], outbox = [d \in Clients |-> outbox[d]],
           version \in [Clients -> {1, 2}],
           Process(version[c], request) = [version |-> 2, response |-> <<reply>>] \/ inbox[c] = <<>>,
           NEW n, Receive(c, n), n = Len(inbox[c]), n # 0
    PROVE  inbox'[c] = <<>> /\ outbox'[c] = <<reply>> /\ version'[c] = 2
<1>1. inbox[c] # <<>>
  BY DEF Receive
<1>2. inbox[c] = request /\ outbox[c] = <<>>
  BY <1>1 DEF Exchange
<1>3. SubSeq(inbox[c], 1, n) = request /\ SubSeq(inbox[c], n + 1, Len(inbox[c])) = <<>>
  BY <1>2, Whole
<1> DEFINE step == Process(version[c], SubSeq(inbox[c], 1, n))
<1>4. step = [version |-> 2, response |-> <<reply>>]
  BY <1>1, <1>2, <1>3
<1>5. /\ inbox' = [inbox EXCEPT ![c] = SubSeq(inbox[c], n + 1, Len(inbox[c]))]
      /\ version' = [version EXCEPT ![c] = step.version]
      /\ outbox' = [outbox EXCEPT ![c] = outbox[c] \o step.response]
  BY DEF Receive, Send
<1> HIDE DEF step
<1>6. inbox'[c] = <<>> /\ version'[c] = 2 /\ outbox'[c] = <<>> \o <<reply>>
  BY <1>2, <1>3, <1>4, <1>5
<1>7. <<>> \o <<reply>> = <<reply>>
  OBVIOUS
<1> QED BY <1>6, <1>7

LEMMA ReceivePaired ==
    ASSUME Protocol, CInv, NEW c \in Clients, NEW n, Receive(c, n), n = Len(inbox[c]), n # 0,
           UNCHANGED <<phase, call>>
    PROVE  Paired(c)'
<1>1. /\ handler' = handler /\ conn' = conn /\ Paired(c) /\ handler[c] = "reading"
      /\ inbox = [d \in Clients |-> inbox[d]] /\ outbox = [d \in Clients |-> outbox[d]]
      /\ version \in [Clients -> {1, 2}]
  BY DEF Receive, CInv, ClientType, IInv, TypeOK
<1>2. inbox[c] # <<>>
  BY DEF Receive
<1>3. CASE phase[c] = "switching"
  <2> DEFINE request == <<"V2", EOL>>
             reply == Reply(TRUE, Nothing)
  <2>1. /\ Exchange(c, request, reply) /\ conn[c] = "open" /\ version[c] = 1 /\ Greeted(c)
        /\ call[c] = NoCall
    BY <1>1, <1>2, <1>3 DEF Paired
  <2>2. Process(1, request) = [version |-> 2, response |-> <<reply>>]
    BY Answered
  <2>3. request \in Seq({"V2", EOL})
    OBVIOUS
  <2> HIDE DEF request, reply
  <2>4. inbox'[c] = <<>> /\ outbox'[c] = <<reply>> /\ version'[c] = 2
    BY <1>1, <2>1, <2>2, <2>3, ServedExchange
  <2> QED BY <1>1, <1>3, <2>1, <2>4 DEF Paired, Exchange, Greeted, reply
<1>4. CASE phase[c] = "asking"
  <2> DEFINE request == Encode(call[c])
             reply == Reply(TRUE, Served(call[c]))
  <2>1. /\ Exchange(c, request, reply) /\ conn[c] = "open" /\ version[c] = 2 /\ Greeted(c)
        /\ call[c] \in Asked
    BY <1>1, <1>4 DEF Paired
  <2>2. Process(2, request) = [version |-> 2, response |-> <<reply>>]
    BY <2>1, Answered DEF Protocol
  <2>3. request \in Seq(Tokens \cup {EOL})
    BY <2>1, RequestIsSeq
  <2> HIDE DEF request, reply
  <2>4. inbox'[c] = <<>> /\ outbox'[c] = <<reply>> /\ version'[c] = 2
    BY <1>1, <2>1, <2>2, <2>3, ServedExchange
  <2> QED BY <1>1, <1>4, <2>1, <2>4 DEF Paired, Exchange, Greeted, reply
<1>5. CASE phase[c] \notin {"switching", "asking"}
  BY <1>1, <1>2, <1>5 DEF Paired, Silence, CInv, ClientType
<1> QED BY <1>3, <1>4, <1>5

LEMMA GreetPaired ==
    ASSUME CInv, NEW c \in Clients, Greet(c), UNCHANGED <<phase, call>>
    PROVE  Paired(c)'
<1>1. /\ handler[c] = "greeting" /\ handler' = [handler EXCEPT ![c] = "reading"]
      /\ UNCHANGED <<conn, version, inbox>>
      /\ outbox' = IF conn[c] = "open" THEN [outbox EXCEPT ![c] = @ \o <<Banner>>] ELSE outbox
  BY DEF Greet, Send
<1>2. handler'[c] = "reading" /\ conn[c] # "none" /\ Paired(c) /\ outbox = [d \in Clients |-> outbox[d]]
  BY <1>1 DEF CInv, IInv, TypeOK, Queued, ClientType
<1>3. <<>> \o <<Banner>> = <<Banner>>
  OBVIOUS
<1>4. CASE phase[c] = "connected"
  <2>1. conn[c] = "open" /\ outbox[c] = <<>> /\ version[c] = 1 /\ inbox[c] = <<>> /\ call[c] = NoCall
    BY <1>1, <1>2, <1>4 DEF Paired
  <2>2. outbox'[c] = <<Banner>>
    BY <1>1, <1>2, <1>3, <2>1
  <2> QED BY <1>1, <1>2, <1>4, <2>1, <2>2 DEF Paired
<1>5. CASE phase[c] # "connected"
  BY <1>1, <1>2, <1>5 DEF Paired, Greeted
<1> QED BY <1>4, <1>5

LEMMA ServerPaired ==
    ASSUME Protocol, CInv, ServerNext, UNCHANGED <<phase, call>>, NEW d \in Clients
    PROVE  Paired(d)'
<1>1. Paired(d) /\ IInv /\ ClientType /\ handler \in [Clients -> {"none", "greeting", "reading", "zombie", "gone"}]
  BY DEF CInv, IInv, TypeOK
<1>2. CASE ParentNext
  <2>1. UNCHANGED <<conn, streams>>
    BY <1>2 DEF ParentNext, Reap, StopReaping, Accept, AcceptFails, ForkFails
  <2>2. \/ handler'[d] = handler[d]
        \/ handler[d] = "none" /\ handler'[d] = "greeting"
        \/ handler'[d] \in {"zombie", "gone"}
    <3>1. CASE \E c \in Clients : Reap(c)
      BY <1>1, <3>1 DEF Reap
    <3>2. CASE StopReaping \/ AcceptFails
      BY <3>2 DEF StopReaping, AcceptFails
    <3>3. CASE Accept
      <4>1. Head(backlog) = backlog[1] /\ 1 \in DOMAIN backlog
        BY <1>1, <3>3 DEF Accept, IInv, TypeOK
      <4> QED BY <1>1, <3>3, <4>1 DEF Accept, IInv, Queued
    <3>4. CASE ForkFails
      BY <1>1, <3>4 DEF ForkFails
    <3> QED BY <1>2, <3>1, <3>2, <3>3, <3>4 DEF ParentNext
  <2> QED BY <1>1, <2>1, <2>2, Elsewhere DEF streams
<1>3. ASSUME NEW c \in Clients, HandlerNext(c), d # c
      PROVE  Paired(d)'
  <2>1. UNCHANGED conn /\ version'[d] = version[d] /\ inbox'[d] = inbox[d] /\ outbox'[d] = outbox[d]
    BY <1>1, <1>3 DEF HandlerNext, Greet, Serve, Receive, SendFails, Finish, Killed, Send, streams,
                      ClientType, IInv, TypeOK
  <2>2. handler'[d] = handler[d]
    BY <1>1, <1>3 DEF HandlerNext, Greet, Serve, Receive, SendFails, Finish, Killed, Done, Abort
  <2> QED BY <1>1, <2>1, <2>2, Elsewhere
<1>4. ASSUME Serve(d)
      PROVE  Paired(d)'
  <2>1. PICK n \in {Len(inbox[d])} \ {0} : Receive(d, n)
    BY <1>4 DEF Serve, Protocol
  <2> QED BY <2>1, ReceivePaired
<1>5. ASSUME SendFails(d) \/ Finish(d) \/ Killed(d)
      PROVE  Paired(d)'
  <2>1. handler'[d] \in {"zombie", "gone"} /\ UNCHANGED <<conn, streams>>
    BY <1>1, <1>5 DEF SendFails, Finish, Killed, Done, Abort
  <2> QED BY <1>1, <2>1, Elsewhere DEF streams
<1> QED BY <1>2, <1>3, <1>4, <1>5, GreetPaired DEF ServerNext, HandlerNext

LEMMA ServerCInv ==
    ASSUME Protocol, CInv, ServerNext, UNCHANGED <<phase, call, answer, caches>>
    PROVE  CInv'
<1>1. IInv'
  BY ServerIInv DEF CInv
<1>2. inbox' = [c \in Clients |-> inbox'[c]] /\ outbox' = [c \in Clients |-> outbox'[c]]
  BY DEF CInv, ClientType, ServerNext, ParentNext, Reap, StopReaping, Accept, AcceptFails, ForkFails,
         HandlerNext, Greet, Serve, Receive, SendFails, Finish, Killed, Send, streams
<1>3. ClientType'
  BY <1>2 DEF CInv, ClientType, caches
<1> QED BY <1>1, <1>3, ServerPaired DEF CInv

-----------------------------------------------------------------------------
(* The clients' steps. *)

LEMMA ServerLeft ==
    ASSUME IInv, UNCHANGED <<server, numClients, backlog, conn, handler, version>>
    PROVE  IInv'
BY DEF IInv, TypeOK, Queued, Alone, ChildrenCounted, Room, Serving, Zombies, Inline

\* A step of one client leaves the others as they are.
LEMMA OthersPaired ==
    ASSUME CInv, NEW c \in Clients, NEW d \in Clients \ {c}, ClientNext(c)
    PROVE  Paired(d)'
<1>1. UNCHANGED <<handler, version>>
  BY DEF ClientNext, New, Receiving, ReadBanner, ReadVersion, ReadReply, GiveUp, Leave, End,
         AnswerFromCache, Ask, Connect, Close, Unserved, serverVars, streams
<1>2. conn'[d] = conn[d] /\ phase'[d] = phase[d] /\ call'[d] = call[d]
  BY DEF ClientNext, New, Receiving, ReadBanner, ReadVersion, ReadReply, GiveUp, Leave, End,
         AnswerFromCache, Ask, Connect, Close, Unserved, serverVars, CInv, IInv, TypeOK, ClientType
<1>3. inbox'[d] = inbox[d] /\ outbox'[d] = outbox[d]
  BY DEF ClientNext, New, Receiving, ReadBanner, ReadVersion, ReadReply, GiveUp, Leave, End,
         AnswerFromCache, Ask, Connect, Close, Drain, Write, serverVars, streams, CInv, ClientType
<1> QED BY <1>1, <1>2, <1>3, Elsewhere DEF CInv

LEMMA NewCInv ==
    ASSUME CInv, NEW c \in Clients, New(c)
    PROVE  IInv' /\ ClientType' /\ Paired(c)'
<1>1. IInv'
  BY EnvironmentIInv DEF New, EnvironmentNext, CInv
<1>2. ClientType'
  BY DEF New, Connect, CInv, ClientType, caches, streams
<1>3. Paired(c) /\ handler[c] = "none"
  BY DEF CInv, New, Connect, IInv, Queued
<1>4. Paired(c)'
  BY <1>3 DEF New, Connect, CInv, IInv, TypeOK, ClientType, Paired, Silence, streams
<1> QED BY <1>1, <1>2, <1>4

LEMMA ReadBannerCInv ==
    ASSUME CInv, NEW c \in Clients, ReadBanner(c)
    PROVE  IInv' /\ ClientType' /\ Paired(c)'
<1>1. IInv'
  BY ServerLeft DEF ReadBanner, Unserved, CInv
<1>2. ClientType'
  BY DEF ReadBanner, Drain, Write, CInv, ClientType, caches
<1>3. /\ Paired(c) /\ phase[c] = "connected" /\ outbox[c] # <<>>
      /\ handler[c] \in {"none", "greeting", "reading", "zombie", "gone"}
  BY DEF CInv, ReadBanner, IInv, TypeOK
<1>4. conn[c] = "open" /\ version[c] = 1 /\ inbox[c] = <<>> /\ Greeted(c) /\ call[c] = NoCall
  BY <1>3 DEF Paired, Greeted
<1>5. <<>> \o <<"V2", EOL>> = <<"V2", EOL>>
  OBVIOUS
<1>6. /\ inbox'[c] = <<"V2", EOL>> /\ outbox'[c] = <<>> /\ phase'[c] = "switching"
      /\ UNCHANGED <<conn, version, handler, call>>
  BY <1>4, <1>5 DEF ReadBanner, Drain, Write, Unserved, CInv, ClientType
<1>7. Paired(c)'
  BY <1>4, <1>6 DEF Paired, Exchange, Greeted
<1> QED BY <1>1, <1>2, <1>7

LEMMA ReadVersionCInv ==
    ASSUME CInv, NEW c \in Clients, ReadVersion(c)
    PROVE  IInv' /\ ClientType' /\ Paired(c)'
<1>1. IInv'
  BY ServerLeft DEF ReadVersion, Unserved, CInv
<1>2. Entry(ContextBOW(<<>>, 0), One) \in Right
  <2>1. Served(ContextBOW(<<>>, 0)) = One
    BY DEF Served, ForWord, Value, One, ContextBOW, Question
  <2> QED BY <2>1 DEF Right, Known
<1>3. ClientType'
  BY <1>2 DEF ReadVersion, Drain, CInv, ClientType, MadeUpID
<1>4. Paired(c) /\ phase[c] = "switching" /\ outbox[c] # <<>>
  BY DEF CInv, ReadVersion
<1>5. conn[c] = "open" /\ version[c] = 2 /\ inbox[c] = <<>> /\ Greeted(c) /\ call[c] = NoCall
  BY <1>4 DEF Paired, Exchange
<1>6. /\ outbox'[c] = <<>> /\ phase'[c] = "ready"
      /\ UNCHANGED <<conn, version, handler, call, inbox>>
  BY DEF ReadVersion, Drain, Unserved, CInv, ClientType
<1>7. Paired(c)'
  BY <1>5, <1>6 DEF Paired, Silence, Greeted
<1> QED BY <1>1, <1>3, <1>7

LEMMA AnswerFromCacheCInv ==
    ASSUME CInv, NEW c \in Clients, NEW q, AnswerFromCache(c, q)
    PROVE  IInv' /\ ClientType' /\ Paired(c)'
BY ServerLeft DEF AnswerFromCache, serverVars, caches, CInv, ClientType, Paired, Silence, Exchange, Greeted

LEMMA AskCInv ==
    ASSUME CInv, NEW c \in Clients, NEW q \in Asked, Protocol, Ask(c, q)
    PROVE  IInv' /\ ClientType' /\ Paired(c)'
<1>1. IInv'
  BY ServerLeft DEF Ask, Unserved, CInv
<1>2. ClientType'
  BY DEF Ask, Write, CInv, ClientType, caches
<1>3. Paired(c) /\ phase[c] = "ready"
  BY DEF CInv, Ask
<1>4. conn[c] = "open" /\ version[c] = 2 /\ Silence(c) /\ Greeted(c)
  BY <1>3 DEF Paired
<1>5. <<>> \o Encode(q) = Encode(q)
  BY RequestIsSeq
<1>6. /\ inbox'[c] = Encode(q) /\ outbox' = outbox /\ phase'[c] = "asking" /\ call'[c] = q
      /\ UNCHANGED <<conn, version, handler>>
  BY <1>4, <1>5 DEF Ask, Write, Unserved, CInv, ClientType, Silence
<1>7. Paired(c)'
  BY <1>4, <1>6 DEF Paired, Exchange, Silence, Greeted
<1> QED BY <1>1, <1>2, <1>7

\* The reply that is read is the answer to the call.
LEMMA ReplyIsAnswer ==
    ASSUME CInv, NEW c \in Clients, ReadReply(c)
    PROVE  /\ call[c] \in Asked /\ Head(outbox[c]).value = Served(call[c])
           /\ conn[c] = "open" /\ version[c] = 2 /\ inbox[c] = <<>> /\ Greeted(c)
<1>1. Paired(c) /\ phase[c] = "asking" /\ outbox[c] # <<>>
  BY DEF CInv, ReadReply
<1>2. /\ call[c] \in Asked /\ outbox[c] = <<Reply(TRUE, Served(call[c]))>>
      /\ conn[c] = "open" /\ version[c] = 2 /\ inbox[c] = <<>> /\ Greeted(c)
  BY <1>1 DEF Paired, Exchange
<1>3. Head(<<Reply(TRUE, Served(call[c]))>>) = Reply(TRUE, Served(call[c]))
  OBVIOUS
<1> QED BY <1>2, <1>3 DEF Reply

LEMMA ReadReplyCInv ==
    ASSUME Protocol, CInv, NEW c \in Clients, ReadReply(c)
    PROVE  IInv' /\ ClientType' /\ Paired(c)'
<1> DEFINE e == Entry(call[c], Head(outbox[c]).value)
<1>1. IInv'
  BY ServerLeft DEF ReadReply, Unserved, CInv
<1>2. e \in Right
  BY ReplyIsAnswer DEF Right, Known
<1>3. Keep(c, e) /\ e.query.kind \in {"W", "C", "B"}
  <2>1. IsCall(call[c])
    BY ReplyIsAnswer DEF Protocol
  <2>2. \A q : IsCall(q) => q.kind \in {"W", "C", "B"}
    BY DEF IsCall, WordProb, ContextID, ContextBOW, Question
  <2> QED BY <2>1, <2>2 DEF ReadReply, Entry
<1> HIDE DEF e
<1>4. /\ probCache' \in [Clients -> SUBSET Right]
      /\ contextIDCache' \in [Clients -> Right \cup {MadeUpID}]
      /\ contextBOWCache' \in [Clients -> Right]
  <2>1. \/ UNCHANGED caches
        \/ /\ probCache' = [probCache EXCEPT ![c] = @ \cup {e}]
           /\ UNCHANGED <<contextIDCache, contextBOWCache>>
        \/ /\ contextIDCache' = [contextIDCache EXCEPT ![c] = e]
           /\ UNCHANGED <<probCache, contextBOWCache>>
        \/ /\ contextBOWCache' = [contextBOWCache EXCEPT ![c] = e]
           /\ UNCHANGED <<probCache, contextIDCache>>
    <3>1. CASE Len(e.query.context) >= CacheOrder
      BY <1>3, <3>1 DEF Keep
    <3>2. CASE ~(Len(e.query.context) >= CacheOrder) /\ e.query.kind = "W"
      BY <1>3, <3>2 DEF Keep
    <3>3. CASE ~(Len(e.query.context) >= CacheOrder) /\ e.query.kind = "C"
      BY <1>3, <3>3 DEF Keep
    <3>4. CASE ~(Len(e.query.context) >= CacheOrder) /\ e.query.kind = "B"
      BY <1>3, <3>4 DEF Keep
    <3> QED BY <1>3, <3>1, <3>2, <3>3, <3>4
  <2>2. /\ probCache \in [Clients -> SUBSET Right]
        /\ contextIDCache \in [Clients -> Right \cup {MadeUpID}]
        /\ contextBOWCache \in [Clients -> Right]
    BY DEF CInv, ClientType
  <2> QED BY <1>2, <2>1, <2>2 DEF caches
<1>5. ClientType'
  BY <1>4 DEF ReadReply, Drain, CInv, ClientType
<1>6. /\ outbox'[c] = <<>> /\ phase'[c] = "ready" /\ call'[c] = NoCall
      /\ UNCHANGED <<conn, version, handler, inbox>>
  BY DEF ReadReply, Drain, Unserved, CInv, ClientType
<1>7. Paired(c)'
  BY <1>6, ReplyIsAnswer DEF Paired, Silence, Greeted
<1> QED BY <1>1, <1>5, <1>7

LEMMA EndCInv ==
    ASSUME CInv, NEW c \in Clients, End(c)
    PROVE  IInv' /\ ClientType' /\ Paired(c)'
<1>1. IInv'
  <2>1. CASE conn[c] = "open"
    BY <2>1, EnvironmentIInv DEF End, EnvironmentNext, CInv
  <2>2. CASE conn[c] # "open"
    BY <2>2, ServerLeft DEF End, serverVars, CInv
  <2> QED BY <2>1, <2>2
<1>2. UNCHANGED <<inbox, outbox>>
  BY DEF End, Close, serverVars, streams
<1>3. ClientType'
  BY <1>2 DEF End, CInv, ClientType, caches
<1>4. Paired(c)'
  BY DEF End, CInv, ClientType, Paired
<1> QED BY <1>1, <1>3, <1>4

LEMMA ClientCInv == ASSUME Protocol, CInv, NEW c \in Clients, ClientNext(c) PROVE CInv'
<1>1. IInv' /\ ClientType' /\ Paired(c)'
  <2>1. CASE New(c)
    BY <2>1, NewCInv
  <2>2. CASE Receiving(c)
    BY <2>2, ReadBannerCInv, ReadVersionCInv, ReadReplyCInv, EndCInv DEF Receiving, GiveUp
  <2>3. CASE Leave(c)
    BY <2>3, EndCInv DEF Leave
  <2>4. CASE \E q \in Queries : AnswerFromCache(c, Truncated(q)) \/ Ask(c, Truncated(q))
    BY <2>4, AnswerFromCacheCInv, AskCInv DEF Asked
  <2> QED BY <2>1, <2>2, <2>3, <2>4 DEF ClientNext
<1>2. \A d \in Clients \ {c} : Paired(d)'
  BY OthersPaired
<1> QED BY <1>1, <1>2 DEF CInv

LEMMA NextCInv == ASSUME Protocol, CInv, [RemoteNext]_vars PROVE CInv'
<1>1. CASE ServerNext /\ UNCHANGED <<phase, call, answer, caches>>
  BY <1>1, ServerCInv
<1>2. CASE \E c \in Clients : ClientNext(c)
  BY <1>2, ClientCInv
<1>3. CASE UNCHANGED vars
  <2>1. IInv'
    BY <1>3, ServerLeft DEF CInv, vars, serverVars
  <2> QED BY <1>3, <2>1 DEF CInv, vars, serverVars, caches, ClientType, Paired, Silence, Exchange, Greeted
<1> QED BY <1>1, <1>2, <1>3 DEF RemoteNext

-----------------------------------------------------------------------------
(* The promise. *)

\* A cache has what the server answers, or the null pointer for the empty context.
LEMMA CacheIsRight ==
    ASSUME Protocol, CInv, NEW c \in Clients, NEW q \in Asked, NEW e \in Cached(c, q)
    PROVE  e \in Service!Answered(q) /\ Entry(q, e.value) \in Service!Answered(q)
<1>1. e.query = q /\ ~(Len(q.context) >= CacheOrder)
  BY DEF Cached
<1>2. IsCall(q) /\ CacheOrder \in Nat
  BY DEF Protocol
<1>3. e \in probCache[c] \cup {contextIDCache[c], contextBOWCache[c]} /\ q.kind \in {"W", "C", "B"}
  BY <1>2 DEF Cached, IsCall, WordProb, ContextID, ContextBOW, Question
<1>4. e \in Right \cup {MadeUpID}
  BY <1>3 DEF CInv, ClientType
<1>5. e = Entry(q, e.value) /\ e.value \in Answers(q)
  <2>1. CASE e \in Right
    <3>1. PICK p \in Known : e = Entry(p, Served(p))
      BY <2>1 DEF Right
    <3>2. p = q
      BY <1>1, <3>1 DEF Entry
    <3> QED BY <3>1, <3>2 DEF Entry, Answers
  <2>2. CASE e = MadeUpID
    <3>1. q = ContextID(NoWord, <<>>) /\ e = Entry(q, NullID)
      BY <1>1, <2>2 DEF MadeUpID, Entry
    <3>2. q.context = <<>> /\ Len(q.context) = 0
      BY <3>1 DEF ContextID, Question
    <3>3. CacheOrder > 0
      BY <1>1, <1>2, <3>2
    <3> QED BY <3>1, <3>3 DEF Entry, Answers, MadeUp
  <2> QED BY <1>4, <2>1, <2>2
<1> QED BY <1>5 DEF Entry, Service!Answered

LEMMA ClientPromise ==
    ASSUME Protocol, CInv, NEW c \in Clients, ClientNext(c)
    PROVE  Service!Next \/ UNCHANGED <<call, answer>>
<1>1. CASE New(c) \/ ReadBanner(c) \/ ReadVersion(c)
  BY <1>1 DEF New, ReadBanner, ReadVersion
<1>2. CASE ReadReply(c)
  <2> DEFINE e == Entry(call[c], Head(outbox[c]).value)
  <2>1. call[c] \in Asked /\ e \in Service!Answered(call[c])
    BY <1>2, ReplyIsAnswer DEF Entry, Answers, Service!Answered
  <2>2. answer' = [answer EXCEPT ![c] = e] /\ call' = [call EXCEPT ![c] = NoCall]
    BY <1>2 DEF ReadReply
  <2> HIDE DEF e
  <2>3. call[c] # NoCall
    BY <2>1, NoCallIsNone
  <2>4. Service!Return(c)
    BY <2>1, <2>2, <2>3 DEF Service!Return
  <2> QED BY <2>4 DEF Service!Next
<1>3. CASE End(c)
  <2>1. call' = [call EXCEPT ![c] = NoCall] /\ answer' = answer
    BY <1>3 DEF End
  <2>2. CASE call[c] = NoCall
    BY <2>1, <2>2 DEF CInv, ClientType
  <2>3. CASE call[c] # NoCall
    BY <2>1, <2>3 DEF Service!Next, Service!Stop
  <2> QED BY <2>2, <2>3
<1>4. ASSUME NEW q \in Queries, AnswerFromCache(c, Truncated(q))
      PROVE  Service!Next
  <2> DEFINE p == Truncated(q)
  <2>1. p \in Asked
    BY DEF Asked
  <2>2. PICK e \in Cached(c, p) : answer' = [answer EXCEPT ![c] = Entry(p, e.value)]
    BY <1>4 DEF AnswerFromCache
  <2>3. Entry(p, e.value) \in Service!Answered(p)
    BY <2>1, <2>2, CacheIsRight
  <2>4. call[c] = NoCall /\ call' = call
    BY <1>4 DEF AnswerFromCache, CInv, Paired
  <2> HIDE DEF p
  <2>5. Service!AnswerAtOnce(c, p)
    BY <2>2, <2>3, <2>4 DEF Service!AnswerAtOnce
  <2> QED BY <2>1, <2>5 DEF Service!Next, Asked
<1>5. ASSUME NEW q \in Queries, Ask(c, Truncated(q))
      PROVE  Service!Next
  <2>1. Service!Call(c, Truncated(q))
    BY <1>5 DEF Ask, Service!Call, CInv, Paired
  <2> QED BY <2>1 DEF Service!Next
<1> QED BY <1>1, <1>2, <1>3, <1>4, <1>5 DEF ClientNext, Receiving, GiveUp, Leave

(* Every call, of any of the three methods and with any arguments, returns one *)
(* of the Answers for its own arguments, whatever the order of requests,       *)
(* replies, cached answers, killed children and clients that leave             *)
(* (LMClient.cc:211-491, LM.cc:1190): the model's answer, but for context IDs  *)
(* for a word, which are another history's, and the null pointer for none.     *)
(* Requests arrive in one piece (Protocol).                                    *)
THEOREM RepliesAsServed == ASSUME Protocol PROVE RemoteSpec => AnswersAsServed
<1>1. RemoteInit => CInv /\ Service!Init
  BY InitCInv DEF RemoteInit, ClientInit, Service!Init
<1>2. CInv /\ [RemoteNext]_vars => CInv'
  BY NextCInv
<1>3. CInv /\ [RemoteNext]_vars => [Service!Next]_Service!vars
  BY ClientPromise DEF RemoteNext, vars, Service!vars
<1> QED BY <1>1, <1>2, <1>3, PTL DEF RemoteSpec, AnswersAsServed

(* At no moment does a connection carry anything but the request or the reply  *)
(* that its client waits for, whatever the call; caches hold what the server   *)
(* answered to the very call they name, C2 included, or the null pointer that  *)
(* the client made up for the empty context.  Requests arrive in one piece.    *)
THEOREM ConnectionsInStep == ASSUME Protocol PROVE RemoteSpec => []CInv
<1>1. RemoteInit => CInv
  BY InitCInv
<1>2. CInv /\ [RemoteNext]_vars => CInv'
  BY NextCInv
<1> QED BY <1>1, <1>2, PTL DEF RemoteSpec
=============================================================================
