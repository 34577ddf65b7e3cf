----------------------------- MODULE ProbServer -----------------------------
(***************************************************************************)
(* LM::probServer() of lm/src/LM.cc: the network server of N-gram          *)
(* probabilities.  The main process accepts connections and forks a child  *)
(* for each, of which it allows MaxClients at a time; with MaxClients = 1  *)
(* it serves its one client itself.  A child greets its client and then    *)
(* answers commands until the client has gone.                             *)
(*                                                                         *)
(* The clients are the environment: each connects, sends its Messages and  *)
(* closes, whenever it likes.  LMClient.tla puts the real client in their  *)
(* place.                                                                  *)
(***************************************************************************)
EXTENDS Integers, FiniteSets, SequencesExt

(* The line protocol of RemoteLM.h between LMClient and a server.  A       *)
(* stream is a sequence of tokens, EOL among them.  What the model behind  *)
(* the server computes is left open: a query is answered with the query    *)
(* that was evaluated, so two answers are equal exactly when they are      *)
(* answers to the same question.                                           *)

CONSTANTS
    Words,      \* words, as strings
    NoWord,     \* Vocab_None
    EOL         \* the newline

Numerals == <<"0", "1", "2", "3">>

\* A query as LMClient's callers state it; contexts have the nearest word first.
Question(kind, word, context, length) ==
    [kind |-> kind, word |-> word, context |-> context, length |-> length]

WordProb(word, context) == Question("W", word, context, 0)
ContextID(word, context) == Question("C", word, context, 0)
ContextBOW(context, length) == Question("B", NoWord, context, length)

\* No backoff at all, LogP_One.
One == ContextBOW(<<>>, 0)

\* The value of a query.  No weight is applied to a context that is not shortened.
Value(q) == IF q.kind = "B" /\ q.length >= Len(q.context) THEN One ELSE q

-----------------------------------------------------------------------------
\* The line sent for a query, with the context in reading order.
Encode(q) ==
    CASE q.kind = "W" -> <<"W">> \o Reverse(q.context) \o <<q.word, EOL>>
      [] q.kind = "C" /\ q.word = NoWord -> <<"C1">> \o Reverse(q.context) \o <<EOL>>
      [] q.kind = "C" /\ q.word # NoWord ->
             <<"C2">> \o Reverse(q.context) \o <<q.word, EOL>>
      [] q.kind = "B" ->
             <<"B">> \o Reverse(q.context) \o <<Numerals[q.length + 1], EOL>>

Nth(S, k) == CHOOSE n \in S : Cardinality({m \in S : m <= n}) = k

\* strtok_r(): the maximal runs of a buffer that hold no newline.
Lines(buffer) ==
    LET Starts == {i \in DOMAIN buffer :
                       buffer[i] # EOL /\ (i = 1 \/ buffer[i - 1] = EOL)}
        Ends == {i \in DOMAIN buffer :
                     buffer[i] # EOL /\ (i = Len(buffer) \/ buffer[i + 1] = EOL)}
    IN  [k \in 1 .. Cardinality(Starts) |-> SubSeq(buffer, Nth(Starts, k), Nth(Ends, k))]

\* The words between the command and the last word, nearest first.
Middle(line) == Reverse(SubSeq(line, 2, Len(line) - 1))

\* The query a line is taken for.  In C2 the indices of words + 1 are stored from
\* 0 on, one place lower than the words: wids[len - 1] is the terminator, not the
\* word, and the word is left in the context.
Decode_Unreversed(version, line) ==
    LET last == line[Len(line)]
    IN  CASE version = 1 -> WordProb(last, Reverse(Front(line)))
          [] version = 2 /\ line[1] = "W" -> WordProb(last, Reverse(Middle(line)))
          [] version = 2 /\ line[1] \in {"C1", "C2"} ->
                 ContextID(NoWord, Tail(line))
          [] version = 2 /\ line[1] = "B" ->
                 ContextBOW(Reverse(Middle(line)),
                            (CHOOSE n \in DOMAIN Numerals : Numerals[n] = last) - 1)

Decode(version, line) ==
    LET last == line[Len(line)]
    IN  CASE version = 1 -> WordProb(last, Reverse(Front(line)))
          [] version = 2 /\ line[1] = "W" -> WordProb(last, Middle(line))
          [] version = 2 /\ line[1] \in {"C1", "C2"} ->
                 ContextID(NoWord, Reverse(Tail(line)))
          [] version = 2 /\ line[1] = "B" ->
                 ContextBOW(Middle(line),
                            (CHOOSE n \in DOMAIN Numerals : Numerals[n] = last) - 1)

-----------------------------------------------------------------------------
\* A reply says OK or not, and what was evaluated if anything was.
Nothing == Question("", NoWord, <<>>, 0)
Reply(ok, value) == [ok |-> ok, value |-> value]
Banner == Reply(FALSE, Nothing)
Unknown == Reply(FALSE, Nothing)

\* The version in force at the k-th line of a message.
VersionAt(version, lines, k) ==
    IF \E j \in 1 .. k - 1 : lines[j][1] = "V2" THEN 2 ELSE version

\* One command.  A reply in the old protocol has no OK.
Respond(version, line) ==
    CASE line[1] = "V2" -> Reply(TRUE, Nothing)
      [] line[1] # "V2" /\ (version = 1 \/ line[1] \in {"W", "C1", "C2", "B"}) ->
             Reply(version = 2, Value(Decode(version, line)))
      [] OTHER -> Unknown

\* One message: all commands in it, as they were received.
Process(version, buffer) ==
    LET lines == Lines(buffer)
    IN  [version |-> VersionAt(version, lines, Len(lines) + 1),
         response |-> [k \in DOMAIN lines |->
                           Respond(VersionAt(version, lines, k), lines[k])]]

-----------------------------------------------------------------------------
(* The server.                                                             *)

CONSTANTS
    Clients,
    MaxClients,   \* -server-maxclients, 0 for no limit
    Messages,     \* Messages[c]: what client c of the environment may send
    MaxInbox,     \* bounds on the tokens and the replies of a connection that
    MaxOutbox,    \* are not yet read when the environment sends
    Splits,       \* TRUE: recv() may return part of a message
    Failures,     \* TRUE: accept() and fork() may fail
    Kills         \* TRUE: children may be killed

ASSUME ProbServerAssumption ==
    /\ MaxClients \in Nat
    /\ IsFiniteSet(Clients)
    /\ Splits \in BOOLEAN /\ Failures \in BOOLEAN /\ Kills \in BOOLEAN

VARIABLES
    server,       \* where the main process is in its loop
    numClients,
    backlog,      \* the listening socket's queue
    conn,         \* the client's end of each connection
    handler,      \* the process that serves each connection
    version,      \* its protocolVersion
    inbox,        \* tokens on their way to the server
    outbox        \* replies on their way to the client

streams == <<version, inbox, outbox>>
serverVars == <<server, numClients, backlog, conn, handler, version, inbox, outbox>>

TypeOK ==
    /\ server \in {"reaping", "accepting", "serving", "stopped"}
    /\ numClients \in Nat
    /\ backlog \in Seq(Clients)
    /\ conn \in [Clients -> {"none", "open", "closed"}]
    /\ handler \in [Clients -> {"none", "greeting", "reading", "zombie", "gone"}]
    /\ version \in [Clients -> {1, 2}]

Init ==
    /\ server = "reaping"
    /\ numClients = 0
    /\ backlog = <<>>
    /\ conn = [c \in Clients |-> "none"]
    /\ handler = [c \in Clients |-> "none"]
    /\ version = [c \in Clients |-> 1]
    /\ inbox = [c \in Clients |-> <<>>]
    /\ outbox = [c \in Clients |-> <<>>]

Inline == MaxClients = 1
Serving == {c \in Clients : handler[c] \in {"greeting", "reading"}}
Zombies == {c \in Clients : handler[c] = "zombie"}

Full_OneMore == MaxClients > 0 /\ numClients > MaxClients
Full == MaxClients > 0 /\ numClients >= MaxClients

-----------------------------------------------------------------------------
(***************************************************************************)
(* The main process                                                        *)
(***************************************************************************)

\* waitpid(-1, NULL, WNOHANG) returns a child.
Reap_Uncounted(c) ==
    /\ server = "reaping" /\ c \in Zombies
    /\ handler' = [handler EXCEPT ![c] = "gone"]
    /\ UNCHANGED <<server, numClients, backlog, conn, streams>>

Reap(c) ==
    /\ server = "reaping" /\ c \in Zombies
    /\ handler' = [handler EXCEPT ![c] = "gone"]
    /\ numClients' = numClients - 1
    /\ UNCHANGED <<server, backlog, conn, streams>>

\* It returns none, and there is room for a client.  Otherwise: sleep(5).
StopReaping ==
    /\ server = "reaping" /\ Zombies = {} /\ ~Full
    /\ server' = "accepting"
    /\ UNCHANGED <<numClients, backlog, conn, handler, streams>>

Accept ==
    /\ server = "accepting" /\ backlog # <<>>
    /\ handler' = [handler EXCEPT ![Head(backlog)] = "greeting"]
    /\ backlog' = Tail(backlog)
    /\ IF Inline
       THEN server' = "serving" /\ UNCHANGED numClients
       ELSE server' = "reaping" /\ numClients' = numClients + 1
    /\ UNCHANGED <<conn, streams>>

\* accept() fails: the server closes its socket and returns.
AcceptFails ==
    /\ Failures /\ server = "accepting"
    /\ server' = "stopped"
    /\ UNCHANGED <<numClients, backlog, conn, handler, streams>>

\* fork() fails: so it does, after closing the new connection too.
ForkFails ==
    /\ Failures /\ ~Inline
    /\ server = "accepting" /\ backlog # <<>>
    /\ server' = "stopped"
    /\ handler' = [handler EXCEPT ![Head(backlog)] = "gone"]
    /\ backlog' = Tail(backlog)
    /\ UNCHANGED <<numClients, conn, streams>>

-----------------------------------------------------------------------------
(***************************************************************************)
(* The process that serves a connection                                    *)
(***************************************************************************)

\* The end of the loop body: exit(0), or on to the next client.
Done(c) ==
    IF Inline
    THEN server' = "reaping" /\ handler' = [handler EXCEPT ![c] = "gone"]
    ELSE UNCHANGED server /\ handler' = [handler EXCEPT ![c] = "zombie"]

\* exit(-1) (or SIGPIPE): inline, it takes the server with it.
Abort(c) ==
    IF Inline
    THEN server' = "stopped" /\ handler' = [handler EXCEPT ![c] = "gone"]
    ELSE UNCHANGED server /\ handler' = [handler EXCEPT ![c] = "zombie"]

\* What is sent to a client that has gone is lost.
Send(c, replies) ==
    outbox' = IF conn[c] = "open" THEN [outbox EXCEPT ![c] = @ \o replies] ELSE outbox

Greet(c) ==
    /\ handler[c] = "greeting"
    /\ handler' = [handler EXCEPT ![c] = "reading"]
    /\ Send(c, <<Banner>>)
    /\ UNCHANGED <<server, numClients, backlog, conn, version, inbox>>

\* recv() returns the first n tokens; their lines are answered with one send().
Receive(c, n) ==
    LET step == Process(version[c], SubSeq(inbox[c], 1, n))
    IN  /\ handler[c] = "reading"
        /\ inbox' = [inbox EXCEPT ![c] = SubSeq(@, n + 1, Len(@))]
        /\ version' = [version EXCEPT ![c] = step.version]
        /\ Send(c, step.response)
        /\ UNCHANGED <<server, numClients, backlog, conn, handler>>

Serve(c) ==
    \E n \in IF Splits THEN 1 .. Len(inbox[c]) ELSE {Len(inbox[c])} \ {0} : Receive(c, n)

\* send() to a client that has gone fails, if that is known by then.
SendFails(c) ==
    /\ conn[c] = "closed"
    /\ handler[c] = "greeting" \/ (handler[c] = "reading" /\ inbox[c] # <<>>)
    /\ Abort(c)
    /\ UNCHANGED <<numClients, backlog, conn, streams>>

\* recv() returns 0, or an error if the client reset the connection.
Finish_Uncounted(c) ==
    /\ handler[c] = "reading" /\ conn[c] = "closed"
    /\ handler' = [handler EXCEPT ![c] = "gone"]
    /\ server' = IF Inline THEN "reaping" ELSE server
    /\ UNCHANGED <<numClients, backlog, conn, streams>>

Finish_OnError(c) ==
    /\ handler[c] = "reading" /\ conn[c] = "closed" /\ inbox[c] # <<>>
    /\ Done(c)
    /\ UNCHANGED <<numClients, backlog, conn, streams>>

Finish(c) ==
    /\ handler[c] = "reading" /\ conn[c] = "closed"
    /\ Done(c)
    /\ UNCHANGED <<numClients, backlog, conn, streams>>

Killed(c) ==
    /\ Kills /\ ~Inline /\ c \in Serving
    /\ Abort(c)
    /\ UNCHANGED <<numClients, backlog, conn, streams>>

-----------------------------------------------------------------------------
(***************************************************************************)
(* The environment                                                         *)
(***************************************************************************)

Connect(c) ==
    /\ conn[c] = "none" /\ server # "stopped"
    /\ conn' = [conn EXCEPT ![c] = "open"]
    /\ backlog' = Append(backlog, c)
    /\ UNCHANGED <<server, numClients, handler, streams>>

Transmit(c, m) ==
    /\ conn[c] = "open"
    /\ Len(inbox[c]) + Len(m) <= MaxInbox /\ Len(outbox[c]) <= MaxOutbox
    /\ inbox' = [inbox EXCEPT ![c] = @ \o m]
    /\ UNCHANGED <<server, numClients, backlog, conn, handler, version, outbox>>

Read(c) ==
    /\ conn[c] = "open" /\ outbox[c] # <<>>
    /\ outbox' = [outbox EXCEPT ![c] = <<>>]
    /\ UNCHANGED <<server, numClients, backlog, conn, handler, version, inbox>>

Close(c) ==
    /\ conn[c] = "open"
    /\ conn' = [conn EXCEPT ![c] = "closed"]
    /\ UNCHANGED <<server, numClients, backlog, handler, streams>>

-----------------------------------------------------------------------------
ParentNext == (\E c \in Clients : Reap(c)) \/ StopReaping \/ Accept \/ AcceptFails \/ ForkFails
HandlerNext(c) == Greet(c) \/ Serve(c) \/ SendFails(c) \/ Finish(c) \/ Killed(c)
EnvironmentNext(c) == Connect(c) \/ (\E m \in Messages[c] : Transmit(c, m)) \/ Read(c) \/ Close(c)

ServerNext == ParentNext \/ \E c \in Clients : HandlerNext(c)
Next == ServerNext \/ \E c \in Clients : EnvironmentNext(c)

\* The processes are scheduled; a process in recv() is woken by data and by the
\* end of the connection.
ServerFairness ==
    /\ WF_serverVars((\E c \in Clients : Reap(c)) \/ StopReaping \/ Accept)
    /\ \A c \in Clients : WF_serverVars(Greet(c) \/ Serve(c) \/ SendFails(c) \/ Finish(c))

\* Clients need never connect or send, but close in the end.
Spec == Init /\ [][Next]_serverVars /\ ServerFairness /\ \A c \in Clients : WF_serverVars(Close(c))

-----------------------------------------------------------------------------
(***************************************************************************)
(* Properties                                                              *)
(***************************************************************************)

\* No more than maxClients clients are served at a time, although the server only
\* learns of the end of a child when it next asks (LM.cc:1131-1146).
ClientLimit == MaxClients > 0 => Cardinality(Serving) <= MaxClients

\* The count the limit is enforced with is the number of children that exist: none
\* is forgotten and none reaped twice, so the unsigned count never wraps.
ChildrenCounted ==
    numClients = IF Inline THEN 0 ELSE Cardinality(Serving) + Cardinality(Zombies)

\* A client that hangs because the limit is reached is greeted when others have
\* gone; it is not overtaken for ever (man/man1/ngram.1, -server-maxclients).
EveryClientGreeted ==
    \A c \in Clients :
        conn[c] = "open" /\ handler[c] = "none" ~> handler[c] # "none" \/ server = "stopped"

\* A connection whose client has gone does not keep its process for ever, and so
\* its place under the limit is given back.
ChildrenEnd ==
    \A c \in Clients :
        conn[c] = "closed" /\ c \in Serving ~> c \notin Serving

\* No connection is left where it is: neither its client nor its process waits for ever.
ConnectionsMoveOn == EveryClientGreeted /\ ChildrenEnd
=============================================================================
