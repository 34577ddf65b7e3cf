------------------------------ MODULE LMClient ------------------------------
(***************************************************************************)
(* lm/src/LMClient.cc: an LM whose probabilities come from a ProbServer.   *)
(* The client connects, reads the banner, switches to version 2 of the     *)
(* protocol and then sends one line per call, reading the reply before it  *)
(* returns.  It keeps the probabilities of short N-grams, and the last     *)
(* context ID and the last backoff weight, and exits on any failure.       *)
(***************************************************************************)
EXTENDS ProbServer

CONSTANTS
    Queries,      \* the calls that are made
    Order,        \* -order, 0 for any
    CacheOrder    \* N-grams shorter than this are cached: Order with
                  \* -cache-served-ngrams, otherwise 0

VARIABLES
    phase,        \* how far each client is
    call,         \* the query whose reply it waits for
    answer,       \* the last call it completed
    probCache, contextIDCache, contextBOWCache

caches == <<probCache, contextIDCache, contextBOWCache>>
vars == <<serverVars, phase, call, answer, caches>>

NoCall == Nothing
Entry(query, value) == [query |-> query, value |-> value]
NoAnswer == Entry(Nothing, Nothing)

\* The context is cut to the length the model looks at.
Truncated(q) ==
    IF Order > 0 /\ Len(q.context) > Order - 1
    THEN [q EXCEPT !.context = SubSeq(@, 1, Order - 1)]
    ELSE q

\* The null pointer, that contextIDCache starts out with.
NullID == Question("null", NoWord, <<>>, 0)

ClientInit ==
    /\ phase = [c \in Clients |-> "off"]
    /\ call = [c \in Clients |-> NoCall]
    /\ answer = [c \in Clients |-> NoAnswer]
    /\ probCache = [c \in Clients |-> {}]
    /\ contextIDCache = [c \in Clients |-> NoAnswer]
    /\ contextBOWCache = [c \in Clients |-> NoAnswer]

-----------------------------------------------------------------------------
\* The cached backoff weight is taken whatever its length.
Cached_NoLength(c, q) ==
    IF Len(q.context) >= CacheOrder THEN {}
    ELSE {e \in CASE q.kind = "W" -> probCache[c]
                  [] q.kind = "C" -> {contextIDCache[c]}
                  [] q.kind = "B" -> {contextBOWCache[c]} :
            e.query = q \/ (q.kind = "B" /\ e.query.context = q.context)}

\* The entries a call may be answered from, and where its answer is kept.
Cached(c, q) ==
    IF Len(q.context) >= CacheOrder THEN {}
    ELSE {e \in CASE q.kind = "W" -> probCache[c]
                  [] q.kind = "C" -> {contextIDCache[c]}
                  [] q.kind = "B" -> {contextBOWCache[c]} : e.query = q}

Keep(c, e) ==
    IF Len(e.query.context) >= CacheOrder THEN UNCHANGED caches
    ELSE CASE e.query.kind = "W" ->
                  /\ probCache' = [probCache EXCEPT ![c] = @ \cup {e}]
                  /\ UNCHANGED <<contextIDCache, contextBOWCache>>
           [] e.query.kind = "C" ->
                  /\ contextIDCache' = [contextIDCache EXCEPT ![c] = e]
                  /\ UNCHANGED <<probCache, contextBOWCache>>
           [] e.query.kind = "B" ->
                  /\ contextBOWCache' = [contextBOWCache EXCEPT ![c] = e]
                  /\ UNCHANGED <<probCache, contextIDCache>>

\* recv() on a connection the server has closed returns 0 or an error.
ServerGone(c) ==
    \/ handler[c] \in {"zombie", "gone"}
    \/ handler[c] = "none" /\ server = "stopped"

Write(c, tokens) == inbox' = [inbox EXCEPT ![c] = @ \o tokens]
Drain(c) == outbox' = [outbox EXCEPT ![c] = <<>>]
Unserved == UNCHANGED <<server, numClients, backlog, handler, version>>

-----------------------------------------------------------------------------
(***************************************************************************)
(* The constructor                                                         *)
(***************************************************************************)

New(c) ==
    /\ phase[c] = "off"
    /\ Connect(c)
    /\ phase' = [phase EXCEPT ![c] = "connected"]
    /\ UNCHANGED <<call, answer, caches>>

\* The banner is read and the protocol version asked for.
ReadBanner(c) ==
    /\ phase[c] = "connected" /\ outbox[c] # <<>>
    /\ Drain(c)
    /\ Write(c, <<"V2", EOL>>)
    /\ phase' = [phase EXCEPT ![c] = "switching"]
    /\ Unserved
    /\ UNCHANGED <<conn, call, answer, caches>>

\* The server agrees: the caches get their first entries, for the empty context.
ReadVersion(c) ==
    /\ phase[c] = "switching" /\ outbox[c] # <<>> /\ Head(outbox[c]).ok
    /\ Drain(c)
    /\ contextIDCache' =
           [contextIDCache EXCEPT ![c] = Entry(ContextID(NoWord, <<>>), NullID)]
    /\ contextBOWCache' =
           [contextBOWCache EXCEPT ![c] = Entry(ContextBOW(<<>>, 0), One)]
    /\ phase' = [phase EXCEPT ![c] = "ready"]
    /\ Unserved
    /\ UNCHANGED <<conn, inbox, call, answer, probCache>>

-----------------------------------------------------------------------------
(***************************************************************************)
(* wordProb(), contextID() and contextBOW()                                *)
(***************************************************************************)

AnswerFromCache(c, q) ==
    /\ phase[c] = "ready"
    /\ \E e \in Cached(c, q) : answer' = [answer EXCEPT ![c] = Entry(q, e.value)]
    /\ UNCHANGED <<serverVars, phase, call, caches>>

Ask(c, q) ==
    /\ phase[c] = "ready" /\ Cached(c, q) = {}
    /\ Write(c, Encode(q))
    /\ call' = [call EXCEPT ![c] = q]
    /\ phase' = [phase EXCEPT ![c] = "asking"]
    /\ Unserved
    /\ UNCHANGED <<conn, outbox, answer, caches>>

\* One recv(): what is there is taken, and its first line is the reply.
ReadReply(c) ==
    LET e == Entry(call[c], Head(outbox[c]).value)
    IN  /\ phase[c] = "asking" /\ outbox[c] # <<>> /\ Head(outbox[c]).ok
        /\ Drain(c)
        /\ answer' = [answer EXCEPT ![c] = e]
        /\ Keep(c, e)
        /\ call' = [call EXCEPT ![c] = NoCall]
        /\ phase' = [phase EXCEPT ![c] = "ready"]
        /\ Unserved
        /\ UNCHANGED <<conn, inbox>>

-----------------------------------------------------------------------------
\* The process ends, and its connection with it.
End(c) ==
    /\ IF conn[c] = "open" THEN Close(c) ELSE UNCHANGED serverVars
    /\ phase' = [phase EXCEPT ![c] = "ended"]
    /\ call' = [call EXCEPT ![c] = NoCall]
    /\ UNCHANGED <<answer, caches>>

\* exit(1): nothing more comes, or not what was expected.
GiveUp(c) ==
    /\ \/ phase[c] \in {"connected", "switching", "asking"}
          /\ outbox[c] = <<>> /\ ServerGone(c)
       \/ phase[c] \in {"switching", "asking"}
          /\ outbox[c] # <<>> /\ ~Head(outbox[c]).ok
       \/ phase[c] = "off" /\ server = "stopped"
    /\ End(c)

\* The destructor; or the process is killed, whatever it is doing.
Leave(c) ==
    /\ phase[c] # "ended" /\ phase[c] # "off"
    /\ End(c)

-----------------------------------------------------------------------------
Receiving(c) == ReadBanner(c) \/ ReadVersion(c) \/ ReadReply(c) \/ GiveUp(c)

ClientNext(c) ==
    \/ New(c) \/ Receiving(c) \/ Leave(c)
    \/ \E q \in Queries : AnswerFromCache(c, Truncated(q)) \/ Ask(c, Truncated(q))

RemoteInit == Init /\ ClientInit
RemoteNext ==
    \/ ServerNext /\ UNCHANGED <<phase, call, answer, caches>>
    \/ \E c \in Clients : ClientNext(c)

\* No client need connect, call or leave.
RemoteSpec ==
    /\ RemoteInit /\ [][RemoteNext]_vars
    /\ ServerFairness
    /\ \A c \in Clients : WF_vars(Receiving(c))

-----------------------------------------------------------------------------
(***************************************************************************)
(* Properties                                                              *)
(***************************************************************************)

\* What a call returns, against what the model behind the server computes for the
\* arguments q of the call, which is Value(q).
\*   - A probability, a weight, or a context ID without a word is the model's.
\*   - A context ID for a word is the model's for no word and the history that the
\*     word makes longer (LM.cc:1295 looks for the word one place too far).
\*   - With caches, the ID of the empty context may be the null pointer that the
\*     client starts out with (LMClient.cc:187-190).
ForWord(q) == q.kind = "C" /\ q.word # NoWord
Served(q) == Value(IF ForWord(q) THEN ContextID(NoWord, <<q.word>> \o q.context) ELSE q)
MadeUp(q) == IF q = ContextID(NoWord, <<>>) /\ CacheOrder > 0 THEN {NullID} ELSE {}
Answers(q) == {Served(q)} \cup MadeUp(q)

\* A call returns one of these for its own arguments (LMClient.cc:211-491), never
\* a stale or another's reply, and a call that is under way returns or the program
\* exits.
Service == INSTANCE LMService WITH
    Users <- Clients, Queries <- {Truncated(q) : q \in Queries}, pending <- call
ImplementsService == Service!Spec

\* The first half of it: replies are never another call's, another client's or stale.
AnswersAsServed == Service!Init /\ [][Service!Next]_Service!vars

\* More than that is what RemoteLM.h:22-25 says of the requests, and what users of an
\* LM rely on: every call returns what the model computes for its arguments, a C2
\* request for its context and its word.
AnswersAreModels ==
    \A c \in Clients : answer[c] # NoAnswer => answer[c].value = Value(answer[c].query)
=============================================================================
