------------------------- MODULE MessageBrokerProofs -------------------------
(***************************************************************************)
(* Proofs about MessageBroker, for any number of workers and clients and   *)
(* any size of a request and of the buffer.  Who may be answered follows   *)
(* the one request a client sends: it is in the register pipe, whole or    *)
(* cut, or in one worker's buffer, never in two places, and a worker that  *)
(* takes the request in its buffer for a new one, at the end of file of    *)
(* the register pipe, finds no manager left that still reads.              *)
(***************************************************************************)
EXTENDS MessageBroker, FiniteSetTheorems, SequenceTheorems, TLAPS

(***************************************************************************)
(* The inductive invariant                                                 *)
(***************************************************************************)
Types ==
    /\ role \in [Clients -> Roles] /\ wire \in [Clients -> Wires]
    /\ broker \in {"starting", "running", "exited", "killed"}
    /\ register \in Seq(Queued) /\ cut \in BOOLEAN
    /\ writers \subseteq Clients /\ fifos \subseteq Clients
    /\ session \in [Clients -> Seq(Messages)]
    /\ client \in [Clients -> {"new", "connected", "opening", "reading", "ended",
                              "interrupted"}]
    /\ got \in [Clients -> Messages \cup {0}]
    /\ worker \in [Workers -> {"read", "handle", "open_create", "open_list",
                              "answer_create", "answer_list", "ended"}]
    /\ buffer \in [Workers -> Requested \cup {NoRequest, CutRequest}]
    /\ client_pipe \in [Workers -> Clients \cup {NoClient}]
    /\ manager_pipe \in [Workers -> Clients \cup {NoClient}]
    /\ swallowed \subseteq Clients /\ removing \in BOOLEAN

\* r is the request its client has sent.
SentBy(r) == r.code = Code(r.pipe) /\ client[r.pipe] \notin {"new", "connected"}

Waits(r) ==
    \/ \E i \in DOMAIN register :
          register[i].code = r.code /\ register[i].pipe = r.pipe
    \/ \E w \in Workers : buffer[w] = r

\* The request of a client is in one place.
RegisterDistinct ==
    \A i, j \in DOMAIN register : register[i].pipe = register[j].pipe => i = j

OnePlace ==
    /\ \A q \in Requested : Waits(q) => SentBy(q)
    /\ \A w \in Workers : \A i \in DOMAIN register : buffer[w].pipe # register[i].pipe
    /\ \A v, w \in Workers :
          v # w /\ buffer[v].pipe # NoClient => buffer[v].pipe # buffer[w].pipe

\* A manager that creates keeps the register pipe open until it ends.
CreatorsWrite ==
    \A c \in Clients :
        role[c] = "create" /\ client[c] \in {"connected", "opening", "reading"}
            => c \in writers

Answered(c) == session[c] # <<>> \/ got[c] # 0
Creates(w) == buffer[w] # NoRequest /\ buffer[w].code = 3

\* What the clients have got.
Answers ==
    \A c \in Clients :
        /\ Answered(c) =>
              /\ AsksTo(c, "create")
              /\ client[c] \in {"reading", "ended", "interrupted"}
        /\ session[c] # <<>> => client[c] = "reading"
        /\ Len(session[c]) <= 1

\* No request that may still lead to an answer is that of a client that has one.
Unanswered ==
    /\ \A i \in DOMAIN register : ~ Answered(register[i].pipe)
    /\ \A w \in Workers :
          /\ worker[w] \in {"handle", "open_create"}
          /\ Creates(w)
          /\ client[buffer[w].pipe] \in {"opening", "reading"}
          => ~ Answered(buffer[w].pipe)

\* The worker's variables as it serves a creation.
Serving ==
    \A w \in Workers :
        /\ worker[w] = "open_create" =>
              /\ client_pipe[w] = buffer[w].pipe
              /\ buffer[w] # NoRequest => buffer[w].code = 3
        /\ worker[w] = "answer_create" =>
              /\ client_pipe[w] = buffer[w].pipe
              /\ Creates(w)

\* Which descriptors are open, in a process that lives.
Descriptors ==
    broker # "killed" => \A w \in Workers :
        /\ worker[w] \in {"answer_create", "answer_list"} =>
              manager_pipe[w] = client_pipe[w] /\ manager_pipe[w] \in Clients
        /\ worker[w] \notin {"answer_create", "answer_list"} =>
              manager_pipe[w] = NoClient
        /\ worker[w] = "answer_create" =>
              /\ ~ Answered(manager_pipe[w])
              /\ client[manager_pipe[w]] \in {"reading", "interrupted"}

\* Until a worker gets into case 5.
Orderly == Answers /\ Unanswered /\ Serving /\ Descriptors

BrokerInv ==
    /\ Types
    /\ RegisterDistinct
    /\ OnePlace
    /\ CreatorsWrite
    /\ removing \/ Orderly
    /\ KilledByNobodyElse

(***************************************************************************)
(* Types                                                                   *)
(***************************************************************************)
LEMMA OpcodeType ==
    /\ Opcode["publisher"] = 1 /\ Opcode["subscriber"] = 2
    /\ Opcode["create"] = 3 /\ Opcode["remove"] = 5 /\ Opcode["list"] = 7
BY DEF Opcode

LEMMA RoleType ==
    ASSUME Types, NEW c \in Clients
    PROVE  /\ role[c] \in {"publisher", "subscriber", "create", "remove", "list"}
           /\ wire[c] \in {"text", "binary"}
<1>1. role[c] \in Roles /\ wire[c] \in Wires BY DEF Types
<1> QED BY <1>1, BrokerAssumption

LEMMA CodeType == Types => \A c \in Clients : Code(c) \in Int
<1> SUFFICES ASSUME Types, NEW c \in Clients PROVE Code(c) \in Int OBVIOUS
<1>1. Opcode[role[c]] \in Int BY RoleType, OpcodeType
<1> QED BY <1>1 DEF Code

\* A manager that creates and follows the protocol is the only one to send 3.
LEMMA CodeThree ==
    ASSUME Types, NEW c \in Clients, Code(c) = 3
    PROVE  role[c] = "create" /\ wire[c] = "binary"
<1>1. Opcode[role[c]] \in 1..7 BY RoleType, OpcodeType
<1>2. wire[c] = "binary" BY <1>1, RoleType DEF Code
<1>3. Opcode[role[c]] = 3 BY <1>2 DEF Code
<1> QED BY <1>2, <1>3, RoleType, OpcodeType

LEMMA InitTypes == Init => Types
<1> SUFFICES ASSUME Init PROVE Types OBVIOUS
<1>1. <<>> \in Seq(Queued) /\ <<>> \in Seq(Messages) BY EmptySeq
<1> QED BY <1>1 DEF Init, Types

LEMMA RegisterPipes ==
    ASSUME Types, NEW i \in DOMAIN register
    PROVE  /\ register[i].code \in Int /\ register[i].end \in Int
           /\ register[i].pipe \in Clients
           /\ register[i] = [code |-> register[i].code, pipe |-> register[i].pipe,
                             end |-> register[i].end]
<1>1. register \in Seq(Queued) BY DEF Types
<1>2. register[i] \in Queued BY <1>1, LenProperties
<1> QED BY <1>2 DEF Queued

\* What a client sends, whatever its length.
LEMMA RequestType ==
    ASSUME Types, NEW c \in Clients, NEW size \in Sizes(c)
    PROVE  /\ Request(c, size) \in Queued
           /\ Request(c, size).code = Code(c) /\ Request(c, size).pipe = c
<1>1. Sizes(c) \subseteq Int BY BrokerAssumption DEF Sizes
<1>2. Bytes \in Int
    <2>1. register \in Seq(Queued) BY DEF Types
    <2>2. CASE register # <<>>
        <3>1. Len(register) \in DOMAIN register
            BY <2>1, <2>2, EmptySeq, LenProperties
        <3> QED BY <2>2, <3>1, RegisterPipes DEF Bytes, Last
    <2>3. CASE register = <<>> BY <2>3 DEF Bytes
    <2> QED BY <2>2, <2>3
<1>3. Bytes + size \in Int BY <1>1, <1>2
<1> QED BY <1>3, CodeType DEF Request, Queued

\* What a read leaves in the register pipe.
LEMMA ReadRegister ==
    ASSUME Types, NEW w \in Workers, Read(w)
    PROVE  /\ 1 \in DOMAIN register
           /\ register' \in Seq(Queued) /\ cut' \in BOOLEAN
           /\ swallowed' \subseteq Clients
           /\ \E k \in Nat \ {0} : \A i \in DOMAIN register' :
                 /\ i \in Nat \ {0} /\ k + i \in DOMAIN register
                 /\ register'[i].code = register[k + i].code
                 /\ register'[i].pipe = register[k + i].pipe
<1>1. register \in Seq(Queued) BY DEF Types
<1>2. PICK n \in Nat : n = Len(register) BY <1>1, LenProperties
<1>3. DOMAIN register = 1..n BY <1>1, <1>2, LenProperties
<1>4. PICK k \in 1..n :
          /\ register' = [i \in 1..(n - k) |->
                             [register[k + i] EXCEPT !.end = @ - BUFFER]]
          /\ cut' = (k < n /\ register[k].end < BUFFER)
          /\ swallowed' = swallowed \cup
                 {register[i].pipe : i \in 2..(IF cut' THEN k + 1 ELSE k)}
    BY <1>2 DEF Read
<1>5. DOMAIN register' = 1..(n - k) BY <1>4
<1>6. ASSUME NEW i \in 1..(n - k)
      PROVE  /\ k + i \in 1..n
             /\ register'[i] \in Queued
             /\ register'[i].code = register[k + i].code
             /\ register'[i].pipe = register[k + i].pipe
    <2>1. k + i \in 1..n BY <1>6
    <2>2. register'[i] = [register[k + i] EXCEPT !.end = @ - BUFFER] BY <1>4
    <2>3. register[k + i] \in Queued BY <2>1, <1>1, <1>3, LenProperties
    <2>4. register[k + i].end - BUFFER \in Int
        BY <2>3, BrokerAssumption DEF Queued
    <2> QED BY <2>1, <2>2, <2>3, <2>4 DEF Queued
<1>7. register' \in Seq(Queued)
    <2>1. register' \in [1..(n - k) -> Queued] BY <1>4, <1>6
    <2>2. n - k \in Nat OBVIOUS
    <2> QED BY <2>1, <2>2, SeqDef
<1>8. swallowed' \subseteq Clients
    <2>1. \A i \in 2..(IF cut' THEN k + 1 ELSE k) : i \in 1..n
        <3>1. cut' => k < n BY <1>4
        <3>2. (IF cut' THEN k + 1 ELSE k) \in 1..n BY <3>1
        <3> QED BY <3>2
    <2>2. \A i \in 1..n : register[i].pipe \in Clients BY <1>3, RegisterPipes
    <2> QED BY <2>1, <2>2, <1>4 DEF Types
<1>9. cut' \in BOOLEAN BY <1>4
<1>10. k \in Nat \ {0} /\ 1 \in DOMAIN register BY <1>3
<1>11. \A i \in DOMAIN register' :
           /\ i \in Nat \ {0} /\ k + i \in DOMAIN register
           /\ register'[i].code = register[k + i].code
           /\ register'[i].pipe = register[k + i].pipe
    <2>1. n - k \in Nat OBVIOUS
    <2> QED BY <1>3, <1>5, <1>6, <2>1
<1> QED BY <1>7, <1>8, <1>9, <1>10, <1>11

\* What it puts in the worker's buffer: the first request, or no client's.
LEMMA ReadBuffer ==
    ASSUME Types, NEW w \in Workers, Read(w)
    PROVE  \E q \in Requested \cup {CutRequest} :
              /\ buffer' = [buffer EXCEPT ![w] = q]
              /\ q \in Requested =>
                    q.code = register[1].code /\ q.pipe = register[1].pipe
<1>1. 1 \in DOMAIN register BY ReadRegister
<1> DEFINE q == [code |-> register[1].code, pipe |-> register[1].pipe]
<1>2. q \in Requested BY <1>1, RegisterPipes DEF Requested
<1>3. CutRequest \notin Requested BY BrokerAssumption DEF CutRequest, Requested
<1>4. buffer' = [buffer EXCEPT ![w] = IF cut THEN CutRequest ELSE q]
    BY DEF Read
<1>5. q.code = register[1].code /\ q.pipe = register[1].pipe OBVIOUS
<1> HIDE DEF q
<1>6. CASE cut BY <1>3, <1>4, <1>6
<1>7. CASE ~ cut BY <1>2, <1>4, <1>5, <1>7
<1> QED BY <1>6, <1>7

LEMMA RequestsType ==
    ASSUME Types, NEW w \in Workers, NEW r \in Requests(w)
    PROVE  /\ r.pipe \in Clients \cup {NoClient}
           /\ Creates(w) /\ r.code = 3 => r = buffer[w]
BY DEF Types, Requests, NoRequest, CutRequest, Requested, Creates

LEMMA ClientTypes ==
    ASSUME Types, NEW c \in Clients,
           Connect(c) \/ ConnectFails(c) \/ ClientStep(c) \/ Interrupt(c)
    PROVE  Types'
<1> USE DEF Types
<1>1. CASE Connect(c) BY <1>1 DEF Connect, Goes, workers
<1>2. CASE ConnectFails(c) BY <1>2 DEF ConnectFails, Goes, workers
<1>3. CASE Send(c)
    <2>1. PICK size \in Sizes(c) : register' = Append(register, Request(c, size))
        BY <1>3 DEF Send
    <2>2. Request(c, size) \in Queued BY RequestType
    <2>3. Append(register, Request(c, size)) \in Seq(Queued)
        BY <2>2, AppendProperties
    <2> QED BY <1>3, <2>1, <2>3 DEF Send, Goes, workers
<1>4. CASE SendFails(c)
    <2>1. <<>> \in Seq(Messages) BY EmptySeq
    <2> QED BY <1>4, <2>1 DEF SendFails, Ends, Leaves, Goes, workers
<1>5. CASE ReceiveAnswer(c)
    <2>1. <<>> \in Seq(Messages) BY EmptySeq
    <2>2. Head(session[c]) \in Messages BY <1>5, HeadTailProperties DEF ReceiveAnswer
    <2> QED BY <1>5, <2>1, <2>2 DEF ReceiveAnswer, Ends, Leaves, Goes, workers
<1>6. CASE ReceiveMore(c)
    <2>1. Head(session[c]) \in Messages /\ Tail(session[c]) \in Seq(Messages)
        BY <1>6, HeadTailProperties DEF ReceiveMore
    <2> QED BY <1>6, <2>1 DEF ReceiveMore, workers
<1>7. CASE EndOfFile(c)
    <2>1. <<>> \in Seq(Messages) BY EmptySeq
    <2> QED BY <1>7, <2>1 DEF EndOfFile, Ends, Leaves, Goes, workers
<1>8. CASE Interrupt(c)
    <2>1. <<>> \in Seq(Messages) BY EmptySeq
    <2> QED BY <1>8, <2>1 DEF Interrupt, Leaves, Goes, workers
<1> QED BY <1>1, <1>2, <1>3, <1>4, <1>5, <1>6, <1>7, <1>8 DEF ClientStep

LEMMA WorkerTypes ==
    ASSUME Types, NEW w \in Workers, WorkerStep(w)
    PROVE  Types'
<1> USE DEF Types
<1> USE DEF WorkerAt, WorkerGoes, Outside
<1>1. CASE Read(w)
    <2>1. register' \in Seq(Queued) /\ cut' \in BOOLEAN /\ swallowed' \subseteq Clients
        BY <1>1, ReadRegister
    <2>2. PICK q \in Requested \cup {CutRequest} : buffer' = [buffer EXCEPT ![w] = q]
        BY <1>1, ReadBuffer
    <2> QED BY <1>1, <2>1, <2>2 DEF Read
<1>2. CASE ReadEnd(w) BY <1>2 DEF ReadEnd
<1>3. CASE HandleRegistration(w)
    BY <1>3, RequestsType DEF HandleRegistration
<1>4. CASE HandleInvalid(w) BY <1>4 DEF HandleInvalid
<1>5. CASE HandleCreate(w) BY <1>5, RequestsType DEF HandleCreate
<1>6. CASE HandleRemove(w)
    <2>1. PICK r \in Requests(w) :
              client_pipe' = [client_pipe EXCEPT ![w] = r.pipe]
        BY <1>6 DEF HandleRemove
    <2>2. r.pipe \in Clients \cup {NoClient} BY RequestsType
    <2>3. CASE Killed BY <1>6, <2>1, <2>2, <2>3 DEF HandleRemove, Killed
    <2>4. CASE SendStray(w, RemoveAnswer) /\ ~ Killed
        <3>1. PICK v \in Workers :
                  /\ manager_pipe[v] # NoClient
                  /\ session' = [session EXCEPT
                         ![manager_pipe[v]] = Append(@, RemoveAnswer)]
                  /\ manager_pipe' = [manager_pipe EXCEPT ![v] = NoClient]
                  /\ worker' = [worker EXCEPT ![w] = "read"]
                  /\ UNCHANGED broker
            BY <2>4 DEF SendStray
        <3>2. manager_pipe[v] \in Clients BY <3>1
        <3>3. Append(session[manager_pipe[v]], RemoveAnswer) \in Seq(Messages)
            BY <3>2, AppendProperties DEF Messages
        <3> QED BY <1>6, <2>1, <2>2, <3>1, <3>2, <3>3 DEF HandleRemove
    <2>5. CASE WorkerGoes(w, "read") /\ UNCHANGED <<broker, session, manager_pipe>>
        BY <1>6, <2>1, <2>2, <2>5 DEF HandleRemove
    <2> QED BY <1>6, <2>3, <2>4, <2>5 DEF HandleRemove
<1>7. CASE HandleList(w) BY <1>7 DEF HandleList
<1>8. CASE Open(w)
    <2>1. client_pipe[w] \in Clients BY <1>8 DEF Open
    <2> QED BY <1>8, <2>1 DEF Open, Goes
<1>9. CASE OpenFails(w) BY <1>9 DEF OpenFails
<1>10. CASE AnswerCreate(w)
    <2>1. CASE Killed BY <1>10, <2>1 DEF AnswerCreate, Killed
    <2>2. CASE ~ Killed
        <3>1. PICK v \in Workers :
                  /\ manager_pipe[v] # NoClient
                  /\ session' = [session EXCEPT
                         ![manager_pipe[v]] = Append(@, CreateAnswer)]
                  /\ manager_pipe' = [manager_pipe EXCEPT ![v] = NoClient]
                  /\ worker' = [worker EXCEPT ![w] = "read"]
                  /\ UNCHANGED broker
            BY <1>10, <2>2 DEF AnswerCreate, SendStray
        <3>2. manager_pipe[v] \in Clients BY <3>1
        <3>3. Append(session[manager_pipe[v]], CreateAnswer) \in Seq(Messages)
            BY <3>2, AppendProperties DEF Messages
        <3> QED BY <1>10, <3>1, <3>2, <3>3 DEF AnswerCreate
    <2> QED BY <2>1, <2>2
<1>11. CASE CloseList(w) BY <1>11 DEF CloseList
<1> QED
    BY <1>1, <1>2, <1>3, <1>4, <1>5, <1>6, <1>7, <1>8, <1>9, <1>10, <1>11
    DEF WorkerStep

LEMMA StepTypes == Types /\ [Next]_vars => Types'
<1> SUFFICES ASSUME Types, [Next]_vars PROVE Types' OBVIOUS
<1>1. CASE \E c \in Clients :
              Connect(c) \/ ConnectFails(c) \/ ClientStep(c) \/ Interrupt(c)
    BY <1>1, ClientTypes
<1>2. CASE \E w \in Workers : WorkerStep(w) BY <1>2, WorkerTypes
<1>3. CASE MainEnds BY <1>3 DEF MainEnds, Types, clients, workers
<1>4. CASE UNCHANGED vars BY <1>4 DEF vars, Types, clients, workers
<1> QED BY <1>1, <1>2, <1>3, <1>4 DEF Next

(***************************************************************************)
(* A request is in one place                                               *)
(***************************************************************************)
LEMMA SameDistinct ==
    ASSUME RegisterDistinct, UNCHANGED register
    PROVE  RegisterDistinct'
BY DEF RegisterDistinct

\* No client takes its request back.
LEMMA PlacesFrame ==
    ASSUME OnePlace, UNCHANGED <<role, wire, register, buffer>>,
           \A r \in Requested : SentBy(r) => SentBy(r)'
    PROVE  OnePlace'
<1>1. \A q \in Requested : Waits(q)' => Waits(q) BY DEF Waits
<1> QED BY <1>1 DEF OnePlace

LEMMA SentStays ==
    ASSUME UNCHANGED <<role, wire>>,
           \A c \in Clients : client[c] \notin {"new", "connected"}
                                 => client'[c] \notin {"new", "connected"}
    PROVE  \A r \in Requested : SentBy(r) => SentBy(r)'
BY DEF SentBy, Requested, Code

LEMMA RegisterRequest ==
    ASSUME Types, NEW i \in DOMAIN register
    PROVE  \E q \in Requested :
              q.code = register[i].code /\ q.pipe = register[i].pipe
<1>1. register[i].code \in Int /\ register[i].pipe \in Clients BY RegisterPipes
<1>2. [code |-> register[i].code, pipe |-> register[i].pipe] \in Requested
    BY <1>1 DEF Requested
<1> QED BY <1>2

LEMMA SendPlaces ==
    ASSUME Types, RegisterDistinct, OnePlace, NEW c \in Clients, Send(c)
    PROVE  RegisterDistinct' /\ OnePlace'
<1>1. PICK r \in Queued :
          register' = Append(register, r) /\ r.code = Code(c) /\ r.pipe = c
    BY RequestType DEF Send
<1>2. register \in Seq(Queued) /\ register' = Append(register, r)
    BY <1>1 DEF Types
<1>3. PICK n \in Nat : n = Len(register) BY <1>2, LenProperties
<1>4. DOMAIN register = 1..n BY <1>2, <1>3, LenProperties
<1>5. /\ DOMAIN register' = 1..(n + 1)
      /\ \A i \in 1..n : register'[i] = register[i]
      /\ register'[n + 1] = r
    <2>1. register' \in Seq(Queued) /\ Len(register') = n + 1
        BY <1>1, <1>2, <1>3, AppendProperties
    <2> QED BY <1>1, <1>2, <1>3, <2>1, AppendProperties, LenProperties
<1>6. client[c] = "connected" /\ client' = [client EXCEPT ![c] = "opening"]
    BY DEF Send, At, Goes
<1>7. \A i \in 1..n : register[i].pipe # c
    <2> SUFFICES ASSUME NEW i \in 1..n PROVE register[i].pipe # c OBVIOUS
    <2>1. PICK q \in Requested :
              q.code = register[i].code /\ q.pipe = register[i].pipe
        BY <1>4, RegisterRequest
    <2>2. SentBy(q) BY <2>1, <1>4 DEF OnePlace, Waits
    <2> QED BY <2>1, <2>2, <1>6 DEF SentBy
<1>8. \A w \in Workers : buffer[w].pipe # c
    <2> SUFFICES ASSUME NEW w \in Workers PROVE buffer[w].pipe # c OBVIOUS
    <2>1. CASE buffer[w] \in {NoRequest, CutRequest}
        BY <2>1, BrokerAssumption DEF NoRequest, CutRequest
    <2>2. CASE buffer[w] \in Requested
        <3>1. SentBy(buffer[w]) BY <2>2 DEF OnePlace, Waits
        <3> QED BY <3>1, <1>6 DEF SentBy
    <2> QED BY <2>1, <2>2 DEF Types
<1>9. \A d \in Clients : client[d] \notin {"new", "connected"}
                            => client'[d] \notin {"new", "connected"}
    BY <1>6 DEF Types
<1>10. \A q \in Requested : SentBy(q) => SentBy(q)'
    BY <1>9, SentStays DEF Send
<1>11. RegisterDistinct'
    <2> SUFFICES ASSUME NEW i \in 1..(n + 1), NEW j \in 1..(n + 1),
                        register'[i].pipe = register'[j].pipe
                 PROVE  i = j
        BY <1>5 DEF RegisterDistinct
    <2>1. r.pipe = c BY <1>1
    <2>2. CASE i \in 1..n /\ j \in 1..n
        BY <2>2, <1>4, <1>5 DEF RegisterDistinct
    <2>3. CASE i = n + 1 /\ j \in 1..n BY <2>3, <2>1, <1>5, <1>7
    <2>4. CASE j = n + 1 /\ i \in 1..n BY <2>4, <2>1, <1>5, <1>7
    <2> QED BY <2>2, <2>3, <2>4
<1>12. ASSUME NEW q \in Requested, r.code = q.code, r.pipe = q.pipe
       PROVE  SentBy(q)'
    <2>1. q.code = Code(c) /\ q.pipe = c BY <1>1, <1>12
    <2>2. Code(c)' = Code(c) BY DEF Code, Send
    <2>3. client'[c] = "opening" BY <1>6 DEF Types
    <2> QED BY <2>1, <2>2, <2>3 DEF SentBy
<1>13. UNCHANGED buffer BY DEF Send, workers
<1>14. ASSUME NEW q \in Requested, Waits(q)' PROVE SentBy(q)'
    <2>1. CASE \E i \in 1..n : register[i].code = q.code /\ register[i].pipe = q.pipe
        BY <2>1, <1>4, <1>10 DEF OnePlace, Waits
    <2>2. CASE r.code = q.code /\ r.pipe = q.pipe BY <2>2, <1>12
    <2>3. CASE \E w \in Workers : buffer[w] = q
        BY <2>3, <1>10 DEF OnePlace, Waits
    <2>4. \/ \E i \in 1..n : register[i].code = q.code /\ register[i].pipe = q.pipe
          \/ r.code = q.code /\ r.pipe = q.pipe
          \/ \E w \in Workers : buffer[w] = q
        BY <1>5, <1>13, <1>14 DEF Waits
    <2> QED BY <2>1, <2>2, <2>3, <2>4
<1>16. \A w \in Workers : \A i \in DOMAIN register' :
           buffer[w].pipe # register'[i].pipe
    <2> SUFFICES ASSUME NEW w \in Workers, NEW i \in 1..(n + 1)
                 PROVE  buffer[w].pipe # register'[i].pipe
        BY <1>5
    <2>1. CASE i \in 1..n BY <2>1, <1>4, <1>5 DEF OnePlace
    <2>2. CASE i = n + 1 BY <2>2, <1>1, <1>5, <1>8
    <2> QED BY <2>1, <2>2
<1> QED BY <1>11, <1>13, <1>14, <1>16 DEF OnePlace

LEMMA ReadPlaces ==
    ASSUME Types, RegisterDistinct, OnePlace, NEW w \in Workers, Read(w)
    PROVE  RegisterDistinct' /\ OnePlace'
<1>1. 1 \in DOMAIN register BY ReadRegister
<1>2. PICK k \in Nat \ {0} : \A i \in DOMAIN register' :
          /\ i \in Nat \ {0} /\ k + i \in DOMAIN register
          /\ register'[i].code = register[k + i].code
          /\ register'[i].pipe = register[k + i].pipe
    BY ReadRegister
<1>3. PICK q \in Requested \cup {CutRequest} :
          /\ buffer' = [buffer EXCEPT ![w] = q]
          /\ q \in Requested =>
                q.code = register[1].code /\ q.pipe = register[1].pipe
    BY ReadBuffer
<1>4. q = CutRequest => q.pipe = NoClient /\ q \notin Requested
    BY BrokerAssumption DEF CutRequest, Requested
<1>5. UNCHANGED <<role, wire, client>> BY DEF Read, Outside
<1>6. \A r \in Requested : SentBy(r) => SentBy(r)' BY <1>5 DEF SentBy, Code
<1>7. \A v \in Workers : buffer'[v] = IF v = w THEN q ELSE buffer[v]
    BY <1>3 DEF Types
<1>8. RegisterDistinct'
    <2> SUFFICES ASSUME NEW i \in DOMAIN register', NEW j \in DOMAIN register',
                        register'[i].pipe = register'[j].pipe
                 PROVE  i = j
        BY DEF RegisterDistinct
    <2>1. k + i = k + j BY <1>2 DEF RegisterDistinct
    <2>2. i \in Nat /\ j \in Nat BY <1>2
    <2> QED BY <2>1, <2>2
<1>9. ASSUME NEW r \in Requested, Waits(r)' PROVE SentBy(r)'
    <2>1. CASE \E i \in DOMAIN register' :
                  register'[i].code = r.code /\ register'[i].pipe = r.pipe
        BY <2>1, <1>2, <1>6 DEF OnePlace, Waits
    <2>2. CASE r = q
        <3>1. register[1].code = r.code /\ register[1].pipe = r.pipe
            BY <2>2, <1>3
        <3>2. SentBy(r) BY <3>1, <1>1 DEF OnePlace, Waits
        <3> QED BY <3>2, <1>6
    <2>3. CASE \E v \in Workers : buffer[v] = r
        BY <2>3, <1>6 DEF OnePlace, Waits
    <2> QED BY <2>1, <2>2, <2>3, <1>7, <1>9 DEF Waits
<1>10. ASSUME NEW v \in Workers, NEW i \in DOMAIN register'
       PROVE  buffer'[v].pipe # register'[i].pipe
    <2>1. PICK j \in DOMAIN register :
              j # 1 /\ register'[i].pipe = register[j].pipe
        <3>1. k + i # 1 BY <1>2
        <3> QED BY <3>1, <1>2
    <2>2. CASE v # w BY <2>1, <2>2, <1>7 DEF OnePlace
    <2>3. CASE v = w /\ q = CutRequest
        <3>1. register[j].pipe # NoClient BY <2>1, RegisterPipes, BrokerAssumption
        <3> QED BY <2>1, <2>3, <3>1, <1>4, <1>7
    <2>4. CASE v = w /\ q \in Requested
        <3>1. register[1].pipe # register[j].pipe
            BY <2>1, <1>1 DEF RegisterDistinct
        <3> QED BY <2>1, <2>4, <3>1, <1>3, <1>7
    <2> QED BY <2>2, <2>3, <2>4
<1>11. ASSUME NEW u \in Workers, NEW v \in Workers,
              u # v, buffer'[u].pipe # NoClient
       PROVE  buffer'[u].pipe # buffer'[v].pipe
    <2>1. \A x \in Workers : q \in Requested => buffer[x].pipe # q.pipe
        BY <1>1, <1>3 DEF OnePlace
    <2>2. CASE u = w BY <2>1, <2>2, <1>4, <1>7, <1>11
    <2>3. CASE v = w BY <2>1, <2>3, <1>4, <1>7, <1>11
    <2>4. CASE u # w /\ v # w BY <2>4, <1>7, <1>11 DEF OnePlace
    <2> QED BY <2>2, <2>3, <2>4
<1> QED BY <1>8, <1>9, <1>10, <1>11 DEF OnePlace

LEMMA SentStep ==
    ASSUME Types, Next
    PROVE  \A c \in Clients : client[c] \notin {"new", "connected"}
                                 => client'[c] \notin {"new", "connected"}
<1>1. ASSUME NEW c \in Clients,
             Connect(c) \/ ConnectFails(c) \/ ClientStep(c) \/ Interrupt(c)
      PROVE  \/ \E how \in {"connected", "opening", "ended", "interrupted"} :
                  /\ client' = [client EXCEPT ![c] = how]
                  /\ how = "connected" => client[c] = "new"
             \/ client' = client
    BY <1>1 DEF Connect, ConnectFails, ClientStep, Send, SendFails, Interrupt,
                ReceiveAnswer, ReceiveMore, EndOfFile, Ends, Leaves, Goes, At
<1>2. ASSUME NEW w \in Workers, WorkerStep(w)
      PROVE  \/ \E c \in Clients : client' = [client EXCEPT ![c] = "reading"]
             \/ client' = client
    <2>1. CASE Open(w)
        <3>1. client_pipe[w] \in Clients BY <2>1 DEF Open, Types
        <3> QED BY <2>1, <3>1 DEF Open, Goes
    <2>2. CASE ~ Open(w)
        BY <1>2, <2>2
        DEF WorkerStep, Read, ReadEnd, HandleRegistration, HandleInvalid,
            HandleCreate, HandleRemove, HandleList, OpenFails, AnswerCreate,
            CloseList
    <2> QED BY <2>1, <2>2
<1>3. MainEnds => client' = client BY DEF MainEnds, clients
<1>4. client \in [Clients -> {"new", "connected", "opening", "reading", "ended",
                              "interrupted"}]
    BY DEF Types
<1>5. CASE \E c \in Clients :
              Connect(c) \/ ConnectFails(c) \/ ClientStep(c) \/ Interrupt(c)
    BY <1>1, <1>4, <1>5
<1>6. CASE \E w \in Workers : WorkerStep(w) BY <1>2, <1>4, <1>6
<1> QED BY <1>3, <1>5, <1>6 DEF Next

LEMMA RolesStay == Next => UNCHANGED <<role, wire>>
BY DEF Next, Connect, ConnectFails, ClientStep, Send, SendFails, Interrupt,
       ReceiveAnswer, ReceiveMore, EndOfFile, Ends, Leaves, WorkerStep, Read,
       ReadEnd, HandleRegistration, HandleInvalid, HandleCreate, HandleRemove,
       HandleList, Open, OpenFails, AnswerCreate, CloseList, Outside, MainEnds

\* Only two steps move a request.
LEMMA RequestsStay ==
    ASSUME Next,
           ~ \E c \in Clients : Send(c),
           ~ \E w \in Workers : Read(w)
    PROVE  UNCHANGED <<register, buffer>>
BY DEF Next, Connect, ConnectFails, ClientStep, SendFails, Interrupt,
       ReceiveAnswer, ReceiveMore, EndOfFile, Ends, Leaves, WorkerStep,
       ReadEnd, HandleRegistration, HandleInvalid, HandleCreate, HandleRemove,
       HandleList, Open, OpenFails, AnswerCreate, CloseList, MainEnds, workers

LEMMA StepPlaces ==
    ASSUME Types, RegisterDistinct, OnePlace, [Next]_vars
    PROVE  RegisterDistinct' /\ OnePlace'
<1>1. CASE Next
    <2>1. CASE \E c \in Clients : Send(c) BY <2>1, SendPlaces
    <2>2. CASE \E w \in Workers : Read(w) BY <2>2, ReadPlaces
    <2>3. CASE /\ ~ \E c \in Clients : Send(c)
               /\ ~ \E w \in Workers : Read(w)
        <3>1. UNCHANGED <<register, buffer>> BY <1>1, <2>3, RequestsStay
        <3>2. UNCHANGED <<role, wire>> BY <1>1, RolesStay
        <3>3. \A r \in Requested : SentBy(r) => SentBy(r)'
            BY <1>1, <3>2, SentStep, SentStays
        <3> QED BY <3>1, <3>2, <3>3, PlacesFrame, SameDistinct
    <2> QED BY <2>1, <2>2, <2>3
<1>2. CASE UNCHANGED vars
    BY <1>2 DEF vars, clients, workers, RegisterDistinct, OnePlace, Waits, SentBy, Code
<1> QED BY <1>1, <1>2

(***************************************************************************)
(* Managers that create keep the register pipe open                        *)
(***************************************************************************)
LEMMA StepWriters ==
    ASSUME Types, CreatorsWrite, [Next]_vars
    PROVE  CreatorsWrite'
<1> USE DEF CreatorsWrite
<1>1. client \in [Clients -> {"new", "connected", "opening", "reading", "ended",
                              "interrupted"}]
      /\ writers \subseteq Clients
    BY DEF Types
<1>2. ASSUME NEW c \in Clients,
             Connect(c) \/ ConnectFails(c) \/ ClientStep(c) \/ Interrupt(c)
      PROVE  CreatorsWrite'
    <2>1. CASE Connect(c) BY <2>1, <1>1 DEF Connect, Goes
    <2>2. CASE ConnectFails(c) BY <2>2, <1>1 DEF ConnectFails, Goes
    <2>3. CASE Send(c) BY <2>3, <1>1 DEF Send, Goes, At
    <2>4. CASE ReceiveMore(c) BY <2>4, <1>1 DEF ReceiveMore
    <2>5. CASE \E how \in {"ended", "interrupted"}, u \in BOOLEAN :
                   Leaves(c, how, u)
        BY <2>5, <1>1 DEF Leaves, Goes
    <2>6. SendFails(c) \/ ReceiveAnswer(c) \/ EndOfFile(c) \/ Interrupt(c)
             => \E how \in {"ended", "interrupted"}, u \in BOOLEAN :
                   Leaves(c, how, u)
        BY DEF SendFails, ReceiveAnswer, EndOfFile, Interrupt, Ends
    <2> QED BY <1>2, <2>1, <2>2, <2>3, <2>4, <2>5, <2>6 DEF ClientStep
<1>3. ASSUME NEW w \in Workers, WorkerStep(w) PROVE CreatorsWrite'
    <2>1. CASE Open(w)
        <3>1. PICK c \in Clients : c = client_pipe[w]
            BY <2>1 DEF Open, Types
        <3>2. /\ client' = [client EXCEPT ![c] = "reading"]
              /\ client[c] \in {"opening", "reading"}
              /\ UNCHANGED <<role, writers>>
            BY <2>1, <3>1 DEF Open, Goes, Listens, Outside
        <3> QED BY <3>2, <1>1
    <2>2. CASE ~ Open(w)
        <3>1. UNCHANGED <<role, client, writers>>
            BY <1>3, <2>2
            DEF WorkerStep, Read, ReadEnd, HandleRegistration, HandleInvalid,
                HandleCreate, HandleRemove, HandleList, OpenFails, AnswerCreate,
                CloseList, Outside
        <3> QED BY <3>1
    <2> QED BY <2>1, <2>2
<1>4. MainEnds => CreatorsWrite' BY DEF MainEnds, clients
<1>5. UNCHANGED vars => CreatorsWrite' BY DEF vars, clients
<1> QED BY <1>2, <1>3, <1>4, <1>5 DEF Next

(***************************************************************************)
(* Until a worker gets into case 5                                         *)
(***************************************************************************)
\* The client whose creation w serves.
LEMMA Creator ==
    ASSUME Types, OnePlace, NEW w \in Workers, Creates(w)
    PROVE  /\ buffer[w].pipe \in Clients
           /\ role[buffer[w].pipe] = "create"
           /\ wire[buffer[w].pipe] = "binary"
           /\ client[buffer[w].pipe] \notin {"new", "connected"}
<1>1. PICK q \in Requested : q = buffer[w] BY DEF Types, Creates, CutRequest
<1>2. q.pipe \in Clients /\ q.code = 3 BY <1>1 DEF Requested, Creates
<1>3. SentBy(q) BY <1>1 DEF OnePlace, Waits
<1> QED BY <1>1, <1>2, <1>3, CodeThree DEF SentBy

LEMMA ConnectOrderly ==
    ASSUME Types, Orderly, OnePlace, NEW c \in Clients,
           Connect(c) \/ ConnectFails(c)
    PROVE  Orderly'
<1>1. /\ UNCHANGED <<role, wire, register, session, got, worker, buffer,
                     client_pipe, manager_pipe>>
      /\ broker' # "killed" => broker # "killed"
      /\ client[c] = "new"
      /\ client' \in {[client EXCEPT ![c] = "connected"],
                      [client EXCEPT ![c] = "ended"]}
    BY DEF Connect, ConnectFails, Goes, At, workers
<1>2. /\ client'[c] \in {"connected", "ended"}
      /\ \A d \in Clients \ {c} : client'[d] = client[d]
    BY <1>1 DEF Types
<1>3. ~ Answered(c) BY <1>1 DEF Orderly, Answers
<1>4. \A d : Answered(d)' <=> Answered(d) BY <1>1 DEF Answered
<1>5. Answers'
    BY <1>1, <1>2, <1>3, <1>4 DEF Orderly, Answers, AsksTo, Answered
<1>6. Unanswered'
    BY <1>1, <1>2, <1>4, Creator DEF Orderly, Unanswered, Creates, Answered
<1>7. Serving' BY <1>1 DEF Orderly, Serving, Creates
<1>8. Descriptors'
    BY <1>1, <1>2, <1>4 DEF Orderly, Descriptors, Answered
<1> QED BY <1>5, <1>6, <1>7, <1>8 DEF Orderly

LEMMA SendOrderly ==
    ASSUME Types, Orderly, OnePlace, NEW c \in Clients, Send(c)
    PROVE  Orderly'
<1>1. /\ UNCHANGED <<role, wire, session, got, broker, worker, buffer,
                     client_pipe, manager_pipe>>
      /\ client[c] = "connected"
      /\ client' = [client EXCEPT ![c] = "opening"]
    BY DEF Send, Goes, At, workers
<1>2. /\ client'[c] = "opening"
      /\ \A d \in Clients \ {c} : client'[d] = client[d]
    BY <1>1 DEF Types
<1>3. ~ Answered(c) BY <1>1 DEF Orderly, Answers
<1>4. \A d : Answered(d)' <=> Answered(d) BY <1>1 DEF Answered
<1>5. Answers'
    BY <1>1, <1>2, <1>3, <1>4 DEF Orderly, Answers, AsksTo, Answered
<1>6. Unanswered'
    <2>1. \A i \in DOMAIN register' : ~ Answered(register'[i].pipe)
        <3>1. PICK r \in Queued : register' = Append(register, r) /\ r.pipe = c
            BY RequestType DEF Send
        <3>2. register \in Seq(Queued) /\ register' = Append(register, r)
            BY <3>1 DEF Types
        <3>3. PICK n \in Nat : n = Len(register) BY <3>2, LenProperties
        <3>4. /\ DOMAIN register = 1..n
              /\ DOMAIN register' = 1..(n + 1)
              /\ \A i \in 1..n : register'[i] = register[i]
              /\ register'[n + 1] = r
            BY <3>1, <3>2, <3>3, AppendProperties, LenProperties
        <3> QED BY <3>1, <3>4, <1>3 DEF Orderly, Unanswered
    <2>2. \A i \in DOMAIN register' : ~ Answered(register[i].pipe)'
        BY <2>1, <1>1 DEF Answered
    <2>3. \A w \in Workers : Creates(w) => buffer[w].pipe # c
        BY <1>1, Creator
    <2>4. \A w \in Workers : Creates(w)' <=> Creates(w) BY <1>1 DEF Creates
    <2>5. \A w \in Workers : Creates(w) => buffer[w].pipe \in Clients BY Creator
    <2>6. ASSUME NEW w \in Workers,
                 worker[w] \in {"handle", "open_create"}, Creates(w),
                 client'[buffer[w].pipe] \in {"opening", "reading"}
          PROVE  ~ Answered(buffer[w].pipe)
        BY <2>3, <2>5, <2>6, <1>2 DEF Orderly, Unanswered
    <2>7. \A w \in Workers : Answered(buffer[w].pipe)' <=> Answered(buffer[w].pipe)
        BY <1>1 DEF Answered
    <2> QED BY <2>2, <2>4, <2>6, <2>7, <1>1 DEF Unanswered
<1>7. Serving' BY <1>1 DEF Orderly, Serving, Creates
<1>8. Descriptors'
    BY <1>1, <1>2, <1>4 DEF Orderly, Descriptors, Answered
<1> QED BY <1>5, <1>6, <1>7, <1>8 DEF Orderly

\* A client that ends: what it has got, it had asked for.
LEMMA LeavesOrderly ==
    ASSUME Types, Orderly, OnePlace, NEW c \in Clients,
           NEW how \in {"ended", "interrupted"}, NEW u,
           Leaves(c, how, u),
           got' \in [Clients -> Messages \cup {0}],
           \A d \in Clients \ {c} : got'[d] = got[d],
           Answered(c) \/ got' = got,
           broker # "killed" => \A w \in Workers :
               worker[w] = "answer_create" /\ manager_pipe[w] = c
                  => how = "interrupted" /\ got' = got
    PROVE  Orderly'
<1>1. /\ UNCHANGED <<role, wire, register, broker, worker, buffer,
                     client_pipe, manager_pipe>>
      /\ client' = [client EXCEPT ![c] = how]
      /\ session' = [session EXCEPT ![c] = <<>>]
    BY DEF Leaves, Goes, workers
<1>2. /\ client'[c] = how /\ session'[c] = <<>>
      /\ \A d \in Clients \ {c} :
             client'[d] = client[d] /\ session'[d] = session[d]
    BY <1>1 DEF Types
<1>3. \A d \in Clients : Answered(d)' => Answered(d)
    BY <1>2 DEF Answered
<1>4. Answers'
    <2> SUFFICES ASSUME NEW d \in Clients
                 PROVE  /\ Answered(d)' =>
                              /\ AsksTo(d, "create")'
                              /\ client'[d] \in {"reading", "ended", "interrupted"}
                        /\ session'[d] # <<>> => client'[d] = "reading"
                        /\ Len(session'[d]) <= 1
        BY DEF Answers
    <2>1. CASE d = c
        <3>1. Len(<<>>) = 0 BY EmptySeq
        <3> QED BY <2>1, <3>1, <1>1, <1>2, <1>3 DEF Orderly, Answers, AsksTo
    <2>2. CASE d # c
        BY <2>2, <1>1, <1>2, <1>3 DEF Orderly, Answers, AsksTo
    <2> QED BY <2>1, <2>2
<1>5. Unanswered'
    <2>2. ASSUME NEW i \in DOMAIN register PROVE ~ Answered(register[i].pipe)'
        <3>1. PICK d \in Clients : d = register[i].pipe BY RegisterPipes
        <3>2. ~ Answered(d) BY <3>1 DEF Orderly, Unanswered
        <3>3. ~ Answered(d)' BY <3>2, <1>3
        <3> QED BY <3>1, <3>3, <1>1 DEF Answered
    <2>3. ASSUME NEW w \in Workers,
                 worker[w] \in {"handle", "open_create"}, Creates(w),
                 client'[buffer[w].pipe] \in {"opening", "reading"}
          PROVE  ~ Answered(buffer[w].pipe)'
        <3>1. PICK d \in Clients : d = buffer[w].pipe BY <2>3, Creator
        <3>2. ~ Answered(d) BY <2>3, <3>1, <1>2 DEF Orderly, Unanswered
        <3>3. ~ Answered(d)' BY <3>2, <1>3
        <3>4. buffer[w].pipe' = d BY <3>1, <1>1
        <3> QED BY <3>3, <3>4 DEF Answered
    <2>4. \A w \in Workers : Creates(w)' <=> Creates(w) BY <1>1 DEF Creates
    <2> QED BY <2>2, <2>3, <2>4, <1>1 DEF Unanswered, Answered
<1>6. Serving' BY <1>1 DEF Orderly, Serving, Creates
<1>7. Descriptors'
    <2> SUFFICES ASSUME broker # "killed", NEW w \in Workers,
                        worker[w] = "answer_create"
                 PROVE  /\ ~ Answered(manager_pipe[w])'
                        /\ client'[manager_pipe[w]] \in {"reading", "interrupted"}
        BY <1>1 DEF Orderly, Descriptors
    <2>1. PICK d \in Clients : d = manager_pipe[w] BY DEF Orderly, Descriptors
    <2>2. ~ Answered(d) /\ client[d] \in {"reading", "interrupted"}
        BY <2>1 DEF Orderly, Descriptors
    <2>3. ~ Answered(d)' /\ client'[d] \in {"reading", "interrupted"}
        BY <2>1, <2>2, <1>2, <1>3
    <2> QED BY <2>1, <2>3, <1>1 DEF Answered
<1> QED BY <1>4, <1>5, <1>6, <1>7 DEF Orderly

LEMMA ClientOrderly ==
    ASSUME Types, Orderly, OnePlace, NEW c \in Clients,
           Connect(c) \/ ConnectFails(c) \/ ClientStep(c) \/ Interrupt(c)
    PROVE  Orderly'
<1>1. got \in [Clients -> Messages \cup {0}] BY DEF Types
<1>2. CASE Connect(c) \/ ConnectFails(c) BY <1>2, ConnectOrderly
<1>3. CASE Send(c) BY <1>3, SendOrderly
<1>4. CASE SendFails(c)
    <2>1. client[c] = "connected" /\ Leaves(c, "ended", FALSE) /\ got' = got
        BY <1>4 DEF SendFails, At, Ends
    <2>2. broker # "killed" => \A w \in Workers :
              worker[w] = "answer_create" => manager_pipe[w] # c
        BY <2>1 DEF Orderly, Descriptors
    <2> QED BY <1>1, <2>1, <2>2, LeavesOrderly
<1>5. CASE ReceiveAnswer(c)
    <2>1. /\ session[c] # <<>> /\ Leaves(c, "ended", role[c] = "remove")
          /\ got' = [got EXCEPT ![c] = Head(session[c])]
        BY <1>5 DEF ReceiveAnswer, Ends
    <2>2. Answered(c) BY <2>1 DEF Answered
    <2>3. Head(session[c]) \in Messages
        BY <2>1, HeadTailProperties DEF Types
    <2>4. broker # "killed" => \A w \in Workers :
              worker[w] = "answer_create" => manager_pipe[w] # c
        BY <2>2 DEF Orderly, Descriptors
    <2>5. /\ got' \in [Clients -> Messages \cup {0}]
          /\ \A d \in Clients \ {c} : got'[d] = got[d]
        BY <1>1, <2>1, <2>3
    <2> QED BY <2>1, <2>2, <2>4, <2>5, LeavesOrderly
<1>6. CASE ReceiveMore(c)
    <2>1. session[c] # <<>> /\ role[c] # "create"
        BY <1>6 DEF ReceiveMore
    <2> QED BY <2>1 DEF Orderly, Answers, Answered, AsksTo
<1>7. CASE EndOfFile(c)
    <2>1. /\ Leaves(c, "ended", role[c] # "create") /\ got' = got
          /\ \A w \in Workers : manager_pipe[w] # c
        BY <1>7 DEF EndOfFile, Ends
    <2> QED BY <1>1, <2>1, LeavesOrderly
<1>8. CASE Interrupt(c)
    <2>1. Leaves(c, "interrupted", FALSE) /\ got' = got
        BY <1>8 DEF Interrupt
    <2> QED BY <1>1, <2>1, LeavesOrderly
<1> QED BY <1>2, <1>3, <1>4, <1>5, <1>6, <1>7, <1>8 DEF ClientStep

\* A step of w between two answers.
LEMMA LocalOrderly ==
    ASSUME Types, Orderly, NEW w \in Workers,
           NEW where \in {"read", "handle", "open_create", "open_list", "ended"},
           UNCHANGED <<role, wire, broker, register, session, client, got,
                       buffer, manager_pipe>>,
           worker' = [worker EXCEPT ![w] = where],
           \A v \in Workers \ {w} : client_pipe'[v] = client_pipe[v],
           worker[w] \notin {"answer_create", "answer_list"},
           /\ where \in {"handle", "open_create"}
           /\ Creates(w)
           /\ client[buffer[w].pipe] \in {"opening", "reading"}
           => ~ Answered(buffer[w].pipe),
           where = "open_create" =>
              /\ client_pipe'[w] = buffer[w].pipe
              /\ buffer[w] # NoRequest => buffer[w].code = 3
    PROVE  Orderly'
<1>1. \A v \in Workers : worker'[v] = IF v = w THEN where ELSE worker[v]
    BY DEF Types
<1>2. Answers' BY DEF Orderly, Answers, Answered, AsksTo
<1>3. Unanswered' BY <1>1 DEF Orderly, Unanswered, Answered, Creates
<1>4. Serving' BY <1>1 DEF Orderly, Serving, Creates
<1>5. Descriptors' BY <1>1 DEF Orderly, Descriptors, Answered
<1> QED BY <1>2, <1>3, <1>4, <1>5 DEF Orderly

LEMMA ReadOrderly ==
    ASSUME Types, Orderly, NEW w \in Workers, Read(w)
    PROVE  Orderly'
<1>1. /\ UNCHANGED <<role, wire, broker, session, client, got, client_pipe,
                     manager_pipe>>
      /\ worker' = [worker EXCEPT ![w] = "handle"]
      /\ worker[w] = "read"
    BY DEF Read, Outside, WorkerAt, WorkerGoes
<1>2. 1 \in DOMAIN register BY ReadRegister
<1>3. \A i \in DOMAIN register' :
          \E j \in DOMAIN register : register'[i].pipe = register[j].pipe
    BY ReadRegister
<1>4. PICK q \in Requested \cup {CutRequest} :
          /\ buffer' = [buffer EXCEPT ![w] = q]
          /\ q \in Requested => q.pipe = register[1].pipe
    BY ReadBuffer
<1>5. q \in Requested => ~ Answered(q.pipe)
    BY <1>2, <1>4 DEF Orderly, Unanswered
<1>6. q = CutRequest => q.code # 3 BY DEF CutRequest
<1>7. \A v \in Workers : /\ worker'[v] = IF v = w THEN "handle" ELSE worker[v]
                         /\ buffer'[v] = IF v = w THEN q ELSE buffer[v]
    BY <1>1, <1>4 DEF Types
<1>8. Answers' BY <1>1 DEF Orderly, Answers, Answered, AsksTo
<1>9. Unanswered'
    <2>1. ASSUME NEW i \in DOMAIN register' PROVE ~ Answered(register[i].pipe)'
        <3>1. PICK j \in DOMAIN register : register'[i].pipe = register[j].pipe
            BY <1>3
        <3>2. ~ Answered(register[j].pipe) BY DEF Orderly, Unanswered
        <3> QED BY <3>1, <3>2, <1>1 DEF Answered
    <2>2. ASSUME NEW v \in Workers,
                 worker'[v] \in {"handle", "open_create"}, Creates(v)',
                 client'[buffer'[v].pipe] \in {"opening", "reading"}
          PROVE  ~ Answered(buffer[v].pipe)'
        <3>1. CASE v = w BY <2>2, <3>1, <1>1, <1>5, <1>6, <1>7 DEF Answered, Creates
        <3>2. CASE v # w
            BY <2>2, <3>2, <1>1, <1>7
            DEF Orderly, Unanswered, Answered, Creates
        <3> QED BY <3>1, <3>2
    <2> QED BY <2>1, <2>2 DEF Unanswered
<1>10. Serving' BY <1>1, <1>7 DEF Orderly, Serving, Creates
<1>11. Descriptors' BY <1>1, <1>7 DEF Orderly, Descriptors, Answered
<1> QED BY <1>8, <1>9, <1>10, <1>11 DEF Orderly

\* At the end of file the last request may be a creation that has had its
\* answer, but then its manager has ended.
LEMMA ReadEndOrderly ==
    ASSUME Types, Orderly, OnePlace, CreatorsWrite, NEW w \in Workers, ReadEnd(w)
    PROVE  Orderly'
<1>1. /\ UNCHANGED <<role, wire, broker, register, session, client, got, buffer,
                     client_pipe, manager_pipe>>
      /\ worker' = [worker EXCEPT ![w] = "handle"]
      /\ worker[w] = "read" /\ writers = {}
    BY DEF ReadEnd, Outside, WorkerAt, WorkerGoes
<1>2. Creates(w) => client[buffer[w].pipe] \notin {"opening", "reading"}
    BY <1>1, Creator DEF CreatorsWrite
<1> QED BY <1>1, <1>2, LocalOrderly

LEMMA HandleOrderly ==
    ASSUME Types, Orderly, NEW w \in Workers,
           HandleRegistration(w) \/ HandleInvalid(w) \/ HandleCreate(w)
              \/ HandleList(w) \/ OpenFails(w)
    PROVE  Orderly'
<1>1. /\ UNCHANGED <<role, wire, broker, register, session, client, got, buffer,
                     manager_pipe>>
      /\ worker[w] \in {"handle", "open_create", "open_list"}
    BY DEF HandleRegistration, HandleInvalid, HandleCreate, HandleList,
           OpenFails, Outside, WorkerAt
<1>2. CASE HandleRegistration(w)
    <2>1. /\ worker' = [worker EXCEPT ![w] = "read"]
          /\ \A v \in Workers \ {w} : client_pipe'[v] = client_pipe[v]
        BY <1>2 DEF HandleRegistration, WorkerGoes, Types
    <2> QED BY <1>1, <2>1, LocalOrderly
<1>3. CASE HandleInvalid(w) \/ HandleList(w) \/ OpenFails(w)
    <2>1. PICK where \in {"read", "open_list", "ended"} :
              worker' = [worker EXCEPT ![w] = where]
        BY <1>3 DEF HandleInvalid, HandleList, OpenFails, WorkerGoes
    <2>2. client_pipe' = client_pipe
        BY <1>3 DEF HandleInvalid, HandleList, OpenFails
    <2> QED BY <1>1, <2>1, <2>2, LocalOrderly
<1>4. CASE HandleCreate(w)
    <2>1. PICK r \in Requests(w) :
              /\ r.code = 3
              /\ client_pipe' = [client_pipe EXCEPT ![w] = r.pipe]
        BY <1>4 DEF HandleCreate
    <2>2. r.pipe = buffer[w].pipe /\ (buffer[w] # NoRequest => buffer[w].code = 3)
        BY <2>1 DEF Requests, NoRequest
    <2>3. /\ worker' = [worker EXCEPT ![w] = "open_create"]
          /\ worker[w] = "handle"
        BY <1>4 DEF HandleCreate, WorkerGoes, WorkerAt
    <2>4. /\ client_pipe'[w] = buffer[w].pipe
          /\ \A v \in Workers \ {w} : client_pipe'[v] = client_pipe[v]
        BY <2>1, <2>2 DEF Types
    <2>5. /\ Creates(w)
          /\ client[buffer[w].pipe] \in {"opening", "reading"}
          => ~ Answered(buffer[w].pipe)
        BY <2>3 DEF Orderly, Unanswered
    <2> QED BY <1>1, <2>2, <2>3, <2>4, <2>5, LocalOrderly
<1> QED BY <1>2, <1>3, <1>4

LEMMA OpenOrderly ==
    ASSUME Types, Orderly, OnePlace, NEW w \in Workers, Open(w)
    PROVE  Orderly'
<1>1. PICK c \in Clients : c = client_pipe[w] BY DEF Open, Types
<1>2. PICK here \in {"open_create", "open_list"},
           there \in {"answer_create", "answer_list"} :
          /\ worker[w] = here /\ worker' = [worker EXCEPT ![w] = there]
          /\ there = "answer_create" <=> here = "open_create"
    BY DEF Open, WorkerAt, WorkerGoes
<1>3. /\ UNCHANGED <<role, wire, broker, register, session, got, buffer,
                     client_pipe>>
      /\ client' = [client EXCEPT ![c] = "reading"]
      /\ client[c] \in {"opening", "reading"}
      /\ manager_pipe' = [manager_pipe EXCEPT ![w] = c]
      /\ broker # "killed"
    BY <1>1 DEF Open, Goes, Listens, Outside, WorkerAt
<1>4. /\ \A v \in Workers :
             /\ worker'[v] = IF v = w THEN there ELSE worker[v]
             /\ manager_pipe'[v] = IF v = w THEN c ELSE manager_pipe[v]
      /\ \A d \in Clients : client'[d] = IF d = c THEN "reading" ELSE client[d]
    BY <1>2, <1>3 DEF Types
<1>5. \A d : Answered(d)' <=> Answered(d) BY <1>3 DEF Answered
<1>6. Answers'
    BY <1>3, <1>4, <1>5 DEF Orderly, Answers, AsksTo, Answered
<1>7. there = "answer_create" =>
          Creates(w) /\ buffer[w].pipe = c /\ ~ Answered(c)
    <2> SUFFICES ASSUME there = "answer_create"
                 PROVE  Creates(w) /\ buffer[w].pipe = c /\ ~ Answered(c)
        OBVIOUS
    <2>1. worker[w] = "open_create" BY <1>2
    <2>2. c = buffer[w].pipe /\ (buffer[w] # NoRequest => buffer[w].code = 3)
        BY <1>1, <2>1 DEF Orderly, Serving
    <2>3. Creates(w) BY <2>2, BrokerAssumption DEF Creates, NoRequest
    <2>4. ~ Answered(c) BY <1>3, <2>1, <2>2, <2>3 DEF Orderly, Unanswered
    <2> QED BY <2>2, <2>3, <2>4
<1>8. Unanswered'
    <2>1. \A i \in DOMAIN register : ~ Answered(register[i].pipe)'
        BY <1>3 DEF Orderly, Unanswered, Answered
    <2>2. ASSUME NEW v \in Workers,
                 worker'[v] \in {"handle", "open_create"}, Creates(v),
                 client'[buffer[v].pipe] \in {"opening", "reading"}
          PROVE  ~ Answered(buffer[v].pipe)
        <3>1. v # w /\ worker[v] \in {"handle", "open_create"}
            BY <2>2, <1>4
        <3>2. client[buffer[v].pipe] \in {"opening", "reading"}
            BY <2>2, <1>3, <1>4, Creator
        <3> QED BY <2>2, <3>1, <3>2 DEF Orderly, Unanswered
    <2> QED BY <2>1, <2>2, <1>3 DEF Unanswered, Answered, Creates
<1>9. Serving'
    BY <1>1, <1>3, <1>4, <1>7 DEF Orderly, Serving, Creates
<1>10. Descriptors'
    <2>1. ASSUME NEW v \in Workers, v # w, worker[v] = "answer_create"
          PROVE  /\ ~ Answered(manager_pipe[v])
                 /\ client'[manager_pipe[v]] \in {"reading", "interrupted"}
        <3>1. PICK d \in Clients : d = manager_pipe[v]
            BY <2>1, <1>3 DEF Orderly, Descriptors
        <3> QED BY <2>1, <3>1, <1>3, <1>4 DEF Orderly, Descriptors
    <2>2. \A v \in Workers : v # w => manager_pipe'[v] = manager_pipe[v]
        BY <1>4
    <2>3. ASSUME NEW v \in Workers, v # w, worker[v] = "answer_create"
          PROVE  /\ ~ Answered(manager_pipe[v])'
                 /\ client'[manager_pipe'[v]] \in {"reading", "interrupted"}
        BY <2>1, <2>2, <2>3, <1>3 DEF Answered
    <2>4. there = "answer_create" =>
              ~ Answered(manager_pipe[w])' /\ client'[manager_pipe'[w]] = "reading"
        BY <1>3, <1>4, <1>7 DEF Answered
    <2>5. \A v \in Workers : worker[v] \in {"answer_create", "answer_list"} =>
              manager_pipe[v] = client_pipe[v] /\ manager_pipe[v] \in Clients
        BY <1>3 DEF Orderly, Descriptors
    <2>6. \A v \in Workers : worker[v] \notin {"answer_create", "answer_list"} =>
              manager_pipe[v] = NoClient
        BY <1>3 DEF Orderly, Descriptors
    <2> QED BY <1>1, <1>3, <1>4, <2>3, <2>4, <2>5, <2>6 DEF Descriptors
<1> QED BY <1>6, <1>8, <1>9, <1>10 DEF Orderly

\* The descriptor of a worker that answers a creation is its own.
LEMMA OwnDescriptor ==
    ASSUME Types, Orderly, OnePlace, NEW w \in Workers,
           broker = "running", worker[w] = "answer_create"
    PROVE  /\ Creates(w)
           /\ manager_pipe[w] = buffer[w].pipe
           /\ manager_pipe[w] \in Clients
           /\ manager_pipe[w] # NoClient
           /\ role[manager_pipe[w]] = "create"
           /\ wire[manager_pipe[w]] = "binary"
           /\ ~ Answered(manager_pipe[w])
           /\ client[manager_pipe[w]] \in {"reading", "interrupted"}
<1>1. /\ manager_pipe[w] = client_pipe[w] /\ manager_pipe[w] \in Clients
      /\ ~ Answered(manager_pipe[w])
      /\ client[manager_pipe[w]] \in {"reading", "interrupted"}
    BY DEF Orderly, Descriptors
<1>2. client_pipe[w] = buffer[w].pipe /\ Creates(w) BY DEF Orderly, Serving
<1> QED BY <1>1, <1>2, Creator, BrokerAssumption

LEMMA AnswerOrderly ==
    ASSUME Types, Orderly, OnePlace, NEW w \in Workers, AnswerCreate(w)
    PROVE  Orderly'
<1>1. broker = "running" /\ worker[w] = "answer_create"
    BY DEF AnswerCreate, WorkerAt
<1>2. PICK c \in Clients : c = manager_pipe[w] BY <1>1, OwnDescriptor
<1>3. /\ Creates(w) /\ c = buffer[w].pipe /\ c # NoClient
      /\ role[c] = "create" /\ wire[c] = "binary" /\ ~ Answered(c)
      /\ client[c] \in {"reading", "interrupted"}
    BY <1>1, <1>2, OwnDescriptor
<1>4. UNCHANGED <<role, wire, register, client, got, buffer, client_pipe>>
    BY DEF AnswerCreate, Outside
<1>5. CASE Killed
    <2>1. UNCHANGED <<session, worker>> /\ broker' = "killed"
        BY <1>5 DEF Killed
    <2>2. Answers' BY <1>4, <2>1 DEF Orderly, Answers, Answered, AsksTo
    <2>3. Unanswered'
        BY <1>4, <2>1 DEF Orderly, Unanswered, Answered, Creates
    <2>4. Serving' BY <1>4, <2>1 DEF Orderly, Serving, Creates
    <2>5. Descriptors' BY <2>1 DEF Descriptors
    <2> QED BY <2>2, <2>3, <2>4, <2>5 DEF Orderly
<1>6. CASE ~ Killed
    <2>1. /\ client[c] = "reading"
          /\ session' = [session EXCEPT ![c] = Append(session[c], CreateAnswer)]
          /\ manager_pipe' = [manager_pipe EXCEPT ![w] = NoClient]
          /\ worker' = [worker EXCEPT ![w] = "read"]
          /\ broker' = broker
        BY <1>2, <1>3, <1>6 DEF AnswerCreate, At, WorkerGoes
    <2>2. session[c] = <<>> BY <1>3 DEF Answered
    <2>3. Append(<<>>, CreateAnswer) # <<>> /\ Len(Append(<<>>, CreateAnswer)) = 1
        <3>1. CreateAnswer \in Messages /\ <<>> \in Seq(Messages)
            BY EmptySeq DEF Messages
        <3> QED BY <3>1, EmptySeq, AppendProperties
    <2>4. /\ session'[c] # <<>> /\ Len(session'[c]) = 1
          /\ \A d \in Clients \ {c} : session'[d] = session[d]
        BY <2>1, <2>2, <2>3 DEF Types
    <2>5. \A v \in Workers :
              /\ worker'[v] = IF v = w THEN "read" ELSE worker[v]
              /\ manager_pipe'[v] = IF v = w THEN NoClient ELSE manager_pipe[v]
        BY <2>1 DEF Types
    <2>6. \A d \in Clients \ {c} : Answered(d)' <=> Answered(d)
        BY <1>4, <2>4 DEF Answered
    <2>7. Answers'
        <3>1. AsksTo(c, "create")'
            BY <1>3, <1>4 DEF AsksTo
        <3>2. ASSUME NEW d \in Clients \ {c}
              PROVE  /\ Answered(d)' =>
                            /\ AsksTo(d, "create")'
                            /\ client'[d] \in {"reading", "ended", "interrupted"}
                     /\ session'[d] # <<>> => client'[d] = "reading"
                     /\ Len(session'[d]) <= 1
            BY <1>4, <2>4, <2>6 DEF Orderly, Answers, AsksTo
        <3>3. client'[c] = "reading" BY <1>4, <2>1
        <3>4. \A n \in Nat : n = 1 => n <= 1 OBVIOUS
        <3>5. Len(session'[c]) <= 1
            <4>1. Len(session'[c]) = 1 BY <2>4
            <4>2. PICK n \in Nat : n = Len(session'[c]) BY <4>1
            <4> QED BY <3>4, <4>1, <4>2
        <3> QED BY <3>1, <3>2, <3>3, <3>5 DEF Answers
    <2>8. Unanswered'
        <3>1. ASSUME NEW i \in DOMAIN register PROVE ~ Answered(register[i].pipe)'
            <4>1. PICK d \in Clients : d = register[i].pipe BY RegisterPipes
            <4>2. d # c BY <4>1, <1>3 DEF OnePlace
            <4>3. ~ Answered(d)' BY <4>1, <4>2, <2>6 DEF Orderly, Unanswered
            <4> QED BY <4>1, <4>3, <1>4 DEF Answered
        <3>2. ASSUME NEW v \in Workers,
                     worker'[v] \in {"handle", "open_create"}, Creates(v),
                     client[buffer[v].pipe] \in {"opening", "reading"}
              PROVE  ~ Answered(buffer[v].pipe)'
            <4>1. v # w /\ worker[v] \in {"handle", "open_create"}
                BY <3>2, <2>5
            <4>2. PICK d \in Clients : d = buffer[v].pipe BY <3>2, Creator
            <4>3. d # c BY <4>1, <4>2, <3>2, <1>3 DEF OnePlace
            <4>4. ~ Answered(d)
                BY <4>1, <4>2, <3>2 DEF Orderly, Unanswered
            <4>5. ~ Answered(d)' BY <4>3, <4>4, <2>6
            <4> QED BY <4>2, <4>5, <1>4 DEF Answered
        <3> QED BY <3>1, <3>2, <1>4 DEF Unanswered, Answered, Creates
    <2>9. Serving' BY <1>4, <2>5 DEF Orderly, Serving, Creates
    <2>10. Descriptors'
        <3>1. ASSUME NEW v \in Workers, worker'[v] = "answer_create"
              PROVE  /\ ~ Answered(manager_pipe[v])'
                     /\ client'[manager_pipe'[v]] \in {"reading", "interrupted"}
            <4>1. v # w /\ worker[v] = "answer_create" BY <3>1, <2>5
            <4>2. PICK d \in Clients : d = manager_pipe[v]
                BY <4>1, <1>1, OwnDescriptor
            <4>3. /\ Creates(v) /\ d = buffer[v].pipe /\ ~ Answered(d)
                  /\ client[d] \in {"reading", "interrupted"}
                BY <4>1, <4>2, <1>1, OwnDescriptor
            <4>4. d # c BY <4>1, <4>3, <1>3 DEF OnePlace
            <4>5. ~ Answered(d)' BY <4>3, <4>4, <2>6
            <4>6. manager_pipe'[v] = d BY <4>1, <4>2, <2>5
            <4> QED BY <4>3, <4>5, <4>6, <1>4 DEF Answered
        <3>2. \A v \in Workers : worker[v] \in {"answer_create", "answer_list"} =>
                  manager_pipe[v] = client_pipe[v] /\ manager_pipe[v] \in Clients
            BY <1>1 DEF Orderly, Descriptors
        <3>3. \A v \in Workers : worker[v] \notin {"answer_create", "answer_list"}
                  => manager_pipe[v] = NoClient
            BY <1>1 DEF Orderly, Descriptors
        <3> QED BY <3>1, <3>2, <3>3, <2>5, <1>4 DEF Descriptors
    <2> QED BY <2>7, <2>8, <2>9, <2>10 DEF Orderly
<1> QED BY <1>5, <1>6

LEMMA CloseListOrderly ==
    ASSUME Types, Orderly, NEW w \in Workers, CloseList(w)
    PROVE  Orderly'
<1>1. broker = "running" /\ worker[w] = "answer_list"
    BY DEF CloseList, WorkerAt
<1>2. manager_pipe[w] # NoClient
    BY <1>1, BrokerAssumption DEF Orderly, Descriptors
<1>3. /\ manager_pipe' = [manager_pipe EXCEPT ![w] = NoClient]
      /\ worker' = [worker EXCEPT ![w] = "read"]
      /\ UNCHANGED <<role, wire, broker, register, session, client, got, buffer,
                     client_pipe>>
    BY <1>2 DEF CloseList, Outside, WorkerGoes
<1>4. \A v \in Workers :
          /\ worker'[v] = IF v = w THEN "read" ELSE worker[v]
          /\ manager_pipe'[v] = IF v = w THEN NoClient ELSE manager_pipe[v]
    BY <1>3 DEF Types
<1>5. Answers' BY <1>3 DEF Orderly, Answers, Answered, AsksTo
<1>6. Unanswered' BY <1>3, <1>4 DEF Orderly, Unanswered, Answered, Creates
<1>7. Serving' BY <1>3, <1>4 DEF Orderly, Serving, Creates
<1>8. Descriptors' BY <1>3, <1>4 DEF Orderly, Descriptors, Answered
<1> QED BY <1>5, <1>6, <1>7, <1>8 DEF Orderly

LEMMA WorkerOrderly ==
    ASSUME Types, Orderly, OnePlace, CreatorsWrite, NEW w \in Workers,
           WorkerStep(w), ~ removing'
    PROVE  Orderly'
<1>1. ~ HandleRemove(w) BY DEF HandleRemove
<1> QED
    BY <1>1, ReadOrderly, ReadEndOrderly, HandleOrderly, OpenOrderly,
       AnswerOrderly, CloseListOrderly
    DEF WorkerStep

\* removing stays TRUE.
LEMMA RemovingStays == removing /\ Next => removing'
BY DEF Next, Connect, ConnectFails, ClientStep, Send, SendFails, Interrupt,
       ReceiveAnswer, ReceiveMore, EndOfFile, Ends, Leaves, WorkerStep, Read,
       ReadEnd, HandleRegistration, HandleInvalid, HandleCreate, HandleRemove,
       HandleList, Open, OpenFails, AnswerCreate, CloseList, Outside, MainEnds

LEMMA StepOrderly ==
    ASSUME BrokerInv, [Next]_vars
    PROVE  removing' \/ Orderly'
<1> USE DEF BrokerInv
<1>1. CASE Next /\ ~ removing'
    <2>1. Orderly BY <1>1, RemovingStays
    <2>2. CASE \E c \in Clients :
                  Connect(c) \/ ConnectFails(c) \/ ClientStep(c) \/ Interrupt(c)
        BY <2>1, <2>2, ClientOrderly
    <2>3. CASE \E w \in Workers : WorkerStep(w)
        BY <1>1, <2>1, <2>3, WorkerOrderly
    <2>4. CASE MainEnds
        <3>1. /\ UNCHANGED <<role, wire, register, session, client, got, worker,
                             buffer, client_pipe, manager_pipe>>
              /\ broker # "killed"
            BY <2>4 DEF MainEnds, clients, workers
        <3> QED BY <2>1, <3>1
            DEF Orderly, Answers, AsksTo, Unanswered, Serving, Descriptors,
                Answered, Creates
    <2> QED BY <1>1, <2>2, <2>3, <2>4 DEF Next
<1>2. CASE UNCHANGED vars
    BY <1>2
    DEF vars, clients, workers, Orderly, Answers, AsksTo, Unanswered, Serving,
        Descriptors, Answered, Creates
<1> QED BY <1>1, <1>2

(***************************************************************************)
(* What ends the broker                                                    *)
(***************************************************************************)
LEMMA StepKilled ==
    ASSUME BrokerInv, [Next]_vars
    PROVE  KilledByNobodyElse'
<1> USE DEF BrokerInv
<1>1. CASE broker = "killed" /\ ~ UNCHANGED vars
    <2>1. removing \/ \E c \in Clients : role[c] = "create" /\ At(c, "interrupted")
        BY <1>1 DEF KilledByNobodyElse
    <2>2. CASE removing
        <3>1. removing' BY <1>1, <2>2, RemovingStays
        <3> QED BY <3>1 DEF KilledByNobodyElse
    <2>3. ASSUME NEW c \in Clients, role[c] = "create", At(c, "interrupted")
          PROVE  role'[c] = "create" /\ client'[c] = "interrupted"
        <3>1. role' = role BY <1>1, RolesStay
        <3>2. ASSUME NEW d \in Clients,
                     ConnectFails(d) \/ ClientStep(d) \/ Interrupt(d)
              PROVE  client'[c] = "interrupted"
            <4>1. \/ client' = client
                  \/ /\ client[d] # "interrupted"
                     /\ \E how : client' = [client EXCEPT ![d] = how]
                BY <3>2 DEF ConnectFails, ClientStep, Send, SendFails, Interrupt,
                            ReceiveAnswer, ReceiveMore, EndOfFile, Ends, Leaves,
                            Goes, At
            <4> QED BY <4>1, <2>3 DEF At, Types
        <3>3. \A d \in Clients : ~ Connect(d) BY <1>1 DEF Connect
        <3>4. \A w \in Workers : ~ WorkerStep(w)
            BY <1>1
            DEF WorkerStep, Read, ReadEnd, HandleRegistration, HandleInvalid,
                HandleCreate, HandleRemove, HandleList, Open, OpenFails,
                AnswerCreate, CloseList, WorkerAt
        <3>5. ~ MainEnds BY <1>1 DEF MainEnds
        <3> QED BY <1>1, <2>3, <3>1, <3>2, <3>3, <3>4, <3>5 DEF Next
    <2> QED BY <2>1, <2>2, <2>3 DEF KilledByNobodyElse, At
<1>2. CASE broker # "killed" /\ broker' = "killed" /\ ~ removing'
    <2>1. PICK w \in Workers : AnswerCreate(w)
        <3>1. \A c \in Clients :
                  ~ (Connect(c) \/ ConnectFails(c) \/ ClientStep(c) \/ Interrupt(c))
            BY <1>2 DEF Connect, ConnectFails, ClientStep, Send, SendFails, Interrupt,
                        ReceiveAnswer, ReceiveMore, EndOfFile, Ends, Leaves
        <3>2. \A w \in Workers : WorkerStep(w) => AnswerCreate(w)
            BY <1>2 DEF WorkerStep, Read, ReadEnd, HandleRegistration,
                        HandleInvalid, HandleCreate, HandleRemove, HandleList,
                        Open, OpenFails, CloseList
        <3>3. ~ MainEnds BY <1>2 DEF MainEnds
        <3>4. ~ UNCHANGED vars BY <1>2 DEF vars
        <3> QED BY <3>1, <3>2, <3>3, <3>4 DEF Next
    <2>2. broker = "running" /\ worker[w] = "answer_create"
        BY <2>1 DEF AnswerCreate, WorkerAt
    <2>3. Orderly BY <1>2, <2>1, RemovingStays DEF Next, WorkerStep
    <2>4. PICK c \in Clients : c = manager_pipe[w] BY <2>2, <2>3, OwnDescriptor
    <2>5. /\ c # NoClient /\ role[c] = "create"
          /\ client[c] \in {"reading", "interrupted"}
        BY <2>2, <2>3, <2>4, OwnDescriptor
    <2>6. client[c] # "reading"
        BY <1>2, <2>1, <2>4, <2>5 DEF AnswerCreate, At
    <2>7. role' = role /\ client' = client
        BY <2>1 DEF AnswerCreate, Outside
    <2> QED BY <2>5, <2>6, <2>7 DEF KilledByNobodyElse, At
<1>3. CASE broker' # "killed" \/ removing'
    BY <1>3 DEF KilledByNobodyElse
<1>4. CASE UNCHANGED vars
    BY <1>4 DEF vars, clients, KilledByNobodyElse, At
<1> QED BY <1>1, <1>2, <1>3, <1>4

(***************************************************************************)
(* Theorems                                                                *)
(***************************************************************************)
LEMMA InitBroker == Init => BrokerInv
<1> SUFFICES ASSUME Init PROVE BrokerInv OBVIOUS
<1>1. Types BY InitTypes
<1>2. /\ DOMAIN register = {} /\ Len(<<>>) = 0
      /\ session = [c \in Clients |-> <<>>]
      /\ client = [c \in Clients |-> "new"]
      /\ got = [c \in Clients |-> 0]
      /\ worker = [w \in Workers |-> "read"]
      /\ buffer = [w \in Workers |-> NoRequest]
      /\ manager_pipe = [w \in Workers |-> NoClient]
      /\ broker = "starting"
    BY EmptySeq DEF Init
<1>3. \A c \in Clients : ~ Answered(c) BY <1>2 DEF Answered
<1>4. OnePlace
    <2>1. \A q \in Requested : q.pipe # NoClient
        BY BrokerAssumption DEF Requested
    <2>2. \A q \in Requested : ~ Waits(q)
        BY <1>2, <2>1 DEF Waits, NoRequest
    <2> QED BY <1>2, <2>2 DEF OnePlace, NoRequest
<1>5. Orderly
    BY <1>2, <1>3
    DEF Orderly, Answers, Unanswered, Serving, Descriptors, Creates
<1>6. RegisterDistinct /\ CreatorsWrite /\ KilledByNobodyElse
    BY <1>2 DEF RegisterDistinct, CreatorsWrite, KilledByNobodyElse
<1> QED BY <1>1, <1>4, <1>5, <1>6 DEF BrokerInv

LEMMA StepBroker == BrokerInv /\ [Next]_vars => BrokerInv'
<1> SUFFICES ASSUME BrokerInv, [Next]_vars PROVE BrokerInv' OBVIOUS
<1>1. Types /\ RegisterDistinct /\ OnePlace /\ CreatorsWrite BY DEF BrokerInv
<1>2. Types' BY <1>1, StepTypes
<1>3. RegisterDistinct' /\ OnePlace' BY <1>1, StepPlaces
<1>4. CreatorsWrite' BY <1>1, StepWriters
<1>5. removing' \/ Orderly' BY StepOrderly
<1>6. KilledByNobodyElse' BY StepKilled
<1> QED BY <1>2, <1>3, <1>4, <1>5, <1>6 DEF BrokerInv

\* Every request is in one place only, a manager that creates keeps the register
\* pipe open until it ends, and until a worker gets into case 5 no request that
\* may still lead to an answer is that of a client that has had one, and every
\* worker that answers has its own client's pipe open.
THEOREM BrokerOrderly == Spec => []BrokerInv
BY InitBroker, StepBroker, PTL DEF Spec

\* The requests in the register pipe are those of different clients.
LEMMA RegisterFits ==
    ASSUME Types, RegisterDistinct
    PROVE  Len(register) <= Cardinality(Clients)
<1>1. register \in Seq(Queued) BY DEF Types
<1>2. PICK n \in Nat : n = Len(register) BY <1>1, LenProperties
<1>3. DOMAIN register = 1..n BY <1>1, <1>2, LenProperties
<1> DEFINE f == [i \in 1..n |-> register[i].pipe]
<1>4. f \in [1..n -> Clients] BY <1>3, RegisterPipes
<1>5. IsFiniteSet(1..n) /\ Cardinality(1..n) = n
    <2>1. 1 \in Int /\ n \in Int OBVIOUS
    <2>2. IsFiniteSet(1..n) /\ Cardinality(1..n) = IF 1 > n THEN 0 ELSE n - 1 + 1
        BY <2>1, FS_Interval
    <2> QED BY <2>2
<1>6. PICK m \in Nat : m = Cardinality(Clients)
    BY BrokerAssumption, FS_CardinalityType
<1>7. CASE m < n
    <2> HIDE DEF f
    <2>1. \E i, j \in 1..n : i # j /\ f[i] = f[j]
        BY <1>4, <1>5, <1>6, <1>7, BrokerAssumption, FS_PigeonHole
    <2> QED BY <2>1, <1>3 DEF f, RegisterDistinct
<1> QED BY <1>2, <1>6, <1>7

LEMMA BrokerProperties ==
    BrokerInv => TypeOK /\ CreateAnsweredOnce /\ KilledByNobodyElse
<1> SUFFICES ASSUME BrokerInv
             PROVE  TypeOK /\ CreateAnsweredOnce /\ KilledByNobodyElse
    OBVIOUS
<1>1. TypeOK BY RegisterFits DEF BrokerInv, Types, TypeOK
<1>2. CreateAnsweredOnce
    BY DEF BrokerInv, Orderly, Answers, Answered, CreateAnsweredOnce
<1> QED BY <1>1, <1>2 DEF BrokerInv

\* Every variable has its type, and no more requests wait than there are clients.
THEOREM BrokerTypes == Spec => []TypeOK
BY BrokerOrderly, BrokerProperties, PTL

\* mbroker.c:342-355.  Until a worker gets into case 5 (which writes on a
\* descriptor nobody set), an answer to a creation reaches only a manager that
\* asked for one, and once, for any number of workers.
THEOREM CreateAnsweredOnceCorrect == Spec => []CreateAnsweredOnce
BY BrokerOrderly, BrokerProperties, PTL

\* send_msg.c:24-26.  Only case 5 and an interrupted manager make an answer end
\* the process that serves every client.
THEOREM KilledByNobodyElseCorrect == Spec => []KilledByNobodyElse
BY BrokerOrderly, BrokerProperties, PTL
=============================================================================
