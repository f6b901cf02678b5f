---------------------------- MODULE MessageBroker ----------------------------
(***************************************************************************)
(* The message broker of Projeto2 and its clients: the worker threads of   *)
(* mbroker.c that share the register pipe, and the publisher, subscriber   *)
(* and manager processes, each with a named pipe of its own.               *)
(*                                                                         *)
(* mbroker.c does not compile as it stands.  It is read with the fewest    *)
(* changes that let it:                                                    *)
(*  - main takes the two arguments it uses, and tfs_lookup can be called;  *)
(*  - in worker_thread box_name is the array the name is copied to, and    *)
(*    the cases share the variables of the switch: case 5 uses the         *)
(*    manager_pipe of case 3 without setting it, case 7 sets it;           *)
(*  - a list request whose pipe does not open ends the thread (return).    *)
(*                                                                         *)
(* What is abstracted:                                                     *)
(*  - no box is ever stored.  The TecnicoFS of the process starts empty,   *)
(*    and the one tfs_open that may create a file, in create_message_box,  *)
(*    is reached only if the name is there already: tfs_lookup always      *)
(*    fails, so box names are left out, and with them what follows a       *)
(*    look-up that succeeds;                                               *)
(*  - a message is its code; the other fields of an answer do not matter   *)
(*    to who gets it;                                                      *)
(*  - a request in the register pipe has a code, a client and a length:    *)
(*    its bytes are written at once (a write below PIPE_BUF), but a read   *)
(*    of 1024 may end inside it.  Names hold no byte that is a code;       *)
(*  - a client is its session pipe (Clients are also the pipes' names).    *)
(*    No client sets its client_pipe_name: a name that another client has, *)
(*    or that is none, makes mkfifo fail and ends the client.              *)
(***************************************************************************)
EXTENDS Integers, Sequences, SequencesExt, FiniteSets

CONSTANTS
    Workers,    \* worker_threads
    Clients,
    NoClient,   \* an indeterminate pipe name, a descriptor that is not open
    Roles,      \* what a client may be
    Wires,      \* how a client may write its request
    BUFFER,     \* bytes a worker reads: 1024
    BinarySizes,    \* bytes of a request: 289, or 257 of a list
    TextSizes,  \* bytes of the text the clients print for one: 5 to 1023
    MAX_MESSAGES,   \* bound of the model: messages waiting in a session pipe
    MAX_INTERRUPTS  \* bound of the model: clients interrupted

ASSUME BrokerAssumption ==
    /\ IsFiniteSet(Clients) /\ NoClient \notin Clients
    /\ BUFFER \in Nat \ {0}
    /\ BinarySizes \subseteq 1..BUFFER /\ TextSizes \subseteq 1..BUFFER
    /\ Roles \subseteq {"publisher", "subscriber", "create", "remove", "list"}
    /\ Wires \subseteq {"text", "binary"}
    /\ MAX_MESSAGES \in Nat \ {0} /\ MAX_INTERRUPTS \in Nat

VARIABLES
    role, wire,     \* of each client; they do not change
    broker,         \* "starting", "running", "exited" or "killed"
    register,       \* requests in the register pipe, with where each ends
    cut,            \* the first of them has lost its first bytes
    writers,        \* clients that have the register pipe open
    fifos,          \* session pipes that exist
    session,        \* messages in each session pipe
    client,         \* where each client is
    got,            \* the message each client has read last, or 0
    worker,         \* where each worker is
    buffer,         \* the request in each worker's buffer
    client_pipe,    \* each worker's variables
    manager_pipe,   \* the session pipe a worker has open for writing
    swallowed,      \* history: requests read behind another one
    removing        \* history: a worker has been in case 5

clients == <<writers, fifos, client, got>>
workers == <<worker, buffer, client_pipe, manager_pipe>>
vars == <<role, wire, broker, register, cut, session, clients, workers, swallowed, removing>>

CreateAnswer == 4
RemoveAnswer == 6
Opcode == [publisher |-> 1, subscriber |-> 2, create |-> 3, remove |-> 5, list |-> 7]
NoRequest == [code |-> -1, pipe |-> NoClient]
\* The bytes behind a cut are of a name, or the zeros that fill one up.
CutRequest == [code |-> 0, pipe |-> NoClient]

\* The clients of this repository print the code as a digit; the protocol of
\* exercise2.md, which any process may speak, has it in a byte.
Code(c) == IF wire[c] = "text" THEN 48 + Opcode[role[c]] ELSE Opcode[role[c]]
Sizes(c) == IF wire[c] = "text" THEN TextSizes ELSE BinarySizes

\* The bytes in the register pipe.
Bytes == IF register = <<>> THEN 0 ELSE Last(register).end
Request(c, size) == [code |-> Code(c), pipe |-> c, end |-> Bytes + size]

Init ==
    /\ role \in [Clients -> Roles]
    /\ wire \in [Clients -> Wires]
    /\ broker = "starting"
    /\ register = <<>> /\ cut = FALSE
    /\ writers = {}
    /\ fifos = {}
    /\ session = [c \in Clients |-> <<>>]
    /\ client = [c \in Clients |-> "new"]
    /\ got = [c \in Clients |-> 0]
    /\ worker = [w \in Workers |-> "read"]
    /\ buffer = [w \in Workers |-> NoRequest]
    /\ client_pipe = [w \in Workers |-> NoClient]
    /\ manager_pipe = [w \in Workers |-> NoClient]
    /\ swallowed = {}
    /\ removing = FALSE

(***************************************************************************)
(* Clients                                                                 *)
(***************************************************************************)
At(c, where) == client[c] = where
Goes(c, where) == client' = [client EXCEPT ![c] = where]

\* mkfifo and the opening of the register pipe.  main waits in its own open
\* for the first writer and then starts the workers.
Connect(c) ==
    /\ At(c, "new")
    /\ broker \in {"starting", "running"}
    /\ broker' = "running"
    /\ fifos' = fifos \cup {c}
    /\ writers' = writers \cup {c}
    /\ Goes(c, "connected")
    /\ UNCHANGED <<role, wire, register, cut, session, got, workers, swallowed, removing>>

\* mkfifo fails, or the broker has ended and unlinked the register pipe.
ConnectFails(c) ==
    /\ At(c, "new")
    /\ \/ UNCHANGED fifos
       \/ broker = "exited" /\ fifos' = fifos \cup {c}
    /\ Goes(c, "ended")
    /\ UNCHANGED <<role, wire, broker, register, cut, writers, session, got, workers,
                   swallowed, removing>>

\* Fault variant: every client closes the register pipe after its request.
SendAndClose(c) ==
    /\ At(c, "connected")
    /\ broker = "running"
    /\ \E size \in Sizes(c) : register' = Append(register, Request(c, size))
    /\ writers' = writers \ {c}
    /\ Goes(c, "opening")
    /\ UNCHANGED <<role, wire, broker, cut, session, fifos, got, workers, swallowed,
                   removing>>

\* Only the publisher closes the register pipe here; the others do as they end.
Send(c) ==
    /\ At(c, "connected")
    /\ broker = "running"
    /\ \E size \in Sizes(c) : register' = Append(register, Request(c, size))
    /\ writers' = IF role[c] = "publisher" THEN writers \ {c} ELSE writers
    /\ Goes(c, "opening")
    /\ UNCHANGED <<role, wire, broker, cut, session, fifos, got, workers, swallowed,
                   removing>>

\* The session pipe of c is open for reading, or c is inside the open that
\* waits for a writer.  A publisher opens its own for writing.
Listens(c) == role[c] # "publisher" /\ client[c] \in {"opening", "reading"}

\* c ends; its descriptors are closed, its session pipe may stay behind.
Leaves(c, how, unlinks) ==
    /\ Goes(c, how)
    /\ writers' = writers \ {c}
    /\ fifos' = IF unlinks THEN fifos \ {c} ELSE fifos
    /\ session' = [session EXCEPT ![c] = <<>>]
    /\ UNCHANGED <<role, wire, broker, register, cut, workers, swallowed, removing>>

Ends(c, unlinks) == Leaves(c, "ended", unlinks)

\* The first message is the answer to a creation or a removal.  A manager that
\* creates does not unlink its pipe.
ReceiveAnswer(c) ==
    /\ At(c, "reading")
    /\ role[c] \in {"create", "remove"}
    /\ session[c] # <<>>
    /\ got' = [got EXCEPT ![c] = Head(session[c])]
    /\ Ends(c, role[c] = "remove")

\* A subscriber and a manager that lists read on.
ReceiveMore(c) ==
    /\ At(c, "reading")
    /\ role[c] \in {"subscriber", "list"}
    /\ session[c] # <<>>
    /\ got' = [got EXCEPT ![c] = Head(session[c])]
    /\ session' = [session EXCEPT ![c] = Tail(@)]
    /\ UNCHANGED <<role, wire, broker, register, cut, writers, fifos, client,
                   workers, swallowed, removing>>

EndOfFile(c) ==
    /\ At(c, "reading")
    /\ session[c] = <<>>
    /\ \A w \in Workers : manager_pipe[w] # c
    /\ Ends(c, role[c] # "create")
    /\ UNCHANGED got

\* SIGINT, in the middle of any call: a subscriber exits in its handler, the
\* others have none.
Interrupt(c) ==
    /\ client[c] \in {"connected", "opening", "reading"}
    /\ Cardinality({d \in Clients : At(d, "interrupted")}) < MAX_INTERRUPTS
    /\ Leaves(c, "interrupted", FALSE)
    /\ UNCHANGED got

\* The broker has gone: writing to the register pipe ends the client.
SendFails(c) ==
    /\ At(c, "connected")
    /\ broker \in {"exited", "killed"}
    /\ Ends(c, FALSE)
    /\ UNCHANGED got

(***************************************************************************)
(* Workers                                                                 *)
(***************************************************************************)
WorkerAt(w, where) == broker = "running" /\ worker[w] = where
WorkerGoes(w, where) == worker' = [worker EXCEPT ![w] = where]
Outside == UNCHANGED <<role, wire, writers, fifos, got, removing>>

\* One read takes BUFFER bytes, or all there are.  The first request is handled;
\* those behind it are overwritten by the next read, and the last of them may be
\* cut: the next read starts inside it.
Read(w) ==
    /\ WorkerAt(w, "read")
    /\ \E k \in 1..Len(register) :  \* the requests that end in the buffer
          /\ \A i \in DOMAIN register : register[i].end <= BUFFER <=> i <= k
          /\ register' = [i \in 1..(Len(register) - k) |->
                              [register[k + i] EXCEPT !.end = @ - BUFFER]]
          /\ cut' = (k < Len(register) /\ register[k].end < BUFFER)
          /\ swallowed' = swallowed \cup
                 {register[i].pipe : i \in 2..(IF cut' THEN k + 1 ELSE k)}
    /\ buffer' = [buffer EXCEPT ![w] =
           IF cut THEN CutRequest
           ELSE [code |-> register[1].code, pipe |-> register[1].pipe]]
    /\ WorkerGoes(w, "handle")
    /\ UNCHANGED <<broker, session, client, client_pipe, manager_pipe>> /\ Outside

\* Nobody has the register pipe open: read returns 0, which is not an error,
\* and the request of the last time is handled again.
ReadEnd(w) ==
    /\ WorkerAt(w, "read")
    /\ register = <<>> /\ writers = {}
    /\ WorkerGoes(w, "handle")
    /\ UNCHANGED <<broker, register, cut, session, client, buffer, client_pipe,
                   manager_pipe, swallowed>>
    /\ Outside

\* A buffer that was never read into holds any code, but the name of no pipe.
Requests(w) == IF buffer[w] # NoRequest THEN {buffer[w]}
               ELSE [code : {1, 2, 3, 5, 7, 0}, pipe : {NoClient}]

\* tfs_lookup finds nothing (see above): there is no publisher or subscriber to
\* add, no box to create or remove.  The first two requests get no answer.
HandleRegistration(w) ==
    /\ WorkerAt(w, "handle")
    /\ \E r \in Requests(w) :
          /\ r.code \in {1, 2}
          /\ client_pipe' = [client_pipe EXCEPT ![w] = r.pipe]
    /\ WorkerGoes(w, "read")
    /\ UNCHANGED <<broker, register, cut, session, client, buffer, manager_pipe, swallowed>>
    /\ Outside

HandleInvalid(w) ==
    /\ WorkerAt(w, "handle")
    /\ \E r \in Requests(w) : r.code \notin {1, 2, 3, 5, 7}
    /\ WorkerGoes(w, "read")
    /\ UNCHANGED <<broker, register, cut, session, client, buffer, client_pipe,
                   manager_pipe, swallowed>>
    /\ Outside


\* Fault variant: the pipe's name is copied from where the code is.
HandleCreateMisread(w) ==
    /\ WorkerAt(w, "handle")
    /\ \E r \in Requests(w) :
          /\ r.code = 3
          /\ client_pipe' = [client_pipe EXCEPT ![w] = r.code]
    /\ WorkerGoes(w, "open_create")
    /\ UNCHANGED <<broker, register, cut, session, client, buffer, manager_pipe, swallowed>>
    /\ Outside

HandleCreate(w) ==
    /\ WorkerAt(w, "handle")
    /\ \E r \in Requests(w) :
          /\ r.code = 3
          /\ client_pipe' = [client_pipe EXCEPT ![w] = r.pipe]
    /\ WorkerGoes(w, "open_create")
    /\ UNCHANGED <<broker, register, cut, session, client, buffer, manager_pipe, swallowed>>
    /\ Outside

\* The pipe of a list request is not copied from the buffer: client_pipe is
\* still that of the worker's request before.
HandleList(w) ==
    /\ WorkerAt(w, "handle")
    /\ \E r \in Requests(w) : r.code = 7
    /\ WorkerGoes(w, "open_list")
    /\ UNCHANGED <<broker, register, cut, session, client, buffer, client_pipe,
                   manager_pipe, swallowed>>
    /\ Outside

\* open(client_pipe, O_WRONLY) waits for a reader.
Open(w) ==
    /\ \/ WorkerAt(w, "open_create") /\ WorkerGoes(w, "answer_create")
       \/ WorkerAt(w, "open_list") /\ WorkerGoes(w, "answer_list")
    /\ client_pipe[w] \in fifos
    /\ Listens(client_pipe[w])
    /\ Goes(client_pipe[w], "reading")
    /\ manager_pipe' = [manager_pipe EXCEPT ![w] = client_pipe[w]]
    /\ UNCHANGED <<broker, register, cut, session, buffer, client_pipe, swallowed>>
    /\ Outside

OpenFails(w) ==
    /\ \/ WorkerAt(w, "open_create") /\ WorkerGoes(w, "read")
       \/ WorkerAt(w, "open_list") /\ WorkerGoes(w, "ended")
    /\ client_pipe[w] \notin fifos
    /\ UNCHANGED <<broker, register, cut, session, client, buffer, client_pipe,
                   manager_pipe, swallowed>>
    /\ Outside

\* exit in send_msg, or SIGPIPE: the process goes with all its threads.
Killed ==
    /\ broker' = "killed"
    /\ manager_pipe' = [w \in Workers |-> NoClient]
    /\ UNCHANGED <<session, worker>>

\* Worker w sends m on a descriptor that is not its own and closes it: nothing
\* is open there, or another worker's session pipe is.
SendStray(w, m) ==
    \/ Killed
    \/ \E v \in Workers :
          /\ v # w /\ manager_pipe[v] # NoClient
          /\ IF At(manager_pipe[v], "reading")
             THEN /\ Len(session[manager_pipe[v]]) < MAX_MESSAGES
                  /\ session' = [session EXCEPT ![manager_pipe[v]] = Append(@, m)]
                  /\ manager_pipe' = [manager_pipe EXCEPT ![v] = NoClient]
                  /\ WorkerGoes(w, "read")
                  /\ UNCHANGED broker
             ELSE Killed

\* Fault variant: the answer is written field by field.
AnswerCreateByParts(w) ==
    /\ WorkerAt(w, "answer_create")
    /\ manager_pipe[w] # NoClient
    /\ IF At(manager_pipe[w], "reading")
       THEN /\ Len(session[manager_pipe[w]]) < MAX_MESSAGES
            /\ session' = [session EXCEPT ![manager_pipe[w]] = Append(@, CreateAnswer)]
            /\ IF session[manager_pipe[w]] = <<>>
               THEN UNCHANGED <<manager_pipe, worker>>
               ELSE /\ manager_pipe' = [manager_pipe EXCEPT ![w] = NoClient]
                    /\ WorkerGoes(w, "read")
            /\ UNCHANGED broker
       ELSE Killed
    /\ UNCHANGED <<register, cut, client, buffer, client_pipe, swallowed>>
    /\ Outside

\* There is nothing to unlink.  Case 5 never sets manager_pipe: it may be a
\* descriptor w has closed, one of another worker, or an open file of no
\* importance.
HandleRemove(w) ==
    /\ WorkerAt(w, "handle")
    /\ \E r \in Requests(w) :
          /\ r.code = 5
          /\ client_pipe' = [client_pipe EXCEPT ![w] = r.pipe]
    /\ \/ SendStray(w, RemoveAnswer)
       \/ WorkerGoes(w, "read") /\ UNCHANGED <<broker, session, manager_pipe>>
    /\ removing' = TRUE
    /\ UNCHANGED <<role, wire, register, cut, writers, fifos, client, got, buffer, swallowed>>

\* One send_msg; without a reader it raises SIGPIPE.  The descriptor may have
\* been closed by another worker.
AnswerCreate(w) ==
    /\ WorkerAt(w, "answer_create")
    /\ IF manager_pipe[w] = NoClient THEN SendStray(w, CreateAnswer)
       ELSE IF At(manager_pipe[w], "reading")
       THEN /\ Len(session[manager_pipe[w]]) < MAX_MESSAGES
            /\ session' = [session EXCEPT ![manager_pipe[w]] = Append(@, CreateAnswer)]
            /\ manager_pipe' = [manager_pipe EXCEPT ![w] = NoClient]
            /\ WorkerGoes(w, "read")
            /\ UNCHANGED broker
       ELSE Killed
    /\ UNCHANGED <<register, cut, client, buffer, client_pipe, swallowed>>
    /\ Outside

\* num_boxes is 0: the list is closed without a message.  A descriptor that
\* was closed before may be another worker's by now.
CloseList(w) ==
    /\ WorkerAt(w, "answer_list")
    /\ \E v \in Workers :
          /\ v # w => manager_pipe[w] = NoClient
          /\ manager_pipe' = [manager_pipe EXCEPT ![v] = NoClient]
    /\ WorkerGoes(w, "read")
    /\ UNCHANGED <<broker, register, cut, session, client, buffer, client_pipe, swallowed>>
    /\ Outside

\* main joins the workers, unlinks the register pipe and returns.
MainEnds ==
    /\ broker = "running"
    /\ \A w \in Workers : worker[w] = "ended"
    /\ broker' = "exited"
    /\ UNCHANGED <<role, wire, register, cut, session, clients, workers, swallowed,
                   removing>>

ClientStep(c) ==
    \/ Send(c) \/ SendFails(c)
    \/ ReceiveAnswer(c) \/ ReceiveMore(c) \/ EndOfFile(c)

WorkerStep(w) ==
    \/ Read(w) \/ ReadEnd(w)
    \/ HandleRegistration(w) \/ HandleInvalid(w) \/ HandleCreate(w)
    \/ HandleRemove(w) \/ HandleList(w)
    \/ Open(w) \/ OpenFails(w) \/ AnswerCreate(w) \/ CloseList(w)

Next ==
    \/ \E c \in Clients : Connect(c) \/ ConnectFails(c) \/ ClientStep(c) \/ Interrupt(c)
    \/ \E w \in Workers : WorkerStep(w)
    \/ MainEnds

\* Processes and threads that can go on are scheduled; no client need start, no
\* user need interrupt one.
Spec ==
    /\ Init /\ [][Next]_vars
    /\ \A c \in Clients : WF_vars(ClientStep(c))
    /\ \A w \in Workers : WF_vars(WorkerStep(w))
    /\ WF_vars(MainEnds)

(***************************************************************************)
(* Properties                                                              *)
(***************************************************************************)
Messages == {CreateAnswer, RemoveAnswer}
Requested == [code : Int, pipe : Clients]
Queued == [code : Int, pipe : Clients, end : Int]

TypeOK ==
    /\ role \in [Clients -> Roles] /\ wire \in [Clients -> Wires]
    /\ broker \in {"starting", "running", "exited", "killed"}
    /\ register \in Seq(Queued) /\ Len(register) <= Cardinality(Clients)
    /\ cut \in BOOLEAN
    /\ writers \subseteq Clients /\ fifos \subseteq Clients
    /\ session \in [Clients -> Seq(Messages)]
    /\ client \in [Clients -> {"new", "connected", "opening", "reading", "ended",
                              "interrupted"}]
    /\ got \in [Clients -> Messages \cup {0}]
    /\ worker \in [Workers -> {"read", "handle", "open_create", "open_list",
                              "answer_create", "answer_list", "ended"}]
    /\ buffer \in [Workers -> Requested \cup {NoRequest, CutRequest}]
    /\ client_pipe \in [Workers -> Clients \cup {NoClient}]
    /\ manager_pipe \in [Workers -> Clients \cup {NoClient}]
    /\ swallowed \subseteq Clients /\ removing \in BOOLEAN

AsksTo(c, what) == role[c] = what /\ wire[c] = "binary" /\ client[c] # "new"

\* mbroker.c:342-355, case 3.  Until a worker gets into case 5, an answer to a
\* creation reaches only a manager that asked for one, once, and nobody gets
\* anything else: although workers repeat the request in their buffer at the end
\* of file, and take client_pipe of a list from the request before.
CreateAnsweredOnce ==
    removing \/ \A c \in Clients :
        /\ session[c] # <<>> \/ got[c] # 0 => AsksTo(c, "create")
        /\ Len(session[c]) <= 1

\* send_msg.c:24-26, mbroker.c:354, 375.  An answer ends the process that serves
\* every client (it is written on a closed descriptor, or to a pipe whose reader
\* has gone) only if case 5 has written on a manager_pipe nobody set, or the
\* manager was interrupted: those that create stay until they have their answer,
\* and no request is answered twice.
KilledByNobodyElse ==
    broker = "killed" =>
        removing \/ \E c \in Clients : role[c] = "create" /\ At(c, "interrupted")

\* A worker in open(client_pipe, O_WRONLY) on a pipe nobody will read.
WaitsForNobody(w) ==
    /\ worker[w] \in {"open_create", "open_list"}
    /\ client_pipe[w] \in fifos
    /\ ~ Listens(client_pipe[w])


\* exercise2.md:133, "Recebe a resposta no _named pipe_ criado pelo proprio
\* _manager_": a manager that has sent its request gets an answer.
ManagersAnswered ==
    \A c \in Clients :
        role[c] \in {"create", "remove"} /\ At(c, "opening")
            ~> got[c] # 0 \/ At(c, "interrupted")
=============================================================================
