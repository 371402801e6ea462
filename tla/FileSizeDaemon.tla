--------------------------- MODULE FileSizeDaemon ----------------------------
(***************************************************************************)
(* daemon-filesize.c and client.c of hw-19: processes that read a          *)
(* configuration, become daemons, and answer every connection to a UNIX    *)
(* socket with the size of a file; and the clients that connect.  Several  *)
(* daemons may be started, one over the other or one after the other was   *)
(* killed; each process of either kind runs once.                          *)
(***************************************************************************)
EXTENDS Integers, Sequences, FiniteSets, Functions

CONSTANTS
  Daemons, Clients,
  None,        \* no process, no descriptor, no answer
  Sizes,       \* sizes of the data file
  OpenMax,     \* sysconf(_SC_OPEN_MAX)
  Backlog,     \* listen()'s 10
  MaxChanges   \* bound on the changes of the data file

Missing == -1      \* "-1", the answer when stat() fails
Garbage == -2      \* what the client prints of a buffer nothing was received into

ASSUME DaemonAssumption ==
  /\ Daemons \cap Clients = {} /\ None \notin Daemons \cup Clients \cup Int
  /\ Clients \cap {"closed", "terminal", "null", "listener"} = {}
  /\ Sizes \subseteq Nat /\ Sizes # {}
  /\ OpenMax \in Nat /\ OpenMax >= 6 /\ Backlog \in Nat /\ MaxChanges \in Nat

Fds == 0 .. OpenMax - 1

VARIABLES
  size,      \* of the data file, or Missing
  changes,   \* of the data file so far
  path,      \* the daemon that the socket file belongs to, or None
  dpc,       \* [Daemons -> where the daemon is]
  daemonized,\* [Daemons -> it was started with -d]
  conf,      \* [Daemons -> server_path and datafile are set]
  fds,       \* [Daemons -> its descriptors, [Fds -> what is open]]
  queue,     \* [Daemons -> the connections that wait for accept()]
  sd2,       \* [Daemons -> the descriptor of the accepted connection]
  buf,       \* [Daemons -> the answer]
  raced,     \* [Daemons -> another one bound the socket since its unlink()] (history)
  kept,      \* [Daemons -> its unlink() failed and left a file] (history)
  cpc,       \* [Clients -> where the client is]
  received,  \* [Clients -> what was sent to it]
  unsent,    \* [Clients -> the send() to it failed] (history)
  printed    \* [Clients -> what it printed]

world == <<size, changes>>
history == <<raced, kept>>
daemon == <<dpc, daemonized, conf, fds, queue, sd2, buf, history>>
client == <<cpc, received, unsent, printed>>
vars == <<world, path, daemon, client>>

Loop == {"accept", "stat", "send", "close"}
Listening(d) == dpc[d] \in Loop \cup {"stop"}

\* Every standard stream of a process that a shell starts is open.
Inherited == [n \in Fds |-> IF n <= 2 THEN "terminal" ELSE "closed"]
NothingOpen == [n \in Fds |-> "closed"]

Init ==
  /\ size \in Sizes \cup {Missing} /\ changes = 0 /\ path = None
  /\ dpc = [d \in Daemons |-> "off"] /\ daemonized \in [Daemons -> BOOLEAN]
  /\ conf = [d \in Daemons |-> FALSE]
  /\ fds = [d \in Daemons |-> Inherited]
  /\ queue = [d \in Daemons |-> << >>] /\ sd2 = [d \in Daemons |-> None]
  /\ buf = [d \in Daemons |-> None]
  /\ raced = [d \in Daemons |-> FALSE] /\ kept = [d \in Daemons |-> FALSE]
  /\ unsent = [c \in Clients |-> FALSE]
  /\ cpc = [c \in Clients |-> "off"] /\ received = [c \in Clients |-> None]
  /\ printed = [c \in Clients |-> None]

-----------------------------------------------------------------------------
(* Descriptors *)

Free(f) == {n \in Fds : f[n] = "closed"}
Lowest(f) == CHOOSE n \in Free(f) : \A k \in Free(f) : n <= k
Open(f, what) == [f EXCEPT ![Lowest(f)] = what]

\* daemonize() closes from OPEN_MAX down to 1, and opens /dev/null three times.
CloseAll(f) == [n \in Fds |-> IF n > 0 THEN "closed" ELSE f[n]]
Reopened(f) == Open(Open(Open(f, "null"), "null"), "null")

-----------------------------------------------------------------------------
(* The daemon *)

Goto(d, from, to) == dpc[d] = from /\ dpc' = [dpc EXCEPT ![d] = to]

\* A process that ends closes what it has open, and its memory is gone; the
\* socket file stays.
Ends(d, how) ==
  /\ dpc' = [dpc EXCEPT ![d] = how]
  /\ fds' = [fds EXCEPT ![d] = NothingOpen]
  /\ daemonized' = [daemonized EXCEPT ![d] = FALSE] /\ conf' = [conf EXCEPT ![d] = FALSE]
  /\ queue' = [queue EXCEPT ![d] = << >>]
  /\ sd2' = [sd2 EXCEPT ![d] = None] /\ buf' = [buf EXCEPT ![d] = None]
  /\ UNCHANGED <<world, history, client>>

\* read_conf_file(): a file that cannot be read, or lacks one of the two keys,
\* sets neither server_path nor datafile; its result is not looked at.
ReadConf(d) ==
  /\ Goto(d, "off", IF daemonized[d] THEN "fork" ELSE "socket")
  /\ \E complete \in BOOLEAN : conf' = [conf EXCEPT ![d] = complete]
  /\ UNCHANGED <<world, path, daemonized, fds, queue, sd2, buf, history, client>>

\* daemonize(): two fork()s and a setsid(), each of which may fail.
ForkFails(d) == dpc[d] = "fork" /\ Ends(d, "ended") /\ UNCHANGED path

Daemonize(d) ==
  /\ Goto(d, "fork", "socket")
  /\ fds' = [fds EXCEPT ![d] = Reopened(CloseAll(@))]
  /\ UNCHANGED <<world, path, daemonized, conf, queue, sd2, buf, history, client>>

Socket(d) ==
  /\ Goto(d, "socket", "unlink")
  /\ fds' = [fds EXCEPT ![d] = Open(@, "listener")]
  /\ UNCHANGED <<world, path, daemonized, conf, queue, sd2, buf, history, client>>

\* socket() and listen() may fail, and bind(): because the file is there (still or
\* again), or for a reason of its own, a directory that is missing or forbidden.
SocketFails(d) == dpc[d] = "socket" /\ Ends(d, "ended") /\ UNCHANGED path
BindInUse(d) == dpc[d] = "bind" /\ path # None /\ Ends(d, "in use") /\ UNCHANGED path
BindFails(d) == dpc[d] = "bind" /\ Ends(d, "ended") /\ UNCHANGED path
ListenFails(d) == dpc[d] = "listen" /\ Ends(d, "ended") /\ path' \in {path, None}

\* strcpy() from server_path, which is NULL when the configuration was not read.
NoServerPath(d) == dpc[d] = "unlink" /\ ~conf[d] /\ Ends(d, "crashed") /\ UNCHANGED path

\* (faulty form of Unlink: the file of an earlier daemon is left)
UnlinkNot(d) ==
  /\ Goto(d, "unlink", "bind") /\ conf[d]
  /\ UNCHANGED <<world, path, daemonized, conf, fds, queue, sd2, buf, history, client>>

Unlink(d) ==
  /\ Goto(d, "unlink", "bind") /\ conf[d]
  /\ path' = None
  /\ UNCHANGED <<world, daemonized, conf, fds, queue, sd2, buf, history, client>>

\* unlink() fails and nobody asks: the file, if there is one, stays.
UnlinkFails(d) ==
  /\ Goto(d, "unlink", "bind") /\ conf[d]
  /\ kept' = [kept EXCEPT ![d] = path # None]
  /\ UNCHANGED <<world, path, daemonized, conf, fds, queue, sd2, buf, raced, client>>

Bind(d) ==
  /\ Goto(d, "bind", "listen") /\ path = None
  /\ path' = d /\ raced' = [e \in Daemons |-> e # d /\ (raced[e] \/ dpc[e] = "bind")]
  /\ UNCHANGED <<world, daemonized, conf, fds, queue, sd2, buf, kept, client>>

Listen(d) ==
  /\ Goto(d, "listen", "accept")
  /\ UNCHANGED <<world, path, daemonized, conf, fds, queue, sd2, buf, history, client>>

\* accept() waits for a connection, ...
Accept(d) ==
  /\ Goto(d, "accept", "stat")
  /\ queue[d] # << >> /\ Free(fds[d]) # {}
  /\ sd2' = [sd2 EXCEPT ![d] = Lowest(fds[d])]
  /\ fds' = [fds EXCEPT ![d] = Open(@, Head(queue[d]))]
  /\ queue' = [queue EXCEPT ![d] = Tail(@)]
  /\ UNCHANGED <<world, path, daemonized, conf, buf, history, client>>

\* ... and may fail for want of descriptors: the loop is left, the socket closed
\* and its file unlinked, whosever it is by now (unlink() may fail here, too).
AcceptFails(d) ==
  /\ Goto(d, "accept", "stop") /\ queue[d] # << >>
  /\ UNCHANGED <<world, path, daemonized, conf, fds, queue, sd2, buf, history, client>>

Stop(d) == dpc[d] = "stop" /\ Ends(d, "ended") /\ path' \in {path, None}

\* (faulty form of Stat: when stat() fails the next connection is served)
StatOrContinue(d) ==
  /\ Goto(d, "stat", IF size = Missing THEN "accept" ELSE "send")
  /\ buf' = [buf EXCEPT ![d] = size]
  /\ UNCHANGED <<world, path, daemonized, conf, fds, queue, sd2, history, client>>

\* (faulty form of Stat: the size is read once, for the first client)
StatOnce(d) ==
  /\ Goto(d, "stat", "send")
  /\ buf' = [buf EXCEPT ![d] = IF buf[d] = None THEN size ELSE @]
  /\ UNCHANGED <<world, path, daemonized, conf, fds, queue, sd2, history, client>>

Stat(d) ==
  /\ Goto(d, "stat", "send")
  /\ buf' = [buf EXCEPT ![d] = size]
  /\ UNCHANGED <<world, path, daemonized, conf, fds, queue, sd2, history, client>>

Peer(d) == fds[d][sd2[d]]

\* The whole buffer is sent, as far as the peer is there: send() to one that has
\* gone raises SIGPIPE, which nobody handles.
Send(d) ==
  /\ Goto(d, "send", "close") /\ cpc[Peer(d)] = "recv"
  /\ received' = [received EXCEPT ![Peer(d)] = buf[d]]
  /\ UNCHANGED <<world, path, daemonized, conf, fds, queue, sd2, buf, history, cpc, unsent, printed>>

\* send() fails otherwise, before anything is sent: this is logged, the connection
\* closed and the next one awaited.
SendFails(d) ==
  /\ Goto(d, "send", "close")
  /\ unsent' = [unsent EXCEPT ![Peer(d)] = TRUE]
  /\ UNCHANGED <<world, path, daemonized, conf, fds, queue, sd2, buf, history, cpc, received, printed>>

BrokenPipe(d) ==
  /\ dpc[d] = "send" /\ cpc[Peer(d)] # "recv" /\ Ends(d, "SIGPIPE")
  /\ UNCHANGED path

\* (faulty form of Close: it stays open)
CloseNot(d) ==
  /\ Goto(d, "close", "accept")
  /\ sd2' = [sd2 EXCEPT ![d] = None]
  /\ UNCHANGED <<world, path, daemonized, conf, fds, queue, buf, history, client>>

Close(d) ==
  /\ Goto(d, "close", "accept")
  /\ fds' = [fds EXCEPT ![d][sd2[d]] = "closed"] /\ sd2' = [sd2 EXCEPT ![d] = None]
  /\ UNCHANGED <<world, path, daemonized, conf, queue, buf, history, client>>

Over(d) == dpc[d] \in {"ended", "in use", "crashed", "SIGPIPE", "killed"}

\* The user kills it.
Kill(d) ==
  /\ dpc[d] # "off" /\ ~Over(d) /\ Ends(d, "killed")
  /\ UNCHANGED path

DaemonStep(d) ==
  \/ ReadConf(d) \/ ForkFails(d) \/ Daemonize(d)
  \/ Socket(d) \/ SocketFails(d) \/ NoServerPath(d) \/ Unlink(d) \/ UnlinkFails(d)
  \/ Bind(d) \/ BindInUse(d) \/ BindFails(d) \/ Listen(d) \/ ListenFails(d)
  \/ Accept(d) \/ AcceptFails(d) \/ Stop(d)
  \/ Stat(d) \/ Send(d) \/ SendFails(d) \/ BrokenPipe(d) \/ Close(d)

-----------------------------------------------------------------------------
(* The client *)

CGoto(c, from, to) == cpc[c] = from /\ cpc' = [cpc EXCEPT ![c] = to]

\* (faulty form of Connect: the queue holds one too many)
ConnectOver(c) ==
  /\ CGoto(c, "off", "recv")
  /\ path # None /\ Listening(path) /\ Len(queue[path]) <= Backlog + 1
  /\ queue' = [queue EXCEPT ![path] = Append(@, c)]
  /\ UNCHANGED <<world, path, dpc, daemonized, conf, fds, sd2, buf, history, received, unsent, printed>>

\* connect() waits while the queue of the daemon that listens is full.
Connect(c) ==
  /\ CGoto(c, "off", "recv")
  /\ path # None /\ Listening(path) /\ Len(queue[path]) <= Backlog
  /\ queue' = [queue EXCEPT ![path] = Append(@, c)]
  /\ UNCHANGED <<world, path, dpc, daemonized, conf, fds, sd2, buf, history, received, unsent, printed>>

\* Nobody listens; or socket() or connect() fails for a reason of its own.
Refused(c) ==
  /\ CGoto(c, "off", "refused")
  /\ UNCHANGED <<world, path, daemon, received, unsent, printed>>

Held(c) == \E d \in Daemons : c \in Range(queue[d]) \cup Range(fds[d])

\* recv() until the buffer is full, or the other end is closed.
Receive(c) ==
  /\ CGoto(c, "recv", "printed")
  /\ received[c] # None \/ ~Held(c)
  /\ printed' = [printed EXCEPT ![c] = IF received[c] # None THEN received[c] ELSE Garbage]
  /\ UNCHANGED <<world, path, daemon, received, unsent>>

\* The user stops it.
Quit(c) ==
  /\ CGoto(c, "recv", "gone")
  /\ UNCHANGED <<world, path, daemon, received, unsent, printed>>

ClientStep(c) == Connect(c) \/ Refused(c) \/ Receive(c)

-----------------------------------------------------------------------------

Change ==
  /\ changes < MaxChanges /\ changes' = changes + 1
  /\ size' \in (Sizes \cup {Missing}) \ {size}
  /\ UNCHANGED <<path, daemon, client>>

\* Nothing is left to do but to wait.
Waits ==
  /\ \A d \in Daemons : Over(d) \/ (dpc[d] = "accept" /\ queue[d] = << >>)
  /\ \A c \in Clients : cpc[c] \in {"refused", "printed", "gone"}
  /\ UNCHANGED vars

Next ==
  \/ \E d \in Daemons : DaemonStep(d) \/ Kill(d)
  \/ \E c \in Clients : ClientStep(c) \/ Quit(c)
  \/ Change \/ Waits

\* A process that can run runs; nobody must be killed, and no file must change.
Spec ==
  /\ Init /\ [][Next]_vars
  /\ \A d \in Daemons : WF_vars(DaemonStep(d))
  /\ \A c \in Clients : WF_vars(ClientStep(c))

-----------------------------------------------------------------------------
(* Properties *)

Places == Loop \cup {"off", "fork", "socket", "unlink", "bind", "listen", "stop",
                    "ended", "in use", "crashed", "SIGPIPE", "killed"}
What == {"closed", "terminal", "null", "listener"} \cup Clients

TypeOK ==
  /\ size \in Sizes \cup {Missing} /\ changes \in 0 .. MaxChanges
  /\ path \in Daemons \cup {None}
  /\ dpc \in [Daemons -> Places]
  /\ daemonized \in [Daemons -> BOOLEAN] /\ conf \in [Daemons -> BOOLEAN]
  /\ raced \in [Daemons -> BOOLEAN] /\ kept \in [Daemons -> BOOLEAN] /\ unsent \in [Clients -> BOOLEAN]
  /\ fds \in [Daemons -> [Fds -> What]]
  /\ queue \in [Daemons -> Seq(Clients)] /\ \A d \in Daemons : Len(queue[d]) <= Backlog + 1
  /\ sd2 \in [Daemons -> Fds \cup {None}]
  /\ buf \in [Daemons -> Sizes \cup {Missing, None}]
  /\ cpc \in [Clients -> {"off", "recv", "refused", "printed", "gone"}]
  /\ received \in [Clients -> Sizes \cup {Missing, None}]
  /\ printed \in [Clients -> Sizes \cup {Missing, Garbage, None}]

\* The daemons that have to answer a client: it waits in their queue, or is
\* served.  There is one at most.
Queued(c, d) == \E k \in 1 .. Len(queue[d]) : queue[d][k] = c
Holders(c) == {d \in Daemons : Queued(c, d) \/ (dpc[d] \in {"stat", "send"} /\ Peer(d) = c)}
TheOne(S) == IF S = {} THEN None ELSE CHOOSE d \in S : TRUE
Found(c) == \E d \in Daemons : dpc[d] = "send" /\ Peer(d) = c

Phase(c) ==
  IF cpc[c] = "off" THEN "off"
  ELSE IF cpc[c] # "recv" THEN "ended"
  ELSE IF received[c] # None THEN "sent"
  ELSE IF Holders(c) = {} THEN "lost"
  ELSE IF Found(c) THEN "found" ELSE "waiting"

Asked(c) == IF Phase(c) \in {"waiting", "found"} THEN TheOne(Holders(c)) ELSE None
Answer(c) ==
  IF Phase(c) = "sent" THEN received[c]
  ELSE IF Phase(c) = "found" THEN buf[TheOne(Holders(c))] ELSE None

\* The daemons implement SizeServer: a client that stays prints what one stat()
\* gave while it waited, whoever is served before it and whenever the file
\* changes, and nothing else unless the daemon it is connected to has ended or the
\* send() of its answer failed.
Server == INSTANCE SizeServer WITH
  Servers <- Daemons, Contents <- Sizes \cup {Missing}, Nothing <- None,
  file <- size, running <- {d \in Daemons : ~Over(d)},
  phase <- [c \in Clients |-> Phase(c)], asked <- [c \in Clients |-> Asked(c)],
  answer <- [c \in Clients |-> Answer(c)]
ServesSizes == Server!Spec

\* A daemon that waits for a connection holds no other one: however many it
\* serves, it does not run out of descriptors.
DescriptorsGivenBack == \A d \in Daemons : dpc[d] = "accept" => Range(fds[d]) \cap Clients = {}

\* A socket file that an earlier daemon left keeps one from starting only when it
\* could not be unlinked: else bind() finds the address in use because another
\* daemon came in between.
StaleFileIsNoObstacle == \A d \in Daemons : dpc[d] = "in use" => raced[d] \/ kept[d]

\* A client that has connected and stays prints a size in the end, whoever is
\* served before it and whatever becomes of the file; it prints its unset buffer
\* only when a daemon has ended or the send() of its answer failed.
ClientEnds == \A c \in Clients :
  cpc[c] = "recv" ~> \/ cpc[c] = "gone" \/ printed[c] \in Sizes \cup {Missing}
                     \/ printed[c] = Garbage /\ (unsent[c] \/ \E d \in Daemons : Over(d))

\* The loop of the server never ends by itself (the comment on line 350).
NeverEndingLoop == \A d \in Daemons : dpc[d] # "SIGPIPE"

=============================================================================
