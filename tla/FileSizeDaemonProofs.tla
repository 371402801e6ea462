------------------------ MODULE FileSizeDaemonProofs ------------------------
(***************************************************************************)
(* Proofs about FileSizeDaemon, for any number of daemons and clients, any *)
(* sizes of the file, any number of changes to it, any backlog and any     *)
(* number of descriptors.                                                  *)
(***************************************************************************)
EXTENDS FileSizeDaemon, TLAPS, SequenceTheorems, WellFoundedInduction

-----------------------------------------------------------------------------
(* Descriptors *)

\* open(), socket() and accept() return a descriptor that is not open, if any.
LEMMA LowestIsFree ==
  ASSUME NEW f \in [Fds -> What], Free(f) # {}
  PROVE  Lowest(f) \in Fds /\ f[Lowest(f)] = "closed"
<1>1. Free(f) \subseteq Nat
  BY DEF Free, Fds
<1>2. PICK n \in Free(f) : \A k \in Free(f) : ~(<<k, n>> \in OpToRel(<, Nat))
  BY <1>1, WFMin, NatLessThanWellFounded
<1>3. \A k \in Free(f) : n <= k
  <2> SUFFICES ASSUME NEW k \in Free(f) PROVE n <= k
    OBVIOUS
  <2>1. k \in Nat /\ n \in Nat
    BY <1>1
  <2>2. ~(k < n)
    BY <1>2, <2>1 DEF OpToRel
  <2> QED BY <2>1, <2>2
<1>4. Lowest(f) \in Free(f)
  BY <1>2, <1>3 DEF Lowest
<1> QED BY <1>4 DEF Free

LEMMA OpenTyped ==
  ASSUME NEW f \in [Fds -> What], NEW what \in What
  PROVE  /\ Open(f, what) \in [Fds -> What]
         /\ \A n \in Fds : Open(f, what)[n] \in {f[n], what}
BY DEF Open

-----------------------------------------------------------------------------
(* Queues *)

LEMMA QueueGrows ==
  ASSUME NEW q \in Seq(Clients), NEW c \in Clients, Len(q) <= Backlog
  PROVE  /\ Append(q, c) \in Seq(Clients) /\ Len(Append(q, c)) <= Backlog + 1
         /\ \A k \in 1 .. Len(Append(q, c)) :
              Append(q, c)[k] = c \/ \E j \in 1 .. Len(q) : Append(q, c)[k] = q[j]
BY DaemonAssumption, AppendProperties

LEMMA QueueShrinks ==
  ASSUME NEW q \in Seq(Clients), q # << >>, Len(q) <= Backlog + 1
  PROVE  /\ Head(q) \in Clients /\ Head(q) = q[1] /\ 1 \in 1 .. Len(q)
         /\ Tail(q) \in Seq(Clients) /\ Len(Tail(q)) <= Backlog + 1
         /\ \A k \in 1 .. Len(Tail(q)) : \E j \in 1 .. Len(q) : Tail(q)[k] = q[j]
<1>1. /\ Len(q) \in Nat /\ Len(q) # 0 /\ Backlog \in Nat
      /\ Head(q) = q[1] /\ Head(q) \in Clients /\ Tail(q) \in Seq(Clients)
      /\ Len(Tail(q)) = Len(q) - 1
      /\ \A k \in 1 .. Len(Tail(q)) : Tail(q)[k] = q[k + 1]
  BY DaemonAssumption, HeadTailProperties, EmptySeq
<1>2. \A k \in 1 .. Len(Tail(q)) : k + 1 \in 1 .. Len(q)
  BY <1>1
<1> QED BY <1>1, <1>2

LEMMA QueueEmpty ==
  << >> \in Seq(Clients) /\ Len(<< >>) = 0 /\ 0 <= Backlog + 1
BY DaemonAssumption

-----------------------------------------------------------------------------
(* Types *)

LEMMA InitTyped == Init => TypeOK
BY DaemonAssumption DEF Init, TypeOK, Inherited, What, Places

LEMMA OneMore ==
  ASSUME NEW m \in Nat, NEW k \in 0 .. m, k < m
  PROVE  k + 1 \in 0 .. m
OBVIOUS

LEMMA EndsTyped ==
  ASSUME TypeOK, NEW d \in Daemons, NEW how \in {"ended", "in use", "crashed", "SIGPIPE", "killed"},
         Ends(d, how), path' \in Daemons \cup {None}
  PROVE  TypeOK'
<1> USE DEF TypeOK, Ends, world, history, client
<1>1. NothingOpen \in [Fds -> What]
  BY DEF NothingOpen, What
<1>2. fds' \in [Daemons -> [Fds -> What]]
  BY <1>1
<1>3. /\ queue' \in [Daemons -> Seq(Clients)]
      /\ \A e \in Daemons : Len(queue'[e]) <= Backlog + 1
  <2>1. queue' = [queue EXCEPT ![d] = << >>]
    OBVIOUS
  <2> QED BY <2>1, QueueEmpty
<1>4. dpc' \in [Daemons -> Places]
  <2>1. dpc' = [dpc EXCEPT ![d] = how] /\ how \in Places
    BY DEF Places
  <2> QED BY <2>1
<1>5. /\ daemonized' \in [Daemons -> BOOLEAN] /\ conf' \in [Daemons -> BOOLEAN]
      /\ sd2' \in [Daemons -> Fds \cup {None}] /\ buf' \in [Daemons -> Sizes \cup {Missing, None}]
  OBVIOUS
<1> QED BY <1>2, <1>3, <1>4, <1>5

LEMMA StepTyped == TypeOK /\ [Next]_vars => TypeOK'
<1> SUFFICES ASSUME TypeOK, [Next]_vars PROVE TypeOK'
  OBVIOUS
<1> USE DEF TypeOK, Goto, CGoto, Places, Loop, world, history, daemon, client
<1>1. ASSUME NEW d \in Daemons, DaemonStep(d) \/ Kill(d) PROVE TypeOK'
  <2>0. fds[d] \in [Fds -> What] /\ Backlog \in Nat
    BY DaemonAssumption
  <2>1. CASE ReadConf(d)
    BY <2>1 DEF ReadConf
  <2>2. CASE ForkFails(d)
    BY <2>2, EndsTyped DEF ForkFails
  <2>3. CASE Daemonize(d)
    <3>1. CloseAll(fds[d]) \in [Fds -> What] /\ "null" \in What
      BY <2>0 DEF CloseAll, What
    <3>2. Reopened(CloseAll(fds[d])) \in [Fds -> What]
      BY <3>1, OpenTyped DEF Reopened
    <3> QED BY <2>3, <3>2 DEF Daemonize
  <2>4. CASE Socket(d)
    <3>1. Open(fds[d], "listener") \in [Fds -> What]
      BY <2>0, OpenTyped DEF What
    <3> QED BY <2>4, <3>1 DEF Socket
  <2>5. CASE SocketFails(d)
    BY <2>5, EndsTyped DEF SocketFails
  <2>6. CASE NoServerPath(d)
    BY <2>6, EndsTyped DEF NoServerPath
  <2>7. CASE Unlink(d)
    BY <2>7 DEF Unlink
  <2>8. CASE Bind(d)
    BY <2>8 DEF Bind
  <2>9. CASE BindInUse(d)
    BY <2>9, EndsTyped DEF BindInUse
  <2>10. CASE Listen(d)
    BY <2>10 DEF Listen
  <2>11. CASE ListenFails(d)
    BY <2>11, EndsTyped DEF ListenFails
  <2>12. CASE Accept(d)
    <3>1. /\ Head(queue[d]) \in Clients /\ Tail(queue[d]) \in Seq(Clients)
          /\ Len(Tail(queue[d])) <= Backlog + 1
      <4>1. queue[d] \in Seq(Clients) /\ queue[d] # << >> /\ Len(queue[d]) <= Backlog + 1
        BY <2>12 DEF Accept
      <4> QED BY <4>1, QueueShrinks
    <3>2. Lowest(fds[d]) \in Fds /\ Open(fds[d], Head(queue[d])) \in [Fds -> What]
      BY <2>0, <2>12, <3>1, LowestIsFree, OpenTyped DEF Accept, What
    <3>3. queue' \in [Daemons -> Seq(Clients)] /\ \A e \in Daemons : Len(queue'[e]) <= Backlog + 1
      BY <2>12, <3>1 DEF Accept
    <3>4. fds' \in [Daemons -> [Fds -> What]] /\ sd2' \in [Daemons -> Fds \cup {None}]
      BY <2>12, <3>2 DEF Accept
    <3> QED BY <2>12, <3>3, <3>4 DEF Accept
  <2>13. CASE AcceptFails(d)
    BY <2>13 DEF AcceptFails
  <2>14. CASE Stop(d)
    BY <2>14, EndsTyped DEF Stop
  <2>15. CASE Stat(d)
    BY <2>15 DEF Stat
  <2>16. CASE Send(d)
    BY <2>16 DEF Send
  <2>17. CASE BrokenPipe(d)
    BY <2>17, EndsTyped DEF BrokenPipe
  <2>18. CASE Close(d)
    <3>1. [fds[d] EXCEPT ![sd2[d]] = "closed"] \in [Fds -> What]
      BY <2>0 DEF What
    <3> QED BY <2>18, <3>1 DEF Close
  <2>19. CASE Kill(d)
    BY <2>19, EndsTyped DEF Kill
  <2>20. CASE UnlinkFails(d)
    BY <2>20 DEF UnlinkFails
  <2>21. CASE BindFails(d)
    BY <2>21, EndsTyped DEF BindFails
  <2>22. CASE SendFails(d)
    BY <2>22 DEF SendFails
  <2> QED BY <1>1, <2>1, <2>2, <2>3, <2>4, <2>5, <2>6, <2>7, <2>8, <2>9, <2>10, <2>11, <2>12,
             <2>13, <2>14, <2>15, <2>16, <2>17, <2>18, <2>19, <2>20, <2>21, <2>22 DEF DaemonStep
<1>2. ASSUME NEW c \in Clients, ClientStep(c) \/ Quit(c) PROVE TypeOK'
  <2>1. CASE Connect(c)
    <3>1. path \in Daemons /\ Backlog \in Nat
      BY <2>1, DaemonAssumption DEF Connect
    <3>2. queue[path] \in Seq(Clients) /\ Len(queue[path]) <= Backlog
      BY <2>1, <3>1 DEF Connect
    <3>3. /\ Append(queue[path], c) \in Seq(Clients)
          /\ Len(Append(queue[path], c)) <= Backlog + 1
      BY <3>2, QueueGrows
    <3>4. queue' \in [Daemons -> Seq(Clients)] /\ \A e \in Daemons : Len(queue'[e]) <= Backlog + 1
      BY <2>1, <3>3 DEF Connect
    <3>5. cpc' \in [Clients -> {"off", "recv", "refused", "printed", "gone"}]
      BY <2>1 DEF Connect
    <3> QED BY <2>1, <3>4, <3>5 DEF Connect
  <2>2. CASE Refused(c)
    BY <2>2 DEF Refused
  <2>3. CASE Receive(c)
    BY <2>3 DEF Receive
  <2>4. CASE Quit(c)
    BY <2>4 DEF Quit
  <2> QED BY <1>2, <2>1, <2>2, <2>3, <2>4 DEF ClientStep
<1>3. CASE Change
  <2>0. size' \in Sizes \cup {Missing}
    BY <1>3 DEF Change
  <2>1. size' \in Sizes \cup {Missing} /\ changes' \in 0 .. MaxChanges
    <3>1. changes \in 0 .. MaxChanges /\ changes < MaxChanges /\ changes' = changes + 1
      BY <1>3 DEF Change
    <3>2. MaxChanges \in Nat
      BY DaemonAssumption
    <3> QED BY <2>0, <3>1, <3>2, OneMore
  <2> QED BY <1>3, <2>1 DEF Change
<1>4. CASE UNCHANGED vars
  BY <1>4 DEF vars
<1> QED BY <1>1, <1>2, <1>3, <1>4 DEF Next, Waits

\* The types hold in every run: the queue never holds more than the backlog lets
\* in (connect(), line 34 of client.c), and a descriptor stays below OPEN_MAX.
THEOREM TypeCorrect == Spec => []TypeOK
<1> QED BY InitTyped, StepTyped, PTL DEF Spec

-----------------------------------------------------------------------------
(* Descriptors of connections *)

\* A daemon holds the connection that it serves, as sd2, and no other one.
Serving == {"stat", "send", "close"}

DescriptorInv == \A d \in Daemons : \A n \in Fds :
  IF dpc[d] \in Serving THEN sd2[d] \in Fds /\ (fds[d][n] \in Clients <=> n = sd2[d])
                        ELSE fds[d][n] \notin Clients

LEMMA NotAClient ==
  "closed" \notin Clients /\ "terminal" \notin Clients /\ "null" \notin Clients
    /\ "listener" \notin Clients
BY DaemonAssumption

LEMMA NoneOpened ==
  ASSUME NEW f \in [Fds -> What], NEW what \in What, what \notin Clients,
         \A n \in Fds : f[n] \notin Clients
  PROVE  /\ Open(f, what) \in [Fds -> What]
         /\ \A n \in Fds : Open(f, what)[n] \notin Clients
BY OpenTyped

LEMMA EndsHoldsNone ==
  ASSUME TypeOK, DescriptorInv, NEW d \in Daemons,
         NEW how \in {"ended", "in use", "crashed", "SIGPIPE", "killed"}, Ends(d, how)
  PROVE  DescriptorInv'
BY NotAClient DEF TypeOK, DescriptorInv, Ends, NothingOpen, Serving

LEMMA StepDescriptors == TypeOK /\ DescriptorInv /\ [Next]_vars => DescriptorInv'
<1> SUFFICES ASSUME TypeOK, DescriptorInv, [Next]_vars PROVE DescriptorInv'
  OBVIOUS
<1>0. /\ dpc \in [Daemons -> Places] /\ fds \in [Daemons -> [Fds -> What]]
      /\ sd2 \in [Daemons -> Fds \cup {None}] /\ queue \in [Daemons -> Seq(Clients)]
  BY DEF TypeOK
<1> USE DEF DescriptorInv, Serving, Goto
<1>1. ASSUME NEW d \in Daemons, DaemonStep(d) \/ Kill(d) PROVE DescriptorInv'
  <2>0. ASSUME UNCHANGED <<fds, sd2>>, NEW from, NEW to, Goto(d, from, to),
               from \in Serving <=> to \in Serving
        PROVE  DescriptorInv'
    BY <1>0, <2>0
  <2>1. CASE ReadConf(d)
    BY <2>0, <2>1 DEF ReadConf
  <2>2. CASE ForkFails(d)
    BY <2>2, EndsHoldsNone DEF ForkFails
  <2>3. CASE Daemonize(d)
    <3>1. CloseAll(fds[d]) \in [Fds -> What] /\ "null" \in What
      BY <1>0 DEF CloseAll, What
    <3>2. \A n \in Fds : CloseAll(fds[d])[n] \notin Clients
      BY <1>0, <2>3, NotAClient DEF CloseAll, Daemonize
    <3>3. \A n \in Fds : Reopened(CloseAll(fds[d]))[n] \notin Clients
      BY <3>1, <3>2, NoneOpened, NotAClient DEF Reopened
    <3> QED BY <1>0, <2>3, <3>3 DEF Daemonize
  <2>4. CASE Socket(d)
    <3>0. fds[d] \in [Fds -> What] /\ "listener" \in What /\ \A n \in Fds : fds[d][n] \notin Clients
      BY <1>0, <2>4 DEF What, Socket
    <3>1. \A n \in Fds : Open(fds[d], "listener")[n] \notin Clients
      BY <3>0, NoneOpened, NotAClient
    <3> QED BY <1>0, <2>4, <3>1 DEF Socket
  <2>5. CASE SocketFails(d)
    BY <2>5, EndsHoldsNone DEF SocketFails
  <2>6. CASE NoServerPath(d)
    BY <2>6, EndsHoldsNone DEF NoServerPath
  <2>7. CASE Unlink(d)
    BY <2>0, <2>7 DEF Unlink
  <2>8. CASE Bind(d)
    BY <2>0, <2>8 DEF Bind
  <2>9. CASE BindInUse(d)
    BY <2>9, EndsHoldsNone DEF BindInUse
  <2>10. CASE Listen(d)
    BY <2>0, <2>10 DEF Listen
  <2>11. CASE ListenFails(d)
    BY <2>11, EndsHoldsNone DEF ListenFails
  <2>12. CASE Accept(d)
    <3> DEFINE n == Lowest(fds[d])
               c == Head(queue[d])
    <3>1. c \in Clients
      BY <1>0, <2>12 DEF Accept
    <3>2. n \in Fds
      BY <1>0, <2>12, LowestIsFree DEF Accept
    <3>3. Open(fds[d], c) = [fds[d] EXCEPT ![n] = c]
      BY DEF Open
    <3>4. \A k \in Fds : fds[d][k] \notin Clients
      BY <1>0, <2>12 DEF Accept
    <3>5. /\ dpc' = [dpc EXCEPT ![d] = "stat"] /\ sd2' = [sd2 EXCEPT ![d] = n]
          /\ fds' = [fds EXCEPT ![d] = [fds[d] EXCEPT ![n] = c]]
      BY <2>12, <3>3 DEF Accept
    <3> HIDE DEF n, c
    <3> QED BY <1>0, <3>1, <3>2, <3>4, <3>5
  <2>13. CASE AcceptFails(d)
    BY <2>0, <2>13 DEF AcceptFails
  <2>14. CASE Stop(d)
    BY <2>14, EndsHoldsNone DEF Stop
  <2>15. CASE Stat(d)
    BY <2>0, <2>15 DEF Stat
  <2>16. CASE Send(d)
    BY <2>0, <2>16 DEF Send
  <2>17. CASE BrokenPipe(d)
    BY <2>17, EndsHoldsNone DEF BrokenPipe
  <2>18. CASE Close(d)
    BY <1>0, <2>18, NotAClient DEF Close
  <2>19. CASE Kill(d)
    BY <2>19, EndsHoldsNone DEF Kill
  <2>20. CASE UnlinkFails(d)
    BY <2>0, <2>20 DEF UnlinkFails
  <2>21. CASE BindFails(d)
    BY <2>21, EndsHoldsNone DEF BindFails
  <2>22. CASE SendFails(d)
    BY <2>0, <2>22 DEF SendFails
  <2> QED BY <1>1, <2>1, <2>2, <2>3, <2>4, <2>5, <2>6, <2>7, <2>8, <2>9, <2>10, <2>11, <2>12,
             <2>13, <2>14, <2>15, <2>16, <2>17, <2>18, <2>19, <2>20, <2>21, <2>22 DEF DaemonStep
<1>2. ASSUME UNCHANGED <<dpc, fds, sd2>> PROVE DescriptorInv'
  BY <1>2
<1>3. ASSUME NEW c \in Clients, ClientStep(c) \/ Quit(c) PROVE UNCHANGED <<dpc, fds, sd2>>
  BY <1>3 DEF ClientStep, Connect, Refused, Receive, Quit, daemon
<1>4. Change \/ Waits \/ UNCHANGED vars => UNCHANGED <<dpc, fds, sd2>>
  BY DEF Change, Waits, vars, daemon
<1> QED BY <1>1, <1>2, <1>3, <1>4 DEF Next

\* A daemon that waits in accept() has closed every connection it served
\* (line 380 of daemon-filesize.c), so that descriptors never run out by serving.
THEOREM DescriptorsAreGivenBack == Spec => []DescriptorsGivenBack
<1>1. Init => DescriptorInv
  BY NotAClient DEF Init, DescriptorInv, Inherited, Serving
<1>2. TypeOK /\ DescriptorInv => DescriptorsGivenBack
  <2> SUFFICES ASSUME TypeOK, DescriptorInv, NEW d \in Daemons, dpc[d] = "accept",
                      NEW n \in DOMAIN fds[d]
               PROVE  fds[d][n] \notin Clients
    BY DEF DescriptorsGivenBack, Range
  <2>1. n \in Fds
    BY DEF TypeOK
  <2> QED BY <2>1 DEF DescriptorInv, Serving
<1> QED BY <1>1, <1>2, InitTyped, StepTyped, StepDescriptors, PTL DEF Spec

-----------------------------------------------------------------------------
(* The socket file *)

\* A daemon finds the file there when it could not unlink it, or another one bound
\* the socket since.
BindInv == \A d \in Daemons :
  dpc[d] = "in use" \/ (dpc[d] = "bind" /\ path # None) => raced[d] \/ kept[d]

LEMMA StepBind == TypeOK /\ BindInv /\ [Next]_vars => BindInv'
<1> SUFFICES ASSUME TypeOK, BindInv, [Next]_vars PROVE BindInv'
  OBVIOUS
<1>0. /\ dpc \in [Daemons -> Places] /\ raced \in [Daemons -> BOOLEAN]
      /\ kept \in [Daemons -> BOOLEAN]
  BY DEF TypeOK
<1> USE <1>0 DEF BindInv, Goto, history
<1>1. ASSUME NEW d \in Daemons, NEW how \in {"ended", "crashed", "SIGPIPE", "killed"},
             Ends(d, how), path' \in {path, None}
      PROVE  BindInv'
  BY <1>1 DEF Ends
<1>2. ASSUME UNCHANGED <<path, history>>, NEW d \in Daemons, NEW from, NEW to, Goto(d, from, to),
             to \notin {"bind", "in use"}
      PROVE  BindInv'
  BY <1>2
<1>3. ASSUME NEW d \in Daemons, DaemonStep(d) \/ Kill(d) PROVE BindInv'
  <2>1. CASE ForkFails(d) \/ SocketFails(d) \/ NoServerPath(d) \/ ListenFails(d) \/ Stop(d)
               \/ BindFails(d) \/ BrokenPipe(d) \/ Kill(d)
    BY <1>1, <2>1
    DEF ForkFails, SocketFails, NoServerPath, ListenFails, Stop, BindFails, BrokenPipe, Kill
  <2>2. CASE ReadConf(d)
    BY <1>2, <2>2 DEF ReadConf
  <2>3. CASE Daemonize(d) \/ Socket(d) \/ Listen(d) \/ Accept(d) \/ AcceptFails(d)
               \/ Stat(d) \/ Send(d) \/ SendFails(d) \/ Close(d)
    BY <1>2, <2>3 DEF Daemonize, Socket, Listen, Accept, AcceptFails, Stat, Send, SendFails, Close
  <2>4. CASE Unlink(d)
    BY <2>4 DEF Unlink
  <2>5. CASE Bind(d)
    BY <2>5 DEF Bind
  <2>6. CASE BindInUse(d)
    BY <2>6 DEF BindInUse, Ends
  <2>7. CASE UnlinkFails(d)
    BY <2>7 DEF UnlinkFails
  <2> QED BY <1>3, <2>1, <2>2, <2>3, <2>4, <2>5, <2>6, <2>7 DEF DaemonStep
<1>4. ASSUME NEW c \in Clients, ClientStep(c) \/ Quit(c) PROVE UNCHANGED <<dpc, path, history>>
  BY <1>4 DEF ClientStep, Connect, Refused, Receive, Quit, daemon
<1>5. Change \/ Waits \/ UNCHANGED vars => UNCHANGED <<dpc, path, history>>
  BY DEF Change, Waits, vars, daemon
<1>6. UNCHANGED <<dpc, path, history>> => BindInv'
  OBVIOUS
<1> QED BY <1>3, <1>4, <1>5, <1>6 DEF Next

\* bind() (line 323 of daemon-filesize.c) finds its address in use because of the
\* file that an earlier daemon left only when the unlink() of line 321, whose result
\* is not looked at, has failed; otherwise another daemon has bound it since.
THEOREM StaleFilesAreNoObstacle == Spec => []StaleFileIsNoObstacle
<1>1. Init => BindInv
  BY DEF Init, BindInv
<1>2. BindInv => StaleFileIsNoObstacle
  BY DEF BindInv, StaleFileIsNoObstacle
<1> QED BY <1>1, <1>2, InitTyped, StepTyped, StepBind, PTL DEF Spec

-----------------------------------------------------------------------------
(* Who is held by whom *)

Served(c, d) == dpc[d] \in Serving /\ Peer(d) = c

\* A client is held by one daemon at most, in one place of its queue or as the
\* one that it serves.
OnceInv ==
  /\ \A d \in Daemons : \A k, j \in 1 .. Len(queue[d]) : queue[d][k] = queue[d][j] => k = j
  /\ \A c \in Clients, d, e \in Daemons :
       /\ Queued(c, d) /\ Queued(c, e) => d = e
       /\ Served(c, d) /\ Served(c, e) => d = e
       /\ ~(Queued(c, d) /\ Served(c, e))

\* Who has not connected is held by nobody and has no answer; who is held has
\* one only when it is served and send() has returned.
SentInv ==
  /\ \A c \in Clients : cpc[c] = "off" => received[c] = None
  /\ \A c \in Clients, d \in Daemons :
       /\ Queued(c, d) => cpc[c] # "off" /\ received[c] = None
       /\ Served(c, d) => /\ cpc[c] # "off"
                          /\ dpc[d] # "close" => received[c] = None
  /\ \A d \in Daemons : dpc[d] = "send" => buf[d] # None

ServeInv == TypeOK /\ DescriptorInv /\ OnceInv /\ SentInv

LEMMA SizeIsAnAnswer == TypeOK => size # None
<1>1. None \notin Int /\ Sizes \subseteq Int /\ Missing \in Int
  BY DaemonAssumption DEF Missing
<1> QED BY <1>1 DEF TypeOK

LEMMA InitServes == Init => ServeInv
<1> SUFFICES ASSUME Init PROVE ServeInv
  OBVIOUS
<1>1. TypeOK /\ DescriptorInv
  BY InitTyped, NotAClient DEF Init, DescriptorInv, Inherited, Serving
<1>2. \A c \in Clients, d \in Daemons : ~Queued(c, d) /\ ~Served(c, d)
  BY QueueEmpty DEF Init, Queued, Served, Serving
<1>3. \A d \in Daemons : Len(queue[d]) = 0
  BY QueueEmpty DEF Init
<1> QED BY <1>1, <1>2, <1>3 DEF Init, ServeInv, OnceInv, SentInv

LEMMA PeerIsAClient ==
  ASSUME TypeOK, DescriptorInv, NEW d \in Daemons, dpc[d] \in Serving
  PROVE  sd2[d] \in Fds /\ Peer(d) \in Clients
<1>1. 0 \in Fds
  BY DaemonAssumption DEF Fds
<1>2. sd2[d] \in Fds
  BY <1>1 DEF DescriptorInv
<1> QED BY <1>2 DEF DescriptorInv, Peer

\* What the others have stays as it is.
Others(d) == \A e \in Daemons \ {d} :
  /\ dpc'[e] = dpc[e] /\ fds'[e] = fds[e] /\ sd2'[e] = sd2[e]
  /\ queue'[e] = queue[e] /\ buf'[e] = buf[e]

LEMMA OthersHold ==
  ASSUME NEW d \in Daemons, Others(d)
  PROVE  \A c, e : e \in Daemons \ {d} => /\ Queued(c, e)' <=> Queued(c, e)
                                          /\ Served(c, e)' <=> Served(c, e)
BY DEF Others, Queued, Served, Peer

\* A step of a daemon that serves nobody.
Quiet(d) ==
  /\ UNCHANGED <<world, client, queue, buf>> /\ Others(d)
  /\ dpc[d] \notin Serving /\ dpc'[d] \notin Serving /\ ~Over(d) /\ ~Over(d)'

LEMMA QuietSteps ==
  ASSUME TypeOK, NEW d \in Daemons,
         \/ ReadConf(d) \/ Daemonize(d) \/ Socket(d) \/ Unlink(d) \/ UnlinkFails(d) \/ Bind(d)
         \/ Listen(d) \/ AcceptFails(d)
  PROVE  Quiet(d)
<1>1. /\ dpc \in [Daemons -> Places] /\ fds \in [Daemons -> [Fds -> What]]
      /\ daemonized \in [Daemons -> BOOLEAN]
  BY DEF TypeOK
<1> USE <1>1 DEF Quiet, Goto, Others, Serving, Over
<1>2. CASE ReadConf(d)
  BY <1>2 DEF ReadConf
<1>3. CASE Daemonize(d)
  BY <1>3 DEF Daemonize
<1>4. CASE Socket(d)
  BY <1>4 DEF Socket
<1>5. CASE Unlink(d) \/ UnlinkFails(d) \/ Bind(d) \/ Listen(d) \/ AcceptFails(d)
  BY <1>5 DEF Unlink, UnlinkFails, Bind, Listen, AcceptFails
<1> QED BY <1>2, <1>3, <1>4, <1>5

LEMMA QuietHolds ==
  ASSUME NEW d \in Daemons, Quiet(d)
  PROVE  \A c, e : e \in Daemons => /\ Queued(c, e)' <=> Queued(c, e)
                                    /\ Served(c, e)' <=> Served(c, e)
<1>1. \A c : Queued(c, d)' <=> Queued(c, d)
  BY DEF Quiet, Queued
<1>2. \A c : ~Served(c, d)' /\ ~Served(c, d)
  BY DEF Quiet, Served
<1> QED BY <1>1, <1>2, OthersHold DEF Quiet

Ending == {"ended", "in use", "crashed", "SIGPIPE", "killed"}

LEMMA EndSteps ==
  ASSUME NEW d \in Daemons,
         \/ ForkFails(d) \/ SocketFails(d) \/ NoServerPath(d) \/ ListenFails(d) \/ Stop(d)
         \/ BrokenPipe(d) \/ Kill(d) \/ BindInUse(d) \/ BindFails(d)
  PROVE  ~Over(d) /\ \E how \in Ending : Ends(d, how)
BY DEF ForkFails, SocketFails, NoServerPath, ListenFails, Stop, BrokenPipe, Kill, BindInUse,
       BindFails, Over, Ending

LEMMA EndsHold ==
  ASSUME TypeOK, NEW d \in Daemons, NEW how \in Ending, Ends(d, how)
  PROVE  /\ UNCHANGED <<world, client>> /\ Others(d) /\ Over(d)' /\ dpc'[d] \notin Serving
         /\ Len(queue'[d]) = 0
         /\ \A c, e : e \in Daemons => /\ Queued(c, e)' <=> e # d /\ Queued(c, e)
                                       /\ Served(c, e)' <=> e # d /\ Served(c, e)
<1>1. /\ dpc \in [Daemons -> Places] /\ fds \in [Daemons -> [Fds -> What]]
      /\ sd2 \in [Daemons -> Fds \cup {None}] /\ queue \in [Daemons -> Seq(Clients)]
      /\ buf \in [Daemons -> Sizes \cup {Missing, None}]
  BY DEF TypeOK
<1>2. UNCHANGED <<world, client>> /\ Others(d)
  BY <1>1 DEF Ends, Others
<1>3. dpc'[d] = how /\ queue'[d] = << >>
  BY <1>1 DEF Ends
<1>4. Over(d)' /\ dpc'[d] \notin Serving
  BY <1>3 DEF Ending, Over, Serving
<1>5. Len(queue'[d]) = 0
  BY <1>3, QueueEmpty
<1>6. \A c : ~Queued(c, d)' /\ ~Served(c, d)'
  BY <1>4, <1>5 DEF Queued, Served
<1> QED BY <1>2, <1>4, <1>5, <1>6, OthersHold

LEMMA AcceptHolds ==
  ASSUME ServeInv, NEW d \in Daemons, Accept(d)
  PROVE  /\ UNCHANGED <<world, client, buf>> /\ Others(d)
         /\ dpc[d] = "accept" /\ dpc'[d] = "stat" /\ Head(queue[d]) \in Clients
         /\ Queued(Head(queue[d]), d)
         /\ \A c, e : e \in Daemons =>
              /\ Queued(c, e)' <=> Queued(c, e) /\ ~(e = d /\ c = Head(queue[d]))
              /\ Served(c, e)' <=> Served(c, e) \/ (e = d /\ c = Head(queue[d]))
         /\ \A k, j \in 1 .. Len(queue'[d]) : queue'[d][k] = queue'[d][j] => k = j
<1> DEFINE h == Head(queue[d])
           n == Lowest(fds[d])
<1>1. /\ dpc \in [Daemons -> Places] /\ fds \in [Daemons -> [Fds -> What]]
      /\ sd2 \in [Daemons -> Fds \cup {None}] /\ queue \in [Daemons -> Seq(Clients)]
      /\ buf \in [Daemons -> Sizes \cup {Missing, None}] /\ Len(queue[d]) <= Backlog + 1
  BY DEF ServeInv, TypeOK
<1>2. /\ UNCHANGED <<world, client, buf>> /\ Others(d)
      /\ dpc[d] = "accept" /\ dpc'[d] = "stat" /\ queue[d] # << >> /\ Free(fds[d]) # {}
      /\ sd2'[d] = n /\ queue'[d] = Tail(queue[d]) /\ fds'[d] = Open(fds[d], h)
  BY <1>1 DEF Accept, Goto, Others
<1>3. /\ h \in Clients /\ h = queue[d][1] /\ 1 \in 1 .. Len(queue[d])
      /\ Len(queue[d]) \in Nat /\ Len(Tail(queue[d])) = Len(queue[d]) - 1
      /\ \A k \in 1 .. Len(Tail(queue[d])) : Tail(queue[d])[k] = queue[d][k + 1]
  <2>1. queue[d] \in Seq(Clients) /\ queue[d] # << >> /\ Len(queue[d]) \in Nat
    BY <1>1, <1>2
  <2>2. h \in Clients /\ h = queue[d][1] /\ 1 \in 1 .. Len(queue[d])
    BY <1>1, <2>1, QueueShrinks
  <2>3. /\ Len(Tail(queue[d])) = Len(queue[d]) - 1
        /\ \A k \in 1 .. Len(Tail(queue[d])) : Tail(queue[d])[k] = queue[d][k + 1]
    BY <2>1, HeadTailProperties
  <2> QED BY <2>1, <2>2, <2>3
<1>4. n \in Fds /\ fds'[d][n] = h
  <2>1. fds[d] \in [Fds -> What] /\ n \in Fds
    BY <1>1, <1>2, LowestIsFree
  <2> QED BY <1>2, <2>1 DEF Open
<1> HIDE DEF h, n
<1>5. \A c : Served(c, d)' <=> c = h
  BY <1>2, <1>4 DEF Served, Serving, Peer
<1>6. \A c : ~Served(c, d)
  BY <1>2 DEF Served, Serving
<1>7. \A k, j \in 1 .. Len(queue[d]) : queue[d][k] = queue[d][j] => k = j
  BY DEF ServeInv, OnceInv
<1>8. \A k \in 1 .. Len(queue'[d]) : k + 1 \in 1 .. Len(queue[d]) /\ queue'[d][k] = queue[d][k + 1]
  BY <1>2, <1>3
<1>9. \A c : Queued(c, d)' <=> Queued(c, d) /\ c # h
  <2> SUFFICES ASSUME NEW c PROVE Queued(c, d)' <=> Queued(c, d) /\ c # h
    OBVIOUS
  <2>1. ASSUME Queued(c, d)' PROVE Queued(c, d) /\ c # h
    <3>1. PICK k \in 1 .. Len(queue'[d]) : queue'[d][k] = c
      BY <2>1 DEF Queued
    <3>2. k + 1 \in 1 .. Len(queue[d]) /\ queue[d][k + 1] = c /\ k + 1 # 1
      BY <1>8, <3>1
    <3> QED BY <1>3, <1>7, <3>2 DEF Queued
  <2>2. ASSUME Queued(c, d), c # h PROVE Queued(c, d)'
    <3>1. PICK k \in 1 .. Len(queue[d]) : queue[d][k] = c
      BY <2>2 DEF Queued
    <3>2. k # 1 /\ k - 1 \in 1 .. Len(queue'[d]) /\ (k - 1) + 1 = k
      BY <1>2, <1>3, <2>2, <3>1
    <3>3. queue'[d][k - 1] = c
      BY <1>8, <3>1, <3>2
    <3> QED BY <3>2, <3>3 DEF Queued
  <2> QED BY <2>1, <2>2
<1>10. \A k, j \in 1 .. Len(queue'[d]) : queue'[d][k] = queue'[d][j] => k = j
  <2> SUFFICES ASSUME NEW k \in 1 .. Len(queue'[d]), NEW j \in 1 .. Len(queue'[d]),
                      queue'[d][k] = queue'[d][j]
               PROVE  k = j
    OBVIOUS
  <2>1. k + 1 = j + 1
    BY <1>7, <1>8
  <2>2. k \in Int /\ j \in Int
    OBVIOUS
  <2> QED BY <2>1, <2>2
<1>11. Queued(h, d)
  BY <1>3 DEF Queued
<1> QED BY <1>2, <1>3, <1>5, <1>6, <1>9, <1>10, <1>11, OthersHold DEF h

LEMMA ServingSteps ==
  ASSUME TypeOK, NEW d \in Daemons, Stat(d) \/ Send(d) \/ SendFails(d) \/ Close(d)
  PROVE  /\ UNCHANGED <<world, queue, cpc, printed>> /\ Others(d) /\ dpc[d] \in Serving
         /\ Stat(d) => /\ UNCHANGED <<received, fds, sd2>> /\ dpc[d] = "stat" /\ dpc'[d] = "send"
                       /\ buf'[d] = size
         /\ Send(d) => /\ UNCHANGED <<buf, fds, sd2>> /\ dpc[d] = "send" /\ dpc'[d] = "close"
                       /\ cpc[Peer(d)] = "recv" /\ received' = [received EXCEPT ![Peer(d)] = buf[d]]
         /\ SendFails(d) => /\ UNCHANGED <<received, buf, fds, sd2>>
                            /\ dpc[d] = "send" /\ dpc'[d] = "close"
         /\ Close(d) => UNCHANGED <<received, buf>> /\ dpc[d] = "close" /\ dpc'[d] = "accept"
<1>1. /\ dpc \in [Daemons -> Places] /\ fds \in [Daemons -> [Fds -> What]]
      /\ sd2 \in [Daemons -> Fds \cup {None}] /\ buf \in [Daemons -> Sizes \cup {Missing, None}]
  BY DEF TypeOK
<1> USE <1>1 DEF Goto, Others, Serving, client
<1>2. CASE Stat(d)
  <2>1. /\ UNCHANGED <<world, queue, client, fds, sd2>> /\ dpc[d] = "stat"
        /\ dpc' = [dpc EXCEPT ![d] = "send"] /\ buf' = [buf EXCEPT ![d] = size]
    BY <1>2 DEF Stat
  <2> QED BY <2>1 DEF Send, SendFails, Close
<1>3. CASE Send(d)
  <2>1. /\ UNCHANGED <<world, queue, cpc, printed, buf, fds, sd2>> /\ dpc[d] = "send"
        /\ dpc' = [dpc EXCEPT ![d] = "close"] /\ cpc[Peer(d)] = "recv"
        /\ received' = [received EXCEPT ![Peer(d)] = buf[d]]
    BY <1>3 DEF Send
  <2> QED BY <2>1 DEF Stat, SendFails, Close
<1>4. CASE Close(d)
  <2>1. /\ UNCHANGED <<world, queue, client, buf>> /\ dpc[d] = "close"
        /\ dpc' = [dpc EXCEPT ![d] = "accept"]
        /\ fds' = [fds EXCEPT ![d] = [@ EXCEPT ![sd2[d]] = "closed"]]
        /\ sd2' = [sd2 EXCEPT ![d] = None]
    BY <1>4 DEF Close
  <2> QED BY <2>1 DEF Stat, Send, SendFails
<1>5. CASE SendFails(d)
  <2>1. /\ UNCHANGED <<world, queue, cpc, received, printed, buf, fds, sd2>> /\ dpc[d] = "send"
        /\ dpc' = [dpc EXCEPT ![d] = "close"]
    BY <1>5 DEF SendFails
  <2> QED BY <1>5, <2>1 DEF Stat, Send, Close
<1> QED BY <1>2, <1>3, <1>4, <1>5

LEMMA ConnectHolds ==
  ASSUME ServeInv, NEW c \in Clients, Connect(c)
  PROVE  /\ UNCHANGED <<size, dpc, buf, received, printed>>
         /\ path \in Daemons /\ ~Over(path) /\ cpc[c] = "off" /\ received[c] = None
         /\ cpc' = [cpc EXCEPT ![c] = "recv"]
         /\ \A b, e : e \in Daemons =>
              /\ Queued(b, e)' <=> Queued(b, e) \/ (b = c /\ e = path)
              /\ Served(b, e)' <=> Served(b, e)
         /\ \A d \in Daemons : \A k, j \in 1 .. Len(queue'[d]) :
              queue'[d][k] = queue'[d][j] => k = j
<1>1. /\ UNCHANGED <<size, dpc, fds, sd2, buf, received, printed>>
      /\ cpc[c] = "off" /\ cpc' = [cpc EXCEPT ![c] = "recv"] /\ path # None /\ Listening(path)
      /\ queue' = [queue EXCEPT ![path] = Append(@, c)]
      /\ path \in Daemons /\ queue \in [Daemons -> Seq(Clients)]
  BY DEF Connect, CGoto, ServeInv, TypeOK, world
<1>2. ~Over(path) /\ received[c] = None
  BY <1>1 DEF Listening, Loop, Over, ServeInv, SentInv
<1> DEFINE q == queue[path]
<1>3. /\ q \in Seq(Clients) /\ Len(q) \in Nat
      /\ queue'[path] = Append(q, c) /\ \A e \in Daemons : e # path => queue'[e] = queue[e]
  BY <1>1
<1>4. /\ Len(Append(q, c)) = Len(q) + 1 /\ Append(q, c)[Len(q) + 1] = c
      /\ \A k \in 1 .. Len(q) : Append(q, c)[k] = q[k]
  BY <1>3, AppendProperties
<1>5. \A k \in 1 .. Len(q) : q[k] # c
  BY <1>1 DEF ServeInv, SentInv, Queued
<1>6. \A k, j \in 1 .. Len(q) : q[k] = q[j] => k = j
  BY <1>1 DEF ServeInv, OnceInv
<1>7. \A b : (\E k \in 1 .. Len(Append(q, c)) : Append(q, c)[k] = b)
               <=> (\E k \in 1 .. Len(q) : q[k] = b) \/ b = c
  BY <1>3, <1>4
<1>8. \A k, j \in 1 .. Len(Append(q, c)) : Append(q, c)[k] = Append(q, c)[j] => k = j
  BY <1>3, <1>4, <1>5, <1>6
<1>9. \A b, e : e \in Daemons => /\ Queued(b, e)' <=> Queued(b, e) \/ (b = c /\ e = path)
                                 /\ Served(b, e)' <=> Served(b, e)
  <2> SUFFICES ASSUME NEW b, NEW e \in Daemons
               PROVE  /\ Queued(b, e)' <=> Queued(b, e) \/ (b = c /\ e = path)
                      /\ Served(b, e)' <=> Served(b, e)
    OBVIOUS
  <2>1. Served(b, e)' <=> Served(b, e)
    BY <1>1 DEF Served, Peer
  <2>2. CASE e = path
    BY <1>3, <1>7, <2>1, <2>2 DEF Queued
  <2>3. CASE e # path
    BY <1>3, <2>1, <2>3 DEF Queued
  <2> QED BY <2>2, <2>3
<1>10. ASSUME NEW d \in Daemons
       PROVE  \A k, j \in 1 .. Len(queue'[d]) : queue'[d][k] = queue'[d][j] => k = j
  <2>1. CASE d = path
    BY <1>3, <1>8, <2>1
  <2>2. CASE d # path
    <3>1. queue'[d] = queue[d]
      BY <1>3, <2>2
    <3> QED BY <3>1 DEF ServeInv, OnceInv
  <2> QED BY <2>1, <2>2
<1> QED BY <1>1, <1>2, <1>9, <1>10

LEMMA ClientSteps ==
  ASSUME NEW c \in Clients, Refused(c) \/ Receive(c) \/ Quit(c)
  PROVE  /\ UNCHANGED <<world, path, daemon, received>>
         /\ \E to \in {"refused", "printed", "gone"} : cpc' = [cpc EXCEPT ![c] = to]
BY DEF Refused, Receive, Quit, CGoto

LEMMA StepServes == ServeInv /\ [Next]_vars => ServeInv'
<1> SUFFICES ASSUME ServeInv, [Next]_vars PROVE OnceInv' /\ SentInv'
  BY StepTyped, StepDescriptors DEF ServeInv
<1>0. /\ TypeOK /\ DescriptorInv /\ OnceInv /\ SentInv
      /\ DOMAIN cpc = Clients /\ received \in [Clients -> Sizes \cup {Missing, None}]
  BY DEF ServeInv, TypeOK
<1>1. ASSUME NEW d \in Daemons, DaemonStep(d) \/ Kill(d) PROVE OnceInv' /\ SentInv'
  <2>1. ASSUME NEW how \in Ending, Ends(d, how) PROVE OnceInv' /\ SentInv'
    <3>1. /\ UNCHANGED <<world, client>> /\ Others(d) /\ dpc'[d] \notin Serving
          /\ Len(queue'[d]) = 0
          /\ \A c, e : e \in Daemons => /\ Queued(c, e)' <=> e # d /\ Queued(c, e)
                                        /\ Served(c, e)' <=> e # d /\ Served(c, e)
      BY <1>0, <2>1, EndsHold
    <3>2. OnceInv'
      BY <1>0, <3>1 DEF OnceInv, Others
    <3>3. SentInv'
      BY <1>0, <3>1 DEF SentInv, Others, client, Serving
    <3> QED BY <3>2, <3>3
  <2>2. CASE ForkFails(d) \/ SocketFails(d) \/ NoServerPath(d) \/ ListenFails(d) \/ Stop(d)
               \/ BrokenPipe(d) \/ Kill(d) \/ BindInUse(d) \/ BindFails(d)
    BY <2>1, <2>2, EndSteps
  <2>3. CASE ReadConf(d) \/ Daemonize(d) \/ Socket(d) \/ Unlink(d) \/ UnlinkFails(d) \/ Bind(d)
               \/ Listen(d) \/ AcceptFails(d)
    <3>1. Quiet(d)
      BY <1>0, <2>3, QuietSteps
    <3>2. \A c, e : e \in Daemons => /\ Queued(c, e)' <=> Queued(c, e)
                                     /\ Served(c, e)' <=> Served(c, e)
      BY <3>1, QuietHolds
    <3>3. OnceInv'
      BY <1>0, <3>1, <3>2 DEF OnceInv, Quiet
    <3>4. \A e \in Daemons : dpc'[e] \in Serving => dpc'[e] = dpc[e]
      BY <3>1 DEF Quiet, Others
    <3>5. SentInv'
      <4>1. \A c \in Clients, e \in Daemons : Served(c, e)' => dpc'[e] = dpc[e]
        BY <3>4 DEF Served
      <4> QED BY <1>0, <3>1, <3>2, <3>4, <4>1 DEF SentInv, Quiet, client, Serving
    <3> QED BY <3>3, <3>5
  <2>4. CASE Accept(d)
    <3> DEFINE h == Head(queue[d])
    <3>1. /\ UNCHANGED <<world, client, buf>> /\ Others(d)
          /\ dpc[d] = "accept" /\ dpc'[d] = "stat" /\ h \in Clients /\ Queued(h, d)
          /\ \A c, e : e \in Daemons => /\ Queued(c, e)' <=> Queued(c, e) /\ ~(e = d /\ c = h)
                                        /\ Served(c, e)' <=> Served(c, e) \/ (e = d /\ c = h)
          /\ \A k, j \in 1 .. Len(queue'[d]) : queue'[d][k] = queue'[d][j] => k = j
      BY <2>4, AcceptHolds
    <3> HIDE DEF h
    <3>2. \A c : ~Served(c, d)
      BY <3>1 DEF Served, Serving
    <3>3. OnceInv'
      <4>1. \A e \in Daemons : \A k, j \in 1 .. Len(queue'[e]) : queue'[e][k] = queue'[e][j] => k = j
        BY <1>0, <3>1 DEF OnceInv, Others
      <4>2. ASSUME NEW c \in Clients, NEW e \in Daemons, NEW f \in Daemons
            PROVE  /\ Queued(c, e)' /\ Queued(c, f)' => e = f
                   /\ Served(c, e)' /\ Served(c, f)' => e = f
                   /\ ~(Queued(c, e)' /\ Served(c, f)')
        BY <1>0, <3>1, <3>2 DEF OnceInv
      <4> QED BY <4>1, <4>2 DEF OnceInv
    <3>4. SentInv'
      <4>1. \A e \in Daemons : e # d => dpc'[e] = dpc[e]
        BY <3>1 DEF Others
      <4>2. ASSUME NEW c \in Clients, NEW e \in Daemons, Served(c, e)'
            PROVE  /\ cpc[c] # "off"
                   /\ dpc'[e] # "close" => received[c] = None
        BY <1>0, <3>1, <3>2, <4>1, <4>2 DEF SentInv
      <4>3. \A e \in Daemons : dpc'[e] = "send" => buf'[e] # None
        BY <1>0, <3>1, <4>1 DEF SentInv
      <4> QED BY <1>0, <3>1, <4>2, <4>3 DEF SentInv, client
    <3> QED BY <3>3, <3>4
  <2>5. CASE Stat(d) \/ Send(d) \/ SendFails(d) \/ Close(d)
    <3>1. /\ UNCHANGED <<world, queue, cpc, printed>> /\ Others(d) /\ dpc[d] \in Serving
          /\ Stat(d) => /\ UNCHANGED <<received, fds, sd2>> /\ dpc[d] = "stat" /\ dpc'[d] = "send"
                        /\ buf'[d] = size
          /\ Send(d) => /\ UNCHANGED <<buf, fds, sd2>> /\ dpc[d] = "send" /\ dpc'[d] = "close"
                        /\ received' = [received EXCEPT ![Peer(d)] = buf[d]]
          /\ SendFails(d) => /\ UNCHANGED <<received, buf, fds, sd2>>
                             /\ dpc[d] = "send" /\ dpc'[d] = "close"
          /\ Close(d) => UNCHANGED <<received, buf>> /\ dpc[d] = "close" /\ dpc'[d] = "accept"
      BY <1>0, <2>5, ServingSteps
    <3>2. Peer(d) \in Clients /\ Served(Peer(d), d) /\ \A c : Served(c, d) => c = Peer(d)
      BY <1>0, <3>1, PeerIsAClient DEF Served
    <3>3. \A c, e : Queued(c, e)' <=> Queued(c, e)
      BY <3>1 DEF Queued
    <3>4. \A c, e : e \in Daemons => (Served(c, e)' => Served(c, e))
      <4>1. \A c : Served(c, d)' => Served(c, d)
        BY <2>5, <3>1 DEF Served, Peer, Serving
      <4> QED BY <3>1, <4>1, OthersHold
    <3>5. OnceInv'
      BY <1>0, <3>1, <3>3, <3>4 DEF OnceInv
    <3>6. \A e \in Daemons : e # d => dpc'[e] = dpc[e] /\ buf'[e] = buf[e]
      BY <3>1 DEF Others
    <3>7. CASE Stat(d)
      <4>1. \A c, e : e \in Daemons => (Served(c, e)' => (dpc'[e] = "close" <=> dpc[e] = "close"))
        BY <3>1, <3>6, <3>7
      <4>2. \A e \in Daemons : dpc'[e] = "send" => buf'[e] # None
        BY <1>0, <3>1, <3>6, <3>7, SizeIsAnAnswer DEF SentInv
      <4> QED BY <1>0, <3>1, <3>3, <3>4, <3>5, <3>7, <4>1, <4>2 DEF SentInv
    <3>8. CASE Send(d)
      <4>1. buf[d] # None
        BY <1>0, <3>1, <3>8 DEF SentInv
      <4>2. received'[Peer(d)] = buf[d] /\ \A c \in Clients : c # Peer(d) => received'[c] = received[c]
        BY <1>0, <3>1, <3>2, <3>8
      <4>3. \A e \in Daemons : ~Queued(Peer(d), e) /\ (Served(Peer(d), e) => e = d)
        BY <1>0, <3>2 DEF OnceInv
      <4>4. ASSUME NEW c \in Clients, NEW e \in Daemons, Served(c, e)'
            PROVE  /\ cpc[c] # "off"
                   /\ dpc'[e] # "close" => received'[c] = None
        <5>1. CASE e = d
          BY <1>0, <3>1, <3>2, <3>4, <3>8, <4>1, <4>2, <4>4, <5>1 DEF SentInv
        <5>2. CASE e # d
          BY <1>0, <3>4, <3>6, <4>2, <4>3, <4>4, <5>2 DEF SentInv
        <5> QED BY <5>1, <5>2
      <4>5. \A e \in Daemons : dpc'[e] = "send" => buf'[e] # None
        BY <1>0, <3>1, <3>6, <3>8 DEF SentInv
      <4>6. \A c \in Clients : cpc[c] = "off" => received'[c] = None
        BY <1>0, <3>2, <4>2 DEF SentInv
      <4>7. \A c \in Clients, e \in Daemons : Queued(c, e) => cpc[c] # "off" /\ received'[c] = None
        BY <1>0, <4>2, <4>3 DEF SentInv
      <4> QED BY <3>1, <3>3, <3>5, <4>4, <4>5, <4>6, <4>7 DEF SentInv
    <3>9. CASE Close(d)
      <4>1. \A c : ~Served(c, d)'
        BY <3>1, <3>9 DEF Served, Serving
      <4>2. \A e \in Daemons : dpc'[e] = "send" => buf'[e] # None
        BY <1>0, <3>1, <3>6, <3>9 DEF SentInv
      <4> QED BY <1>0, <3>1, <3>3, <3>4, <3>5, <3>6, <3>9, <4>1, <4>2 DEF SentInv
    <3>10. CASE SendFails(d)
      <4>1. \A e \in Daemons : dpc'[e] # "close" => dpc'[e] = dpc[e] /\ buf'[e] = buf[e]
        BY <3>1, <3>6, <3>10
      <4> QED BY <1>0, <3>1, <3>3, <3>4, <3>5, <3>10, <4>1 DEF SentInv
    <3> QED BY <2>5, <3>7, <3>8, <3>9, <3>10
  <2> QED BY <1>1, <2>2, <2>3, <2>4, <2>5 DEF DaemonStep
<1>2. ASSUME NEW c \in Clients, ClientStep(c) \/ Quit(c) PROVE OnceInv' /\ SentInv'
  <2>1. CASE Connect(c)
    <3>1. /\ UNCHANGED <<size, dpc, buf, received, printed>>
          /\ path \in Daemons /\ cpc[c] = "off" /\ received[c] = None
          /\ cpc' = [cpc EXCEPT ![c] = "recv"]
          /\ \A b, e : e \in Daemons => /\ Queued(b, e)' <=> Queued(b, e) \/ (b = c /\ e = path)
                                        /\ Served(b, e)' <=> Served(b, e)
          /\ \A d \in Daemons : \A k, j \in 1 .. Len(queue'[d]) :
               queue'[d][k] = queue'[d][j] => k = j
      BY <2>1, ConnectHolds
    <3>2. cpc'[c] = "recv" /\ \A b \in Clients : b # c => cpc'[b] = cpc[b]
      BY <1>0, <3>1
    <3>3. \A e \in Daemons : ~Queued(c, e) /\ ~Served(c, e)
      BY <1>0, <3>1 DEF SentInv
    <3>4. OnceInv'
      BY <1>0, <3>1, <3>3 DEF OnceInv
    <3>5. SentInv'
      <4>1. ASSUME NEW b \in Clients, NEW e \in Daemons
            PROVE  /\ cpc'[b] = "off" => received'[b] = None
                   /\ Queued(b, e)' => cpc'[b] # "off" /\ received'[b] = None
                   /\ Served(b, e)' => /\ cpc'[b] # "off"
                                       /\ dpc'[e] # "close" => received'[b] = None
        BY <1>0, <3>1, <3>2, <3>3 DEF SentInv
      <4> QED BY <1>0, <3>1, <3>2, <4>1 DEF SentInv
    <3> QED BY <3>4, <3>5
  <2>2. CASE Refused(c) \/ Receive(c) \/ Quit(c)
    <3>1. PICK to \in {"refused", "printed", "gone"} : cpc' = [cpc EXCEPT ![c] = to]
      BY <2>2, ClientSteps
    <3>2. UNCHANGED <<dpc, fds, sd2, queue, buf, received>>
      BY <2>2, ClientSteps DEF daemon
    <3>3. \A b \in Clients : cpc'[b] = "off" => cpc[b] = "off"
      BY <1>0, <3>1
    <3>4. \A b \in Clients : cpc[b] # "off" => cpc'[b] # "off"
      BY <1>0, <3>1
    <3>5. \A b, e : (Queued(b, e)' <=> Queued(b, e)) /\ (Served(b, e)' <=> Served(b, e))
      BY <3>2 DEF Queued, Served, Peer
    <3>6. OnceInv'
      BY <1>0, <3>2, <3>5 DEF OnceInv
    <3>7. SentInv'
      BY <1>0, <3>2, <3>3, <3>4, <3>5 DEF SentInv
    <3> QED BY <3>6, <3>7
  <2> QED BY <1>2, <2>1, <2>2 DEF ClientStep
<1>3. ASSUME UNCHANGED <<daemon, client>> PROVE OnceInv' /\ SentInv'
  BY <1>0, <1>3 DEF daemon, client, OnceInv, SentInv, Queued, Served, Peer
<1>4. Change \/ Waits \/ UNCHANGED vars => UNCHANGED <<daemon, client>>
  BY DEF Change, Waits, vars
<1> QED BY <1>1, <1>2, <1>3, <1>4 DEF Next

-----------------------------------------------------------------------------
(* The daemons implement SizeServer *)

LEMMA TheOneOf == \A d : TheOne({d}) = d
BY DEF TheOne

LEMMA HoldersAre ==
  /\ \A c, d : d \in Holders(c) <=>
       d \in Daemons /\ (Queued(c, d) \/ (Served(c, d) /\ dpc[d] # "close"))
  /\ \A c, d : d \in Holders(c)' <=>
       d \in Daemons /\ (Queued(c, d)' \/ (Served(c, d)' /\ dpc'[d] # "close"))
<1>1. \A c, d : d \in Holders(c) <=>
        d \in Daemons /\ (Queued(c, d) \/ (Served(c, d) /\ dpc[d] # "close"))
  BY DEF Holders, Served, Serving
<1>2. \A c, d : d \in Holders(c)' <=>
        d \in Daemons /\ (Queued(c, d)' \/ (Served(c, d)' /\ dpc'[d] # "close"))
  BY DEF Holders, Served, Serving
<1> QED BY <1>1, <1>2

LEMMA FoundIs ==
  \A c : /\ Found(c) <=> \E d \in Daemons : dpc[d] = "send" /\ Served(c, d)
         /\ Found(c)' <=> \E d \in Daemons : dpc'[d] = "send" /\ Served(c, d)'
BY DEF Found, Served, Serving

\* The daemon that has a client is the only one.
LEMMA OneHolder ==
  ASSUME ServeInv, NEW c \in Clients, NEW d \in Holders(c)
  PROVE  /\ Holders(c) = {d} /\ TheOne(Holders(c)) = d /\ d # None
         /\ cpc[c] # "off" /\ received[c] = None
         /\ Found(c) <=> dpc[d] = "send" /\ Served(c, d)
<1>1. d \in Daemons /\ (Queued(c, d) \/ (Served(c, d) /\ dpc[d] # "close"))
  BY HoldersAre
<1>2. \A e \in Holders(c) : e = d
  BY <1>1, HoldersAre DEF ServeInv, OnceInv
<1>3. Holders(c) = {d}
  BY <1>2
<1>4. Found(c) => \E e \in Holders(c) : dpc[e] = "send" /\ Served(c, e)
  BY HoldersAre DEF Found, Served, Serving
<1>5. dpc[d] = "send" /\ Served(c, d) => Found(c)
  BY <1>1 DEF Found, Served
<1>6. cpc[c] # "off" /\ received[c] = None
  BY <1>1 DEF ServeInv, SentInv
<1>7. d # None
  BY <1>1, DaemonAssumption
<1> QED BY <1>2, <1>3, <1>4, <1>5, <1>6, <1>7, TheOneOf

\* A request stays what it is when its holder, the client and what was found or
\* sent stay.
Same(c) ==
  /\ cpc'[c] = cpc[c] /\ received'[c] = received[c]
  /\ Holders(c)' = Holders(c) /\ (Found(c)' <=> Found(c))
  /\ \A d \in Holders(c) : Found(c) => buf'[d] = buf[d]

LEMMA SameView ==
  ASSUME ServeInv, NEW c \in Clients, Same(c)
  PROVE  Phase(c)' = Phase(c) /\ Asked(c)' = Asked(c) /\ Answer(c)' = Answer(c)
<1>1. Phase(c)' = Phase(c)
  BY DEF Same, Phase
<1>2. TheOne(Holders(c))' = TheOne(Holders(c))
  BY DEF Same, TheOne
<1>3. Asked(c)' = Asked(c)
  BY <1>1, <1>2 DEF Asked
<1>4. ASSUME Phase(c) = "found" PROVE buf'[TheOne(Holders(c))] = buf[TheOne(Holders(c))]
  <2>1. PICK d \in Holders(c) : TRUE
    BY <1>4 DEF Phase
  <2>2. Found(c) /\ TheOne(Holders(c)) = d
    BY <1>4, <2>1, OneHolder DEF Phase
  <2> QED BY <2>1, <2>2 DEF Same
<1>5. Answer(c)' = Answer(c)
  BY <1>1, <1>2, <1>4 DEF Answer, Same
<1> QED BY <1>1, <1>3, <1>5

\* Nothing that SizeServer speaks of changes.
LEMMA Stutters ==
  ASSUME ServeInv, UNCHANGED <<size, printed>>, \A d \in Daemons : Over(d)' <=> Over(d),
         \A c \in Clients : Same(c)
  PROVE  UNCHANGED Server!vars
<1>1. {d \in Daemons : ~Over(d)}' = {d \in Daemons : ~Over(d)}
  OBVIOUS
<1>2. \A c \in Clients : Phase(c)' = Phase(c) /\ Asked(c)' = Asked(c) /\ Answer(c)' = Answer(c)
  BY SameView
<1>3. /\ [c \in Clients |-> Phase(c)]' = [c \in Clients |-> Phase(c)]
      /\ [c \in Clients |-> Asked(c)]' = [c \in Clients |-> Asked(c)]
      /\ [c \in Clients |-> Answer(c)]' = [c \in Clients |-> Answer(c)]
  BY <1>2
<1> QED BY <1>1, <1>3 DEF Server!vars

\* Only the request of client c changes.
OnlyOf(c) ==
  /\ \A d \in Daemons : Over(d)' <=> Over(d)
  /\ \A b \in Clients \ {c} : Same(b)

LEMMA OneView ==
  ASSUME ServeInv, NEW c \in Clients, OnlyOf(c), NEW p, NEW a, NEW n,
         Phase(c)' = p, Asked(c)' = a, Answer(c)' = n
  PROVE  /\ [b \in Clients |-> Phase(b)]' = [[b \in Clients |-> Phase(b)] EXCEPT ![c] = p]
         /\ [b \in Clients |-> Asked(b)]' = [[b \in Clients |-> Asked(b)] EXCEPT ![c] = a]
         /\ [b \in Clients |-> Answer(b)]' = [[b \in Clients |-> Answer(b)] EXCEPT ![c] = n]
         /\ {d \in Daemons : ~Over(d)}' = {d \in Daemons : ~Over(d)}
<1>1. \A b \in Clients \ {c} : Phase(b)' = Phase(b) /\ Asked(b)' = Asked(b) /\ Answer(b)' = Answer(b)
  BY SameView DEF OnlyOf
<1>2. {d \in Daemons : ~Over(d)}' = {d \in Daemons : ~Over(d)}
  BY DEF OnlyOf
<1> QED BY <1>1, <1>2

LEMMA QuietStutters ==
  ASSUME ServeInv, NEW d \in Daemons, Quiet(d)
  PROVE  UNCHANGED Server!vars
<1>1. /\ UNCHANGED <<world, client, buf>> /\ Others(d)
      /\ dpc[d] \notin Serving /\ dpc'[d] \notin Serving /\ ~Over(d) /\ ~Over(d)'
  BY DEF Quiet
<1>2. \A c, e : e \in Daemons => /\ Queued(c, e)' <=> Queued(c, e)
                                 /\ Served(c, e)' <=> Served(c, e)
  BY QuietHolds
<1>3. \A e \in Daemons : e # d => dpc'[e] = dpc[e]
  BY <1>1 DEF Others
<1>4. \A e \in Daemons : Over(e)' <=> Over(e)
  BY <1>1, <1>3 DEF Over
<1>5. \A c : ~Served(c, d)
  BY <1>1 DEF Served
<1>6. ASSUME NEW c \in Clients PROVE Same(c)
  <2>1. \A e : e \in Holders(c)' <=> e \in Holders(c)
    BY <1>2, <1>3, <1>5, HoldersAre
  <2>2. Found(c)' <=> Found(c)
    BY <1>2, <1>3, <1>5, FoundIs
  <2> QED BY <1>1, <2>1, <2>2 DEF Same, client
<1> QED BY <1>1, <1>4, <1>6, Stutters DEF world, client

LEMMA AcceptStutters ==
  ASSUME ServeInv, NEW d \in Daemons, Accept(d)
  PROVE  UNCHANGED Server!vars
<1> DEFINE h == Head(queue[d])
<1>1. /\ UNCHANGED <<world, client, buf>> /\ Others(d)
      /\ dpc[d] = "accept" /\ dpc'[d] = "stat" /\ h \in Clients /\ Queued(h, d)
      /\ \A c, e : e \in Daemons => /\ Queued(c, e)' <=> Queued(c, e) /\ ~(e = d /\ c = h)
                                    /\ Served(c, e)' <=> Served(c, e) \/ (e = d /\ c = h)
  BY AcceptHolds
<1> HIDE DEF h
<1>2. \A e \in Daemons : e # d => dpc'[e] = dpc[e]
  BY <1>1 DEF Others
<1>3. \A e \in Daemons : Over(e)' <=> Over(e)
  BY <1>1, <1>2 DEF Over
<1>4. \A c : ~Served(c, d)
  BY <1>1 DEF Served, Serving
<1>5. ASSUME NEW c \in Clients PROVE Same(c)
  <2>1. \A e : e \in Holders(c)' <=> e \in Holders(c)
    BY <1>1, <1>2, <1>4, HoldersAre
  <2>2. Found(c)' <=> Found(c)
    BY <1>1, <1>2, <1>4, FoundIs
  <2> QED BY <1>1, <2>1, <2>2 DEF Same, client
<1> QED BY <1>1, <1>3, <1>5, Stutters DEF world, client

LEMMA CloseStutters ==
  ASSUME ServeInv, NEW d \in Daemons, Close(d)
  PROVE  UNCHANGED Server!vars
<1>1. /\ UNCHANGED <<world, queue, cpc, printed, received, buf>> /\ Others(d)
      /\ dpc[d] = "close" /\ dpc'[d] = "accept"
  BY ServingSteps DEF ServeInv
<1>2. \A e \in Daemons : e # d => dpc'[e] = dpc[e]
  BY <1>1 DEF Others
<1>3. \A c, e : e \in Daemons => /\ Queued(c, e)' <=> Queued(c, e)
                                 /\ e # d => (Served(c, e)' <=> Served(c, e))
  BY <1>1, OthersHold DEF Queued
<1>4. \A e \in Daemons : Over(e)' <=> Over(e)
  BY <1>1, <1>2 DEF Over
<1>5. \A c : ~Served(c, d)'
  BY <1>1 DEF Served, Serving
<1>6. ASSUME NEW c \in Clients PROVE Same(c)
  <2>1. \A e : e \in Holders(c)' <=> e \in Holders(c)
    BY <1>1, <1>2, <1>3, <1>5, HoldersAre
  <2>2. Found(c)' <=> Found(c)
    BY <1>1, <1>2, <1>3, <1>5, FoundIs
  <2> QED BY <1>1, <2>1, <2>2 DEF Same
<1> QED BY <1>1, <1>4, <1>6, Stutters DEF world

\* A daemon ends: the clients that it has are lost.
LEMMA EndsStops ==
  ASSUME ServeInv, NEW d \in Daemons, ~Over(d), NEW how \in Ending, Ends(d, how)
  PROVE  Server!Stop(d)
<1>1. /\ UNCHANGED <<world, client>> /\ Others(d) /\ Over(d)'
      /\ \A c, e : e \in Daemons => /\ Queued(c, e)' <=> e # d /\ Queued(c, e)
                                    /\ Served(c, e)' <=> e # d /\ Served(c, e)
  BY EndsHold DEF ServeInv
<1>2. \A e \in Daemons : e # d => dpc'[e] = dpc[e] /\ buf'[e] = buf[e]
  BY <1>1 DEF Others
<1>3. {e \in Daemons : ~Over(e)}' = {e \in Daemons : ~Over(e)} \ {d}
  BY <1>1, <1>2 DEF Over
<1>4. \A c, e : e \in Holders(c)' <=> e \in Holders(c) /\ e # d
  BY <1>1, <1>2, HoldersAre
<1>5. ASSUME NEW c \in Clients, d \notin Holders(c)
      PROVE  /\ Phase(c)' = Phase(c) /\ Asked(c)' = Asked(c) /\ Answer(c)' = Answer(c)
             /\ Asked(c) # d
  <2>1. Holders(c)' = Holders(c)
    BY <1>4, <1>5
  <2>2. \A e \in Daemons : Served(c, e) /\ dpc[e] = "send" => e # d
    BY <1>5, HoldersAre
  <2>3. Found(c)' <=> Found(c)
    BY <1>1, <1>2, <2>2, FoundIs
  <2>4. \A e \in Holders(c) : buf'[e] = buf[e]
    BY <1>2, <1>5, HoldersAre
  <2>5. Same(c)
    BY <1>1, <2>1, <2>3, <2>4 DEF Same, client
  <2>6. Asked(c) # d
    <3>1. CASE Holders(c) = {}
      BY <3>1, DaemonAssumption DEF Asked, TheOne
    <3>2. ASSUME NEW e \in Holders(c) PROVE Asked(c) # d
      BY <1>5, <3>2, OneHolder, DaemonAssumption DEF Asked
    <3> QED BY <3>1, <3>2
  <2> QED BY <2>5, <2>6, SameView
<1>6. ASSUME NEW c \in Clients, d \in Holders(c)
      PROVE  IF Asked(c) = d THEN Phase(c)' = "lost" /\ Asked(c)' = None /\ Answer(c)' = None
             ELSE Phase(c)' = Phase(c) /\ Asked(c)' = Asked(c) /\ Answer(c)' = Answer(c)
  <2>1. /\ Holders(c) = {d} /\ TheOne(Holders(c)) = d /\ d # None
        /\ cpc[c] # "off" /\ received[c] = None
    BY <1>6, OneHolder
  <2>2. Holders(c)' = {} /\ cpc'[c] = cpc[c] /\ received'[c] = received[c]
    BY <1>1, <1>4, <2>1 DEF client
  <2>3. CASE cpc[c] = "recv"
    BY <2>1, <2>2, <2>3 DEF Phase, Asked, Answer
  <2>4. CASE cpc[c] # "recv"
    BY <2>1, <2>2, <2>4 DEF Phase, Asked, Answer
  <2> QED BY <2>3, <2>4
<1>7. \A c \in Clients : IF Asked(c) = d
                           THEN Phase(c)' = "lost" /\ Asked(c)' = None /\ Answer(c)' = None
                           ELSE Phase(c)' = Phase(c) /\ Asked(c)' = Asked(c) /\ Answer(c)' = Answer(c)
  BY <1>5, <1>6
<1>8. /\ [c \in Clients |-> Phase(c)]' =
           [c \in Clients |-> IF [b \in Clients |-> Asked(b)][c] = d THEN "lost"
                              ELSE [b \in Clients |-> Phase(b)][c]]
      /\ [c \in Clients |-> Asked(c)]' =
           [c \in Clients |-> IF [b \in Clients |-> Asked(b)][c] = d THEN None
                              ELSE [b \in Clients |-> Asked(b)][c]]
      /\ [c \in Clients |-> Answer(c)]' =
           [c \in Clients |-> IF [b \in Clients |-> Asked(b)][c] = d THEN None
                              ELSE [b \in Clients |-> Answer(b)][c]]
  BY <1>7
<1> QED BY <1>1, <1>3, <1>8 DEF Server!Stop, world, client

\* What stat() and send() do to everybody but the client that is served.
LEMMA OthersServed ==
  ASSUME ServeInv, NEW d \in Daemons, Stat(d) \/ Send(d) \/ SendFails(d)
  PROVE  /\ Peer(d) \in Clients /\ d \in Holders(Peer(d)) /\ Served(Peer(d), d)
         /\ \A e \in Daemons : e # d => dpc'[e] = dpc[e] /\ buf'[e] = buf[e]
         /\ \A c, e : e \in Daemons => /\ Queued(c, e)' <=> Queued(c, e)
                                       /\ Served(c, e)' <=> Served(c, e)
         /\ OnlyOf(Peer(d))
<1>1. /\ UNCHANGED <<world, queue, cpc, printed, fds, sd2>> /\ Others(d)
      /\ Stat(d) => received' = received /\ dpc[d] = "stat" /\ dpc'[d] = "send"
      /\ Send(d) => /\ dpc[d] = "send" /\ dpc'[d] = "close"
                    /\ received' = [received EXCEPT ![Peer(d)] = buf[d]]
      /\ SendFails(d) => received' = received /\ dpc[d] = "send" /\ dpc'[d] = "close"
      /\ dpc[d] \in {"stat", "send"} /\ dpc[d] \in Serving /\ dpc'[d] \in Serving
      /\ received \in [Clients -> Sizes \cup {Missing, None}]
  BY ServingSteps DEF ServeInv, TypeOK, Serving
<1>2. Peer(d) \in Clients /\ Served(Peer(d), d) /\ \A c : Served(c, d) => c = Peer(d)
  BY <1>1, PeerIsAClient DEF Served, ServeInv
<1>3. d \in Holders(Peer(d))
  BY <1>1, <1>2, HoldersAre
<1>4. \A e \in Daemons : e # d => dpc'[e] = dpc[e] /\ buf'[e] = buf[e]
  BY <1>1 DEF Others
<1>5. \A c, e : e \in Daemons => (Queued(c, e)' <=> Queued(c, e)) /\ (Served(c, e)' <=> Served(c, e))
  <2>1. \A c : (Queued(c, d)' <=> Queued(c, d)) /\ (Served(c, d)' <=> Served(c, d))
    BY <1>1 DEF Queued, Served, Peer
  <2> QED BY <1>1, <2>1, OthersHold
<1>6. ASSUME NEW c \in Clients, c # Peer(d) PROVE Same(c)
  <2>1. ~Served(c, d)
    BY <1>2, <1>6
  <2>2. \A e : e \in Holders(c)' <=> e \in Holders(c)
    BY <1>4, <1>5, <2>1, HoldersAre
  <2>3. Found(c)' <=> Found(c)
    BY <1>4, <1>5, <2>1, FoundIs
  <2>4. ASSUME Found(c), NEW e \in Holders(c) PROVE buf'[e] = buf[e]
    BY <1>4, <2>1, <2>4, OneHolder, HoldersAre
  <2>5. received'[c] = received[c]
    BY <1>1, <1>6
  <2> QED BY <1>1, <2>2, <2>3, <2>4, <2>5 DEF Same
<1>7. \A e \in Daemons : Over(e)' <=> Over(e)
  <2>1. ~Over(d) /\ ~Over(d)'
    BY <1>1 DEF Over, Serving
  <2> QED BY <1>4, <2>1 DEF Over
<1> QED BY <1>2, <1>3, <1>4, <1>5, <1>6, <1>7 DEF OnlyOf

\* stat() is the look at the file that answers the client, if it is still there.
LEMMA StatLooks ==
  ASSUME ServeInv, NEW d \in Daemons, Stat(d)
  PROVE  Server!Look(Peer(d)) \/ UNCHANGED Server!vars
<1>0. PICK c \in Clients : c = Peer(d)
  BY OthersServed
<1>1. /\ c \in Clients /\ d \in Holders(c) /\ Served(c, d) /\ OnlyOf(c)
      /\ \A e \in Daemons : e # d => dpc'[e] = dpc[e] /\ buf'[e] = buf[e]
      /\ \A b, e : e \in Daemons => (Queued(b, e)' <=> Queued(b, e)) /\ (Served(b, e)' <=> Served(b, e))
  BY <1>0, OthersServed
<1>2. /\ UNCHANGED <<size, cpc, printed, received>> /\ dpc[d] = "stat" /\ dpc'[d] = "send"
      /\ buf'[d] = size
  BY ServingSteps DEF ServeInv, world
<1>3. /\ Holders(c) = {d} /\ TheOne(Holders(c)) = d /\ d # None
      /\ cpc[c] # "off" /\ received[c] = None /\ ~Found(c)
  BY <1>1, <1>2, OneHolder
<1>4. Holders(c)' = Holders(c)
  <2>1. \A e : e \in Holders(c)' <=> e \in Holders(c)
    BY <1>1, <1>2, HoldersAre
  <2> QED BY <2>1
<1>5. Found(c)'
  BY <1>1, <1>2, FoundIs
<1>6. TheOne(Holders(c))' = d
  BY <1>3, <1>4 DEF TheOne
<1>view. OnlyOf(c)
  BY <1>1
<1> SUFFICES Server!Look(c) \/ UNCHANGED Server!vars
  BY <1>0
<1>7. CASE cpc[c] = "recv"
  <2>1. Phase(c) = "waiting" /\ Asked(c) = d /\ Answer(c) = None
    <3>1. Phase(c) = "waiting"
      BY <1>3, <1>7 DEF Phase
    <3> QED BY <1>3, <3>1 DEF Asked, Answer
  <2>2. Phase(c)' = "found"
    BY <1>2, <1>3, <1>4, <1>5, <1>7 DEF Phase
  <2>3. Asked(c)' = d /\ Answer(c)' = size
    <3>1. Asked(c)' = d
      BY <1>6, <2>2 DEF Asked
    <3>2. Answer(c)' = buf'[d]
      BY <1>6, <2>2 DEF Answer
    <3> QED BY <1>2, <3>1, <3>2
  <2>4. /\ [b \in Clients |-> Phase(b)]' = [[b \in Clients |-> Phase(b)] EXCEPT ![c] = "found"]
        /\ [b \in Clients |-> Asked(b)]' = [[b \in Clients |-> Asked(b)] EXCEPT ![c] = d]
        /\ [b \in Clients |-> Answer(b)]' = [[b \in Clients |-> Answer(b)] EXCEPT ![c] = size]
        /\ {e \in Daemons : ~Over(e)}' = {e \in Daemons : ~Over(e)}
    BY <1>view, <2>2, <2>3, OneView
  <2>5. [[b \in Clients |-> Asked(b)] EXCEPT ![c] = d] = [b \in Clients |-> Asked(b)]
    BY <2>1
  <2> QED BY <1>1, <1>2, <2>1, <2>4, <2>5 DEF Server!Look, Server!Goto
<1>8. CASE cpc[c] # "recv"
  <2>1. Phase(c)' = Phase(c) /\ Asked(c)' = Asked(c) /\ Answer(c)' = Answer(c)
    BY <1>2, <1>3, <1>8 DEF Phase, Asked, Answer
  <2>2. /\ [b \in Clients |-> Phase(b)]' = [[b \in Clients |-> Phase(b)] EXCEPT ![c] = Phase(c)]
        /\ [b \in Clients |-> Asked(b)]' = [[b \in Clients |-> Asked(b)] EXCEPT ![c] = Asked(c)]
        /\ [b \in Clients |-> Answer(b)]' = [[b \in Clients |-> Answer(b)] EXCEPT ![c] = Answer(c)]
        /\ {e \in Daemons : ~Over(e)}' = {e \in Daemons : ~Over(e)}
    BY <1>view, <2>1, OneView
  <2>3. /\ [[b \in Clients |-> Phase(b)] EXCEPT ![c] = Phase(c)] = [b \in Clients |-> Phase(b)]
        /\ [[b \in Clients |-> Asked(b)] EXCEPT ![c] = Asked(c)] = [b \in Clients |-> Asked(b)]
        /\ [[b \in Clients |-> Answer(b)] EXCEPT ![c] = Answer(c)] = [b \in Clients |-> Answer(b)]
    BY <1>1
  <2> QED BY <1>2, <2>2, <2>3 DEF Server!vars
<1> QED BY <1>7, <1>8

LEMMA SendSends ==
  ASSUME ServeInv, NEW d \in Daemons, Send(d)
  PROVE  Server!Send(Peer(d))
<1>0. PICK c \in Clients : c = Peer(d)
  BY OthersServed
<1>1. c \in Clients /\ d \in Holders(c) /\ Served(c, d) /\ OnlyOf(c)
  BY <1>0, OthersServed
<1>2. /\ UNCHANGED <<size, cpc, printed>> /\ dpc[d] = "send" /\ cpc[c] = "recv"
      /\ received' = [received EXCEPT ![c] = buf[d]] /\ buf[d] # None
      /\ received \in [Clients -> Sizes \cup {Missing, None}]
  BY <1>0, ServingSteps DEF ServeInv, TypeOK, SentInv, world
<1>3. /\ TheOne(Holders(c)) = d /\ d # None /\ received[c] = None /\ Found(c) /\ Holders(c) # {}
  BY <1>1, <1>2, OneHolder
<1>4. Phase(c) = "found" /\ Answer(c) = buf[d]
  <2>1. Phase(c) = "found"
    BY <1>2, <1>3 DEF Phase
  <2> QED BY <1>3, <2>1 DEF Answer
<1>5. received'[c] = buf[d] /\ cpc'[c] = "recv"
  BY <1>1, <1>2
<1>6. Phase(c)' = "sent" /\ Asked(c)' = None /\ Answer(c)' = buf[d]
  <2>1. Phase(c)' = "sent"
    BY <1>2, <1>5 DEF Phase
  <2> QED BY <1>5, <2>1 DEF Asked, Answer
<1>7. /\ [b \in Clients |-> Phase(b)]' = [[b \in Clients |-> Phase(b)] EXCEPT ![c] = "sent"]
      /\ [b \in Clients |-> Asked(b)]' = [[b \in Clients |-> Asked(b)] EXCEPT ![c] = None]
      /\ [b \in Clients |-> Answer(b)]' = [[b \in Clients |-> Answer(b)] EXCEPT ![c] = buf[d]]
      /\ {e \in Daemons : ~Over(e)}' = {e \in Daemons : ~Over(e)}
  BY <1>1, <1>6, OneView
<1>8. [[b \in Clients |-> Answer(b)] EXCEPT ![c] = buf[d]] = [b \in Clients |-> Answer(b)]
  BY <1>4
<1>9. Server!Send(c)
  BY <1>1, <1>2, <1>4, <1>7, <1>8 DEF Server!Send, Server!Goto
<1> QED BY <1>0, <1>9

\* A send() that fails loses the client, if it is still there.
LEMMA SendFailsDrops ==
  ASSUME ServeInv, NEW d \in Daemons, SendFails(d)
  PROVE  Server!Drop(Peer(d)) \/ UNCHANGED Server!vars
<1>0. PICK c \in Clients : c = Peer(d)
  BY OthersServed
<1>1. /\ d \in Holders(c) /\ Served(c, d) /\ OnlyOf(c)
      /\ \A e \in Daemons : e # d => dpc'[e] = dpc[e] /\ buf'[e] = buf[e]
      /\ \A b, e : e \in Daemons => (Queued(b, e)' <=> Queued(b, e)) /\ (Served(b, e)' <=> Served(b, e))
  BY <1>0, OthersServed
<1>2. UNCHANGED <<size, cpc, printed, received, buf>> /\ dpc[d] = "send" /\ dpc'[d] = "close"
  BY ServingSteps DEF ServeInv, world
<1>3. /\ Holders(c) = {d} /\ TheOne(Holders(c)) = d /\ d # None
      /\ cpc[c] # "off" /\ received[c] = None /\ Found(c)
  BY <1>1, <1>2, OneHolder
<1>4. Holders(c)' = {}
  <2>1. \A e : e \in Holders(c)' => e \in Holders(c) /\ e # d
    BY <1>1, <1>2, <1>3, HoldersAre DEF ServeInv, OnceInv
  <2> QED BY <1>3, <2>1
<1> SUFFICES Server!Drop(c) \/ UNCHANGED Server!vars
  BY <1>0
<1>5. CASE cpc[c] = "recv"
  <2>1. Phase(c) = "found"
    BY <1>3, <1>5 DEF Phase
  <2>2. Phase(c)' = "lost"
    BY <1>2, <1>3, <1>4, <1>5 DEF Phase
  <2>3. Asked(c)' = None /\ Answer(c)' = None
    BY <2>2 DEF Asked, Answer
  <2>4. ASSUME NEW p, NEW a, NEW n, Phase(c)' = p, Asked(c)' = a, Answer(c)' = n
        PROVE  /\ [b \in Clients |-> Phase(b)]' = [[b \in Clients |-> Phase(b)] EXCEPT ![c] = p]
               /\ [b \in Clients |-> Asked(b)]' = [[b \in Clients |-> Asked(b)] EXCEPT ![c] = a]
               /\ [b \in Clients |-> Answer(b)]' = [[b \in Clients |-> Answer(b)] EXCEPT ![c] = n]
               /\ {e \in Daemons : ~Over(e)}' = {e \in Daemons : ~Over(e)}
    <3>1. OnlyOf(c)
      BY <1>1
    <3> QED BY <2>4, <3>1, OneView
  <2>5. /\ [b \in Clients |-> Phase(b)]' = [[b \in Clients |-> Phase(b)] EXCEPT ![c] = "lost"]
        /\ [b \in Clients |-> Asked(b)]' = [[b \in Clients |-> Asked(b)] EXCEPT ![c] = None]
        /\ [b \in Clients |-> Answer(b)]' = [[b \in Clients |-> Answer(b)] EXCEPT ![c] = None]
        /\ {e \in Daemons : ~Over(e)}' = {e \in Daemons : ~Over(e)}
    BY <2>2, <2>3, <2>4
  <2> QED BY <1>2, <2>1, <2>5 DEF Server!Drop, Server!Goto
<1>6. CASE cpc[c] # "recv"
  <2>1. Phase(c)' = Phase(c) /\ Asked(c)' = Asked(c) /\ Answer(c)' = Answer(c)
    BY <1>2, <1>3, <1>6 DEF Phase, Asked, Answer
  <2>2. /\ \A b \in Clients : Phase(b)' = Phase(b) /\ Asked(b)' = Asked(b) /\ Answer(b)' = Answer(b)
        /\ \A e \in Daemons : Over(e)' <=> Over(e)
    BY <1>1, <2>1, SameView DEF OnlyOf
  <2>3. /\ [b \in Clients |-> Phase(b)]' = [b \in Clients |-> Phase(b)]
        /\ [b \in Clients |-> Asked(b)]' = [b \in Clients |-> Asked(b)]
        /\ [b \in Clients |-> Answer(b)]' = [b \in Clients |-> Answer(b)]
        /\ {e \in Daemons : ~Over(e)}' = {e \in Daemons : ~Over(e)}
    BY <2>2
  <2> QED BY <1>2, <2>3 DEF Server!vars
<1> QED BY <1>5, <1>6

LEMMA ConnectAsks ==
  ASSUME ServeInv, NEW c \in Clients, Connect(c)
  PROVE  Server!Ask(c, path) /\ path \in Daemons
<1>1. /\ UNCHANGED <<size, dpc, buf, received, printed>>
      /\ path \in Daemons /\ ~Over(path) /\ cpc[c] = "off" /\ received[c] = None
      /\ cpc' = [cpc EXCEPT ![c] = "recv"]
      /\ \A b, e : e \in Daemons => /\ Queued(b, e)' <=> Queued(b, e) \/ (b = c /\ e = path)
                                    /\ Served(b, e)' <=> Served(b, e)
  BY ConnectHolds
<1>2. cpc'[c] = "recv" /\ \A b \in Clients : b # c => cpc'[b] = cpc[b]
  BY <1>1 DEF ServeInv, TypeOK
<1>3. \A e \in Daemons : ~Queued(c, e) /\ ~Served(c, e)
  BY <1>1 DEF ServeInv, SentInv
<1>4. \A e \in Daemons : Over(e)' <=> Over(e)
  BY <1>1 DEF Over
<1>5. ASSUME NEW b \in Clients, b # c PROVE Same(b)
  <2>1. \A e : e \in Holders(b)' <=> e \in Holders(b)
    BY <1>1, <1>5, HoldersAre
  <2>2. Found(b)' <=> Found(b)
    BY <1>1, FoundIs
  <2> QED BY <1>1, <1>2, <1>5, <2>1, <2>2 DEF Same
<1>6. OnlyOf(c)
  BY <1>4, <1>5 DEF OnlyOf
<1>7. Holders(c)' = {path}
  <2>1. \A e : e \in Holders(c)' <=> e = path
    BY <1>1, <1>3, HoldersAre
  <2> QED BY <2>1
<1>8. ~Found(c)'
  BY <1>1, <1>3, FoundIs
<1>9. TheOne(Holders(c))' = path
  BY <1>7 DEF TheOne
<1>10. Phase(c)' = "waiting" /\ Asked(c)' = path /\ Answer(c)' = None
  <2>1. Phase(c)' = "waiting"
    BY <1>1, <1>2, <1>7, <1>8 DEF Phase
  <2> QED BY <1>9, <2>1 DEF Asked, Answer
<1>11. Phase(c) = "off" /\ Answer(c) = None
  BY <1>1 DEF Phase, Answer
<1>12. /\ [b \in Clients |-> Phase(b)]' = [[b \in Clients |-> Phase(b)] EXCEPT ![c] = "waiting"]
       /\ [b \in Clients |-> Asked(b)]' = [[b \in Clients |-> Asked(b)] EXCEPT ![c] = path]
       /\ [b \in Clients |-> Answer(b)]' = [[b \in Clients |-> Answer(b)] EXCEPT ![c] = None]
       /\ {e \in Daemons : ~Over(e)}' = {e \in Daemons : ~Over(e)}
  BY <1>6, <1>10, OneView
<1>13. [[b \in Clients |-> Answer(b)] EXCEPT ![c] = None] = [b \in Clients |-> Answer(b)]
  BY <1>11
<1> QED BY <1>1, <1>11, <1>12, <1>13 DEF Server!Ask, Server!Goto

\* A client that ends by itself.
LEMMA ClientEnding ==
  ASSUME ServeInv, NEW c \in Clients, Refused(c) \/ Receive(c) \/ Quit(c)
  PROVE  Server!TurnAway(c) \/ Server!PrintAnswer(c) \/ Server!PrintGarbage(c) \/ Server!Leave(c)
<1>1. PICK to \in {"refused", "printed", "gone"} : cpc' = [cpc EXCEPT ![c] = to]
  BY ClientSteps
<1>2. UNCHANGED <<size, dpc, fds, sd2, queue, buf, received>>
  BY ClientSteps DEF daemon, world
<1>3. cpc'[c] \notin {"off", "recv"} /\ \A b \in Clients : b # c => cpc'[b] = cpc[b]
  BY <1>1 DEF ServeInv, TypeOK
<1>4. \A b : Holders(b)' = Holders(b) /\ Found(b)' = Found(b)
  BY <1>2 DEF Holders, Found, Queued, Peer
<1>5. \A e \in Daemons : Over(e)' <=> Over(e)
  BY <1>2 DEF Over
<1>6. OnlyOf(c)
  BY <1>2, <1>3, <1>4, <1>5 DEF OnlyOf, Same
<1>7. Phase(c)' = "ended" /\ Asked(c)' = None /\ Answer(c)' = None
  <2>1. Phase(c)' = "ended"
    BY <1>3 DEF Phase
  <2> QED BY <2>1 DEF Asked, Answer
<1>8. /\ [b \in Clients |-> Phase(b)]' = [[b \in Clients |-> Phase(b)] EXCEPT ![c] = "ended"]
      /\ [b \in Clients |-> Asked(b)]' = [[b \in Clients |-> Asked(b)] EXCEPT ![c] = None]
      /\ [b \in Clients |-> Answer(b)]' = [[b \in Clients |-> Answer(b)] EXCEPT ![c] = None]
      /\ {e \in Daemons : ~Over(e)}' = {e \in Daemons : ~Over(e)}
  BY <1>6, <1>7, OneView
<1>9. Asked(c) = None =>
        [[b \in Clients |-> Asked(b)] EXCEPT ![c] = None] = [b \in Clients |-> Asked(b)]
  OBVIOUS
<1>10. Answer(c) = None =>
         [[b \in Clients |-> Answer(b)] EXCEPT ![c] = None] = [b \in Clients |-> Answer(b)]
  OBVIOUS
<1>11. CASE Refused(c)
  <2>1. cpc[c] = "off" /\ printed' = printed
    BY <1>11 DEF Refused, CGoto
  <2>2. Phase(c) = "off" /\ Asked(c) = None /\ Answer(c) = None
    BY <2>1 DEF Phase, Asked, Answer
  <2> QED BY <1>2, <1>8, <1>9, <1>10, <2>1, <2>2 DEF Server!TurnAway, Server!Goto
<1>12. CASE Receive(c)
  <2>1. /\ cpc[c] = "recv"
        /\ received[c] # None \/ ~Held(c)
        /\ printed' = [printed EXCEPT ![c] = IF received[c] # None THEN received[c] ELSE Garbage]
    BY <1>12 DEF Receive, CGoto
  <2>2. CASE received[c] # None
    <3>1. Phase(c) = "sent"
      BY <2>1, <2>2 DEF Phase
    <3>2. Asked(c) = None /\ Answer(c) = received[c]
      BY <3>1 DEF Asked, Answer
    <3> QED BY <1>2, <1>8, <1>9, <2>1, <2>2, <3>1, <3>2 DEF Server!PrintAnswer, Server!Goto
  <2>3. CASE received[c] = None
    <3>1. ASSUME NEW d \in Holders(c) PROVE FALSE
      <4>1. d \in Daemons /\ (Queued(c, d) \/ Served(c, d))
        BY <3>1, HoldersAre
      <4>2. queue[d] \in Seq(Clients) /\ fds[d] \in [Fds -> What]
        BY <4>1 DEF ServeInv, TypeOK
      <4>3. CASE Queued(c, d)
        <5>1. PICK k \in 1 .. Len(queue[d]) : queue[d][k] = c
          BY <4>3 DEF Queued
        <5>2. k \in DOMAIN queue[d]
          BY <4>2, <5>1, LenProperties
        <5> QED BY <2>1, <2>3, <4>1, <5>1, <5>2 DEF Held, Range
      <4>4. CASE Served(c, d)
        <5>1. sd2[d] \in DOMAIN fds[d] /\ fds[d][sd2[d]] = c
          BY <4>1, <4>2, <4>4, PeerIsAClient DEF Served, Peer, ServeInv
        <5> QED BY <2>1, <2>3, <4>1, <5>1 DEF Held, Range
      <4> QED BY <4>1, <4>3, <4>4
    <3>2. Phase(c) = "lost"
      BY <2>1, <2>3, <3>1 DEF Phase
    <3>3. Asked(c) = None /\ Answer(c) = None
      BY <3>2 DEF Asked, Answer
    <3> QED BY <1>2, <1>8, <1>9, <1>10, <2>1, <2>3, <3>2, <3>3 DEF Server!PrintGarbage, Server!Goto
  <2> QED BY <2>2, <2>3
<1>13. CASE Quit(c)
  <2>1. cpc[c] = "recv" /\ printed' = printed
    BY <1>13 DEF Quit, CGoto
  <2>2. Phase(c) \in {"waiting", "found", "sent", "lost"}
    BY <2>1 DEF Phase
  <2> QED BY <1>2, <1>8, <2>1, <2>2 DEF Server!Leave
<1> QED BY <1>11, <1>12, <1>13

LEMMA StepImplements == ServeInv /\ [Next]_vars => [Server!Next]_(Server!vars)
<1> SUFFICES ASSUME ServeInv, [Next]_vars PROVE Server!Next \/ UNCHANGED Server!vars
  OBVIOUS
<1>1. ASSUME NEW d \in Daemons, DaemonStep(d) \/ Kill(d)
      PROVE  Server!Next \/ UNCHANGED Server!vars
  <2>1. CASE ForkFails(d) \/ SocketFails(d) \/ NoServerPath(d) \/ ListenFails(d) \/ Stop(d)
               \/ BrokenPipe(d) \/ Kill(d) \/ BindInUse(d) \/ BindFails(d)
    BY <2>1, EndSteps, EndsStops DEF Server!Next
  <2>2. CASE ReadConf(d) \/ Daemonize(d) \/ Socket(d) \/ Unlink(d) \/ UnlinkFails(d) \/ Bind(d)
               \/ Listen(d) \/ AcceptFails(d)
    BY <2>2, QuietSteps, QuietStutters DEF ServeInv
  <2>3. CASE Accept(d)
    BY <2>3, AcceptStutters
  <2>4. CASE Stat(d)
    BY <2>4, StatLooks, OthersServed DEF Server!Next, Server!ClientStep
  <2>5. CASE Send(d)
    BY <2>5, SendSends, OthersServed DEF Server!Next, Server!ClientStep
  <2>6. CASE Close(d)
    BY <2>6, CloseStutters
  <2>7. CASE SendFails(d)
    BY <2>7, SendFailsDrops, OthersServed DEF Server!Next, Server!ClientStep
  <2> QED BY <1>1, <2>1, <2>2, <2>3, <2>4, <2>5, <2>6, <2>7 DEF DaemonStep
<1>2. ASSUME NEW c \in Clients, ClientStep(c) \/ Quit(c)
      PROVE  Server!Next
  <2>1. Server!ClientStep(c)
    BY <1>2, ConnectAsks, ClientEnding DEF ClientStep, Server!ClientStep
  <2> QED BY <2>1 DEF Server!Next
<1>3. ASSUME UNCHANGED <<daemon, client>>
      PROVE  /\ \A c : Phase(c)' = Phase(c) /\ Asked(c)' = Asked(c) /\ Answer(c)' = Answer(c)
             /\ \A d : Over(d)' <=> Over(d)
  <2>1. \A c : Holders(c)' = Holders(c) /\ Found(c)' = Found(c)
    BY <1>3 DEF Holders, Found, Queued, Peer, daemon
  <2>2. cpc' = cpc /\ buf' = buf /\ received' = received /\ dpc' = dpc
    BY <1>3 DEF daemon, client
  <2>3. ASSUME NEW c PROVE TheOne(Holders(c))' = TheOne(Holders(c))
    <3>1. Holders(c)' = Holders(c)
      BY <2>1
    <3> QED BY <3>1 DEF TheOne
  <2>4. \A c : Phase(c)' = Phase(c)
    BY <2>1, <2>2 DEF Phase
  <2>5. \A c : Asked(c)' = Asked(c)
    BY <2>3, <2>4 DEF Asked
  <2>6. \A c : Answer(c)' = Answer(c)
    BY <2>2, <2>3, <2>4 DEF Answer
  <2> QED BY <2>2, <2>4, <2>5, <2>6 DEF Over
<1>4. CASE Change
  <2>1. size' \in Sizes \cup {Missing} /\ UNCHANGED <<daemon, client>>
    BY <1>4 DEF Change
  <2> QED BY <1>3, <2>1 DEF Server!Next, Server!Change, client
<1>5. CASE UNCHANGED vars
  BY <1>3, <1>5 DEF vars, world, client, Server!vars
<1> QED BY <1>1, <1>2, <1>4, <1>5 DEF Next, Waits

\* The daemons and their clients implement SizeServer: a client that stays is
\* answered with what one stat() (line 366 of daemon-filesize.c) gave between its
\* connect() and its answer, whatever the other clients and daemons do and
\* whenever the file changes, unless the very daemon that it connected to ends or
\* fails to send (line 377).
THEOREM DaemonsServeSizes == Spec => ServesSizes
<1>1. Init => Server!Init
  <2> SUFFICES ASSUME Init PROVE Server!Init
    OBVIOUS
  <2>1. \A c \in Clients : Phase(c) = "off" /\ Asked(c) = None /\ Answer(c) = None
    BY DEF Init, Phase, Asked, Answer
  <2>2. {d \in Daemons : ~Over(d)} = Daemons
    BY DEF Init, Over
  <2> QED BY <2>1, <2>2 DEF Init, Server!Init
<1>2. ServeInv /\ [Next]_vars => [Server!Next]_(Server!vars)
  BY StepImplements
<1> QED BY <1>1, <1>2, InitServes, StepServes, PTL DEF Spec, ServesSizes, Server!Spec

=============================================================================
