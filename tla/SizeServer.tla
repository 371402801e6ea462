------------------------------ MODULE SizeServer ------------------------------
(***************************************************************************)
(* What the daemon of hw-19 promises to its clients: to each one that asks *)
(* and stays, one answer, which is what one look at the file gave while    *)
(* the client waited; and to lose a client only when the server that the   *)
(* client asked has stopped, or could not send what it had found.  Nothing *)
(* is said of sockets, descriptors or queues, nor of the order in which    *)
(* clients are served.                                                     *)
(***************************************************************************)
CONSTANTS
  Servers, Clients,
  Contents,   \* what a look at the file can give
  Nothing,    \* no server, no answer
  Garbage     \* what a client that was lost prints

VARIABLES
  file,       \* what a look at the file gives now
  running,    \* the servers that have not stopped
  phase,      \* [Clients -> how far its request is]
  asked,      \* [Clients -> the server that has its request]
  answer,     \* [Clients -> what was found for it, until it is printed]
  printed     \* [Clients -> what it printed]

vars == <<file, running, phase, asked, answer, printed>>

Init ==
  /\ file \in Contents /\ running = Servers
  /\ phase = [c \in Clients |-> "off"] /\ asked = [c \in Clients |-> Nothing]
  /\ answer = [c \in Clients |-> Nothing] /\ printed = [c \in Clients |-> Nothing]

Goto(c, from, to) == phase[c] = from /\ phase' = [phase EXCEPT ![c] = to]

Ask(c, s) ==
  /\ Goto(c, "off", "waiting") /\ s \in running
  /\ asked' = [asked EXCEPT ![c] = s]
  /\ UNCHANGED <<file, running, answer, printed>>

TurnAway(c) == Goto(c, "off", "ended") /\ UNCHANGED <<file, running, asked, answer, printed>>

\* The one look at the file that the answer comes from.
Look(c) ==
  /\ Goto(c, "waiting", "found")
  /\ answer' = [answer EXCEPT ![c] = file]
  /\ UNCHANGED <<file, running, asked, printed>>

Send(c) ==
  /\ Goto(c, "found", "sent")
  /\ asked' = [asked EXCEPT ![c] = Nothing]
  /\ UNCHANGED <<file, running, answer, printed>>

\* The answer cannot be sent: this client is lost, and the server goes on.
Drop(c) ==
  /\ Goto(c, "found", "lost")
  /\ asked' = [asked EXCEPT ![c] = Nothing] /\ answer' = [answer EXCEPT ![c] = Nothing]
  /\ UNCHANGED <<file, running, printed>>

PrintAnswer(c) ==
  /\ Goto(c, "sent", "ended")
  /\ printed' = [printed EXCEPT ![c] = answer[c]]
  /\ answer' = [answer EXCEPT ![c] = Nothing]
  /\ UNCHANGED <<file, running, asked>>

\* A server stops, and the clients whose requests it has are lost.
Stop(s) ==
  /\ s \in running /\ running' = running \ {s}
  /\ phase' = [c \in Clients |-> IF asked[c] = s THEN "lost" ELSE phase[c]]
  /\ asked' = [c \in Clients |-> IF asked[c] = s THEN Nothing ELSE asked[c]]
  /\ answer' = [c \in Clients |-> IF asked[c] = s THEN Nothing ELSE answer[c]]
  /\ UNCHANGED <<file, printed>>

PrintGarbage(c) ==
  /\ Goto(c, "lost", "ended")
  /\ printed' = [printed EXCEPT ![c] = Garbage]
  /\ UNCHANGED <<file, running, asked, answer>>

\* A client that has asked goes away.
Leave(c) ==
  /\ phase[c] \in {"waiting", "found", "sent", "lost"}
  /\ phase' = [phase EXCEPT ![c] = "ended"]
  /\ asked' = [asked EXCEPT ![c] = Nothing] /\ answer' = [answer EXCEPT ![c] = Nothing]
  /\ UNCHANGED <<file, running, printed>>

Change == file' \in Contents /\ UNCHANGED <<running, phase, asked, answer, printed>>

ClientStep(c) ==
  \/ \E s \in Servers : Ask(c, s)
  \/ TurnAway(c) \/ Look(c) \/ Send(c) \/ Drop(c) \/ PrintAnswer(c) \/ PrintGarbage(c) \/ Leave(c)

Next == (\E c \in Clients : ClientStep(c)) \/ (\E s \in Servers : Stop(s)) \/ Change

Spec == Init /\ [][Next]_vars
===============================================================================
