------------------------------ MODULE InetLoop ------------------------------
(***************************************************************************)
(* Linux_TCP_Examples/inet_server.c and inet_client.c: an iterative server  *)
(* that exchanges sets of NSTRS strings with one client after another.      *)
(*                                                                          *)
(* Both ends set SO_LINGER to zero, so a close, or the death of a process,  *)
(* resets the connection: what the other end has not received yet is        *)
(* discarded, its next call reports the error, and from then on its reads   *)
(* find the end of the file and its sends raise SIGPIPE.                    *)
(*                                                                          *)
(* A string is one message: the characters up to and with its newline.  The *)
(* while loop over fgetc ends on EOF only where char is signed, so that the  *)
(* comparison of c with EOF can be true; signedChar says how it was built.  *)
(***************************************************************************)
EXTENDS Naturals, Sequences

CONSTANTS
  InetClients,  \* the clients that connect
  NSTRS,        \* strings in a set
  MAX_IT        \* sets a client asks for

NoClient == "none"

\* A client asks for something, and the placeholder is not a client
ASSUME InetAssumption ==
  NSTRS \in Nat \ {0} /\ MAX_IT \in Nat \ {0} /\ NoClient \notin InetClients

VARIABLES
  signedChar,     \* char is signed in this build
  srvPc,          \* where serve_clients is
  client_sock,    \* the client whose connection was accepted last
  num_sets,       \* static: what the last successful recv stored
  srvJ, srvI,     \* the static j and i
  sigpipeBlocked, \* serve_clients runs inside broken_pipe_handler
  backlog,        \* connections not accepted yet
  link,           \* the server's end of each connection
  up, down,       \* what was sent and not read yet, each way
  cliPc, cliJ, cliI, \* each client's place, j and i
  cliGot          \* strings each client has read

srvVars == <<srvPc, client_sock, num_sets, srvJ, srvI, sigpipeBlocked>>
cliVars == <<cliPc, cliJ, cliI, cliGot>>
inetVars == <<signedChar, srvVars, backlog, link, up, down, cliVars>>

\* What the state is made of
InetTypeOK ==
  /\ signedChar \in BOOLEAN /\ sigpipeBlocked \in BOOLEAN
  /\ srvPc \in {"accept", "recv", "send", "read", "close", "asking", "exit"}
  /\ client_sock \in InetClients \cup {NoClient}
  /\ num_sets \in {0, MAX_IT} /\ srvJ \in 0..MAX_IT /\ srvI \in 0..NSTRS
  /\ backlog \in Seq(InetClients)
  /\ link \in [InetClients -> {"none", "open", "reset", "dead", "closed"}]
  /\ up \in [InetClients -> Seq({"sets", "str"})]
  /\ down \in [InetClients -> 0..NSTRS * MAX_IT]
  /\ cliPc \in [InetClients -> {"start", "ask", "read", "send", "close", "exit", "killed"}]
  /\ cliJ \in [InetClients -> 0..MAX_IT] /\ cliI \in [InetClients -> 0..NSTRS]
  /\ cliGot \in [InetClients -> 0..NSTRS * MAX_IT]

InetInitAt(at) ==
  /\ signedChar \in BOOLEAN
  /\ srvPc = at /\ client_sock = NoClient
  /\ num_sets = 0 /\ srvJ = 0 /\ srvI = 0
  /\ sigpipeBlocked = FALSE
  /\ backlog = <<>>
  /\ link = [c \in InetClients |-> "none"]
  /\ up = [c \in InetClients |-> <<>>] /\ down = [c \in InetClients |-> 0]
  /\ cliPc = [c \in InetClients |-> "start"]
  /\ cliJ = [c \in InetClients |-> 0] /\ cliI = [c \in InetClients |-> 0]
  /\ cliGot = [c \in InetClients |-> 0]

-----------------------------------------------------------------------------
(* The sockets                                                              *)

\* the client's end goes away: some of what it sent never arrives
ResetByClient(c) ==
  /\ \E k \in 0..Len(up[c]) : up' = [up EXCEPT ![c] = SubSeq(@, 1, k)]
  /\ link' = [link EXCEPT ![c] = IF @ = "open" THEN "reset" ELSE @]
  /\ UNCHANGED down

\* the server's end of the connections of gone is closed
ClosedByServer(gone) ==
  /\ link' = [c \in InetClients |->
                IF c \in gone /\ link[c] # "none" THEN "closed" ELSE link[c]]
  /\ \E kept \in [gone -> 0..NSTRS * MAX_IT] :
       /\ \A c \in gone : kept[c] <= down[c]
       /\ down' = [c \in InetClients |-> IF c \in gone THEN kept[c] ELSE down[c]]
  /\ UNCHANGED up

\* at the end of the file the while loop over fgetc ends
EofEndsRead == signedChar

-----------------------------------------------------------------------------
(* serve_clients                                                            *)

Accept ==
  /\ srvPc = "accept" /\ backlog # <<>>
  /\ client_sock' = Head(backlog) /\ backlog' = Tail(backlog)
  /\ srvPc' = "recv"
  /\ UNCHANGED <<num_sets, srvJ, srvI, sigpipeBlocked, link, up, down>>

\* a failing recv leaves num_sets as the client before left it
RecvSets ==
  /\ srvPc = "recv"
  /\ \/ /\ up[client_sock] # <<>>
        /\ up' = [up EXCEPT ![client_sock] = Tail(@)]
        /\ num_sets' = MAX_IT
        /\ UNCHANGED link
     \/ /\ up[client_sock] = <<>> /\ link[client_sock] = "reset"
        /\ link' = [link EXCEPT ![client_sock] = "dead"]
        /\ UNCHANGED <<up, num_sets>>
  /\ srvJ' = 0 /\ srvI' = 0
  /\ srvPc' = IF num_sets' = 0 THEN "close" ELSE "send"
  /\ UNCHANGED <<client_sock, sigpipeBlocked, backlog, down>>

\* the first send after a reset returns the error, a later one raises SIGPIPE
SendStr ==
  /\ srvPc = "send"
  /\ LET raised == link[client_sock] = "dead" /\ ~sigpipeBlocked IN
     /\ down' = IF link[client_sock] = "open"
                  THEN [down EXCEPT ![client_sock] = @ + 1] ELSE down
     /\ link' = IF link[client_sock] = "reset"
                  THEN [link EXCEPT ![client_sock] = "dead"] ELSE link
     /\ srvI' = IF raised THEN srvI ELSE (srvI + 1) % NSTRS
     /\ srvPc' = CASE raised -> "asking"
                   [] ~raised /\ srvI + 1 = NSTRS -> "read"
                   [] OTHER -> "send"
  /\ UNCHANGED <<client_sock, num_sets, srvJ, sigpipeBlocked, backlog, up>>

\* one string of the client was read, or the end of the file was met
ReadOne ==
  \/ up[client_sock] # <<>> /\ up' = [up EXCEPT ![client_sock] = Tail(@)] /\ UNCHANGED link
  \/ /\ up[client_sock] = <<>> /\ link[client_sock] # "open" /\ EofEndsRead
     /\ link' = [link EXCEPT ![client_sock] = "dead"]
     /\ UNCHANGED up

ReadStr ==
  /\ srvPc = "read" /\ ReadOne
  /\ srvI' = (srvI + 1) % NSTRS
  /\ srvJ' = IF srvI + 1 = NSTRS THEN srvJ + 1 ELSE srvJ
  /\ srvPc' = CASE srvI + 1 < NSTRS -> "read"
                [] srvI + 1 = NSTRS /\ srvJ + 1 < num_sets -> "send"
                [] OTHER -> "close"
  /\ UNCHANGED <<client_sock, num_sets, sigpipeBlocked, backlog, down>>

CloseSock ==
  /\ srvPc = "close" /\ srvPc' = "accept"
  /\ ClosedByServer({client_sock})
  /\ UNCHANGED <<client_sock, num_sets, srvJ, srvI, sigpipeBlocked, backlog>>

serve_clients ==
  /\ Accept \/ RecvSets \/ SendStr \/ ReadStr \/ CloseSock
  /\ UNCHANGED <<signedChar, cliVars>>

\* y: serve_clients is called again and never returns to the handler
broken_pipe_handler ==
  /\ srvPc = "asking"
  /\ \/ /\ srvPc' = "accept" /\ sigpipeBlocked' = TRUE
        /\ UNCHANGED <<link, up, down>>
     \/ /\ srvPc' = "exit" /\ UNCHANGED sigpipeBlocked
        /\ ClosedByServer(InetClients)
  /\ UNCHANGED <<signedChar, client_sock, num_sets, srvJ, srvI, backlog, cliVars>>

\* Ctrl-C, whatever the answer: exit closes every socket
int_handler ==
  /\ srvPc # "exit" /\ srvPc' = "exit"
  /\ ClosedByServer(InetClients)
  /\ UNCHANGED <<signedChar, client_sock, num_sets, srvJ, srvI, sigpipeBlocked,
                 backlog, cliVars>>

-----------------------------------------------------------------------------
(* inet_client's main                                                       *)

Connect(c) ==
  /\ cliPc[c] = "start"
  /\ \/ /\ srvPc # "exit"
        /\ backlog' = Append(backlog, c) /\ link' = [link EXCEPT ![c] = "open"]
        /\ cliPc' = [cliPc EXCEPT ![c] = "ask"]
     \/ /\ cliPc' = [cliPc EXCEPT ![c] = "killed"] /\ UNCHANGED <<backlog, link>>
  /\ UNCHANGED <<up, down, cliJ, cliI, cliGot>>

\* a send to a connection the server closed is lost; SIGPIPE only prints
Sent(c, m) == up' = IF link[c] = "open" THEN [up EXCEPT ![c] = Append(@, m)] ELSE up

AskSets(c) ==
  /\ cliPc[c] = "ask" /\ cliPc' = [cliPc EXCEPT ![c] = "read"]
  /\ Sent(c, "sets")
  /\ UNCHANGED <<backlog, link, down, cliJ, cliI, cliGot>>

CliRead(c) ==
  /\ cliPc[c] = "read"
  /\ \/ /\ down[c] > 0 /\ down' = [down EXCEPT ![c] = @ - 1]
        /\ cliGot' = [cliGot EXCEPT ![c] = @ + 1]
     \/ /\ down[c] = 0 /\ link[c] = "closed" /\ EofEndsRead
        /\ UNCHANGED <<down, cliGot>>
  /\ cliI' = [cliI EXCEPT ![c] = (@ + 1) % NSTRS]
  /\ cliPc' = [cliPc EXCEPT ![c] = IF cliI[c] + 1 = NSTRS THEN "send" ELSE @]
  /\ UNCHANGED <<backlog, link, up, cliJ>>

CliSend(c) ==
  /\ cliPc[c] = "send" /\ Sent(c, "str")
  /\ cliI' = [cliI EXCEPT ![c] = (@ + 1) % NSTRS]
  /\ cliJ' = [cliJ EXCEPT ![c] = IF cliI[c] + 1 = NSTRS THEN @ + 1 ELSE @]
  /\ cliPc' = [cliPc EXCEPT ![c] =
                 CASE cliI[c] + 1 < NSTRS -> "send"
                   [] cliI[c] + 1 = NSTRS /\ cliJ[c] + 1 = MAX_IT -> "close"
                   [] OTHER -> "read"]
  /\ UNCHANGED <<backlog, link, down, cliGot>>

CliClose(c) ==
  /\ cliPc[c] = "close" /\ cliPc' = [cliPc EXCEPT ![c] = "exit"]
  /\ ResetByClient(c)
  /\ UNCHANGED <<backlog, cliJ, cliI, cliGot>>

client_main(c) ==
  /\ AskSets(c) \/ CliRead(c) \/ CliSend(c) \/ CliClose(c)
  /\ UNCHANGED <<signedChar, srvVars>>

client_starts(c) == Connect(c) /\ UNCHANGED <<signedChar, srvVars>>

\* the client is killed
CliKilled(c) ==
  /\ cliPc[c] \in {"ask", "read", "send", "close"}
  /\ cliPc' = [cliPc EXCEPT ![c] = "killed"]
  /\ ResetByClient(c)
  /\ UNCHANGED <<signedChar, srvVars, backlog, cliJ, cliI, cliGot>>

-----------------------------------------------------------------------------
InetNext ==
  \/ serve_clients \/ broken_pipe_handler \/ int_handler
  \/ \E c \in InetClients : client_starts(c) \/ client_main(c) \/ CliKilled(c)

InetSpec == InetInitAt("accept") /\ [][InetNext]_inetVars

\* the processes run; nobody must start a client, kill one or press a key
InetFairness ==
  /\ WF_inetVars(serve_clients)
  /\ \A c \in InetClients : WF_inetVars(client_main(c))

-----------------------------------------------------------------------------
\* A client that ran to its end read every string it asked for, although both
\* ends discard what is undelivered when they close, unless the server went
\* away meanwhile.
ClientReadAll ==
  \A c \in InetClients :
    cliPc[c] \in {"close", "exit"} /\ srvPc # "exit" => cliGot[c] = NSTRS * MAX_IT

\* Where char is signed, a connected client gets to its end or is killed, or
\* the server stopped or asks how to go on: no dead client, not even one that
\* left num_sets of the client before it, keeps the server from the next.
ClientsGetTheirTurn ==
  \A c \in InetClients :
    (signedChar /\ cliPc[c] = "ask") ~>
      (cliPc[c] \in {"exit", "killed"} \/ srvPc \in {"asking", "exit"})
=============================================================================
