------------------------------ MODULE IoProofs ------------------------------
(***************************************************************************)
(* Proofs about the programs that talk to each other or to a device: the   *)
(* sockets, the message queues, the serial shell and the Bt878 driver, for *)
(* any number of clients, strings, messages, blocks, SIGINTs and frames.   *)
(***************************************************************************)
EXTENDS InetLoop, MessageQueues, SerialUtil, Btvid, TLAPS

-----------------------------------------------------------------------------
(* InetLoop: what the server of inet_loop still owes a client, what is on   *)
(* its way and what the client has read add up to what the client asked for.*)

\* strings in j sets
Sets(j) == j * NSTRS

\* Strings are counted by sets.
LEMMA SetsFacts ==
  ASSUME NEW j \in Nat
  PROVE  /\ Sets(j) \in Nat /\ Sets(0) = 0 /\ Sets(j + 1) = Sets(j) + NSTRS
         /\ Sets(MAX_IT) \in Nat /\ (j < MAX_IT => Sets(j) + NSTRS <= Sets(MAX_IT))
<1>1. NSTRS \in Nat /\ MAX_IT \in Nat
  BY Zenon, InetAssumption
<1>2. \A a, b \in Nat : a * b \in Nat /\ 0 * b = 0 /\ (a + 1) * b = a * b + b
  BY SMTT(30)
<1>3. ASSUME j < MAX_IT PROVE j * NSTRS + NSTRS <= MAX_IT * NSTRS
  <2>1. \A a, b, m \in Nat : a < m => a * b + b <= m * b
    BY SMTT(30)
  <2> QED
    BY Zenon, <1>1, <1>3, <2>1
<1> QED
  BY Zenon, <1>1, <1>2, <1>3 DEF Sets

\* The loops over i wrap at NSTRS.
LEMMA WrapFacts ==
  ASSUME NEW i \in Nat, i < NSTRS
  PROVE  (i + 1) % NSTRS = IF i + 1 = NSTRS THEN 0 ELSE i + 1
<1>1. NSTRS \in Nat \ {0}
  BY Zenon, InetAssumption
<1>2. \A a \in Nat, b \in Nat \ {0} : a < b => a % b = a
  BY SMTT(30)
<1>3. \A b \in Nat \ {0} : b % b = 0
  BY SMTT(30)
<1>4. CASE i + 1 = NSTRS
  BY Zenon, <1>1, <1>3, <1>4
<1>5. CASE i + 1 # NSTRS
  <2>1. i + 1 \in Nat /\ i + 1 < NSTRS
    BY <1>1, <1>5
  <2> QED
    BY Zenon, <1>1, <1>2, <1>5, <2>1
<1> QED
  BY Zenon, <1>4, <1>5

\* Strings a client has sent, and strings it has read or should have
StrsSent(c) == Sets(cliJ[c]) + (IF cliPc[c] = "send" THEN cliI[c] ELSE 0)
StrsRead(c) == Sets(cliJ[c]) + (IF cliPc[c] = "read" THEN cliI[c]
                                ELSE IF cliPc[c] = "send" THEN NSTRS ELSE 0)

\* Messages of c that serve_clients has taken
Taken(c) ==
  IF c = client_sock /\ srvPc \in {"send", "read", "close"}
  THEN 1 + Sets(srvJ) + (IF srvPc = "read" THEN srvI ELSE 0) ELSE 0

InetTypes ==
  /\ srvJ \in Nat /\ srvI \in Nat /\ num_sets \in {0, MAX_IT}
  /\ srvPc \in {"accept", "recv", "send", "read", "close", "asking", "exit"}
  /\ client_sock \in InetClients \cup {NoClient}
  /\ backlog \in Seq(InetClients)
  /\ link \in [InetClients -> {"none", "open", "reset", "dead", "closed"}]
  /\ up \in [InetClients -> Seq({"sets", "str"})]
  /\ down \in [InetClients -> Nat]
  /\ cliPc \in [InetClients -> {"start", "ask", "read", "send", "close", "exit", "killed"}]
  /\ cliJ \in [InetClients -> Nat] /\ cliI \in [InetClients -> Nat]
  /\ cliGot \in [InetClients -> Nat]

\* Where a client's loops are, and that it has read all it went through.
ClientLoops(c) ==
  /\ cliPc[c] \in {"start", "ask"} => cliJ[c] = 0 /\ cliI[c] = 0
  /\ cliPc[c] \in {"read", "send"} => cliJ[c] < MAX_IT /\ cliI[c] < NSTRS
  /\ cliPc[c] \in {"close", "exit"} => cliJ[c] = MAX_IT
  /\ cliPc[c] # "killed" => cliGot[c] = StrsRead(c)

\* A connection ends only when its client has no more to read, and what was
\* sent over an open one was taken by the server or is still there.
ClientLink(c) ==
  /\ cliPc[c] = "start" => link[c] = "none" /\ up[c] = <<>>
  /\ link[c] = "none" => cliPc[c] \in {"start", "killed"}
  /\ link[c] \in {"reset", "dead", "closed"} => cliPc[c] \in {"close", "exit", "killed"}
  /\ link[c] = "open" =>
       /\ cliPc[c] \in {"ask", "read", "send", "close"}
       /\ Len(up[c]) + Taken(c) = (IF cliPc[c] = "ask" THEN 0 ELSE 1) + StrsSent(c)

\* serve_clients and the connection it serves.
Serving ==
  /\ srvPc \in {"recv", "send", "read", "close"} => client_sock \in InetClients
  /\ client_sock \in InetClients => cliPc[client_sock] # "start"
  /\ srvPc \in {"accept", "asking"} /\ client_sock \in InetClients => link[client_sock] # "open"
  /\ srvPc \in {"send", "read"} => num_sets = MAX_IT /\ srvJ < MAX_IT /\ srvI < NSTRS
  /\ srvPc = "close" /\ link[client_sock] = "open" => cliPc[client_sock] = "close"
  /\ \A k \in 1..Len(backlog) : cliPc[backlog[k]] # "start"

InetInv ==
  srvPc # "exit" =>
    InetTypes /\ Serving /\ \A c \in InetClients : ClientLoops(c) /\ ClientLink(c)

\* It holds before a client connects, and when the server has ended.
LEMMA InetInitInv ==
  ASSUME NEW at \in {"accept", "exit"}, InetInitAt(at) PROVE InetInv
<1> SUFFICES ASSUME srvPc # "exit"
             PROVE  InetTypes /\ Serving /\ \A c \in InetClients : ClientLoops(c) /\ ClientLink(c)
  BY Zenon DEF InetInv
<1>1. srvPc = "accept"
  BY Zenon DEF InetInitAt
<1>2. InetTypes
  BY <1>1 DEF InetInitAt, InetTypes
<1>3. Serving
  BY <1>1, InetAssumption DEF InetInitAt, Serving
<1>4. ASSUME NEW c \in InetClients PROVE ClientLoops(c) /\ ClientLink(c)
  <2>1. Sets(0) = 0
    BY Zenon, SetsFacts
  <2> QED
    BY <2>1 DEF InetInitAt, ClientLoops, ClientLink, StrsRead
<1> QED
  BY Zenon, <1>2, <1>3, <1>4

\* A message leaves a connection at its head and enters it at its end.
LEMMA MessageFacts ==
  ASSUME NEW s \in Seq({"sets", "str"})
  PROVE  /\ Len(s) \in Nat
         /\ s # <<>> => Tail(s) \in Seq({"sets", "str"}) /\ Len(Tail(s)) = Len(s) - 1 /\ Len(s) > 0
         /\ \A m \in {"sets", "str"} :
              Append(s, m) \in Seq({"sets", "str"}) /\ Len(Append(s, m)) = Len(s) + 1
         /\ \A k \in 0..Len(s) : SubSeq(s, 1, k) \in Seq({"sets", "str"})
  OBVIOUS

\* accept takes the connection that waits longest.
LEMMA BacklogFacts ==
  ASSUME NEW S, NEW s \in Seq(S), s # <<>>
  PROVE  /\ Head(s) \in S /\ Head(s) = s[1] /\ 1 \in 1..Len(s) /\ Len(s) \in Nat
         /\ Tail(s) \in Seq(S) /\ Len(Tail(s)) = Len(s) - 1
         /\ \A k \in 1..Len(Tail(s)) : Tail(s)[k] = s[k + 1] /\ k + 1 \in 1..Len(s)
  OBVIOUS

\* The loops of the clients do not depend on the server's steps.
LEMMA LoopsSame ==
  ASSUME NEW c \in InetClients, ClientLoops(c), UNCHANGED cliVars
  PROVE  ClientLoops(c)'
  BY Zenon DEF ClientLoops, StrsRead, cliVars

\* serve_clients takes the next connection.
LEMMA AcceptInv ==
  ASSUME InetInv, Accept, UNCHANGED cliVars PROVE InetInv'
<1>0. /\ srvPc = "accept" /\ srvPc' = "recv"
      /\ UNCHANGED <<num_sets, srvJ, srvI, link, up, down, cliPc, cliJ, cliI, cliGot>>
  BY Zenon DEF Accept, cliVars
<1>1. InetTypes /\ Serving /\ \A c \in InetClients : ClientLoops(c) /\ ClientLink(c)
  BY Zenon, <1>0 DEF InetInv
<1>2. /\ client_sock' \in InetClients /\ client_sock' = backlog[1] /\ 1 \in 1..Len(backlog)
      /\ backlog' \in Seq(InetClients) /\ Len(backlog') = Len(backlog) - 1
      /\ Len(backlog) \in Nat
      /\ \A k \in 1..Len(backlog') : backlog'[k] = backlog[k + 1] /\ k + 1 \in 1..Len(backlog)
  BY Zenon, <1>1, BacklogFacts DEF Accept, InetTypes
<1>3. InetTypes'
  BY Zenon, <1>0, <1>1, <1>2 DEF InetTypes
<1>4. Serving'
  BY Zenon, <1>0, <1>1, <1>2 DEF Serving
<1>5. ASSUME NEW c \in InetClients PROVE ClientLoops(c)' /\ ClientLink(c)'
  <2>1. ClientLoops(c)'
    BY Zenon, <1>1, LoopsSame
  <2>2. Taken(c) = 0 /\ Taken(c)' = 0
    BY Zenon, <1>0 DEF Taken
  <2>3. StrsSent(c)' = StrsSent(c)
    BY Zenon, <1>0 DEF StrsSent
  <2> QED
    BY Zenon, <1>0, <1>1, <2>1, <2>2, <2>3 DEF ClientLink
<1> QED
  BY Zenon, <1>3, <1>4, <1>5 DEF InetInv

\* It reads how many sets are wanted, or learns that the client is gone.
LEMMA RecvSetsInv ==
  ASSUME InetInv, RecvSets, UNCHANGED cliVars PROVE InetInv'
<1>0. /\ srvPc = "recv" /\ srvPc' \in {"close", "send"} /\ srvJ' = 0 /\ srvI' = 0
      /\ (srvPc' = "close" <=> num_sets' = 0)
      /\ UNCHANGED <<client_sock, backlog, down, cliPc, cliJ, cliI, cliGot>>
  BY Zenon DEF RecvSets, cliVars
<1>1. InetTypes /\ Serving /\ \A c \in InetClients : ClientLoops(c) /\ ClientLink(c)
  BY Zenon, <1>0 DEF InetInv
<1> DEFINE d == client_sock
<1>2. d \in InetClients /\ up[d] \in Seq({"sets", "str"})
  BY Zenon, <1>0, <1>1 DEF Serving, InetTypes
<1>3. MAX_IT \in Nat \ {0} /\ NSTRS \in Nat \ {0} /\ Sets(0) = 0
  BY Zenon, InetAssumption, SetsFacts
<1>4. /\ num_sets' \in {0, MAX_IT} /\ link' \in [InetClients -> {"none", "open", "reset", "dead", "closed"}]
      /\ up' \in [InetClients -> Seq({"sets", "str"})]
      /\ \A c \in InetClients : c # d => link'[c] = link[c] /\ up'[c] = up[c]
      /\ \/ num_sets' = MAX_IT /\ link' = link /\ Len(up'[d]) = Len(up[d]) - 1
         \/ link[d] = "reset" /\ link'[d] = "dead" /\ up'[d] = up[d]
  <2>1. CASE /\ up[d] # <<>> /\ up' = [up EXCEPT ![d] = Tail(@)]
             /\ num_sets' = MAX_IT /\ link' = link
    BY Zenon, <1>1, <1>2, <2>1, MessageFacts DEF InetTypes
  <2>2. CASE /\ link[d] = "reset" /\ link' = [link EXCEPT ![d] = "dead"]
             /\ UNCHANGED <<up, num_sets>>
    BY Zenon, <1>1, <1>2, <2>2 DEF InetTypes
  <2> QED
    BY Zenon, <2>1, <2>2 DEF RecvSets
<1>5. InetTypes'
  BY Zenon, <1>0, <1>1, <1>4 DEF InetTypes
<1>6. Serving'
  BY <1>0, <1>1, <1>2, <1>3, <1>4 DEF Serving, InetTypes
<1>7. ASSUME NEW c \in InetClients PROVE ClientLoops(c)' /\ ClientLink(c)'
  <2>1. ClientLoops(c)'
    BY Zenon, <1>1, LoopsSame
  <2>2. Taken(c) = 0 /\ Taken(c)' = IF c = d THEN 1 ELSE 0
    BY <1>0, <1>3 DEF Taken
  <2>3. StrsSent(c)' = StrsSent(c)
    BY Zenon, <1>0 DEF StrsSent
  <2>4. Len(up[c]) \in Nat
    BY Zenon, <1>1, MessageFacts DEF InetTypes
  <2>5. CASE c # d
    BY Zenon, <1>0, <1>1, <1>4, <2>1, <2>2, <2>3, <2>5 DEF ClientLink
  <2>6. CASE c = d
    <3>1. cliPc[c] # "start" /\ cliPc'[c] = cliPc[c]
      BY Zenon, <1>0, <1>1, <2>6 DEF Serving
    <3>2. CASE link' = link /\ Len(up'[d]) = Len(up[d]) - 1
      BY <1>1, <2>1, <2>2, <2>3, <2>4, <2>6, <3>1, <3>2 DEF ClientLink
    <3>3. CASE link[d] = "reset" /\ link'[d] = "dead" /\ up'[d] = up[d]
      BY Zenon, <1>1, <2>1, <2>6, <3>1, <3>3 DEF ClientLink
    <3> QED
      BY Zenon, <1>4, <3>2, <3>3
  <2> QED
    BY Zenon, <2>5, <2>6
<1> QED
  BY Zenon, <1>5, <1>6, <1>7 DEF InetInv

\* It sends a string, or SIGPIPE is raised.
LEMMA SendStrInv ==
  ASSUME InetInv, SendStr, UNCHANGED cliVars PROVE InetInv'
<1> DEFINE d == client_sock
           raised == link[d] = "dead" /\ ~sigpipeBlocked
<1>0. /\ srvPc = "send" /\ UNCHANGED <<client_sock, num_sets, srvJ, backlog, up>>
      /\ UNCHANGED <<cliPc, cliJ, cliI, cliGot>>
  BY Zenon DEF SendStr, cliVars
<1>1. InetTypes /\ Serving /\ \A c \in InetClients : ClientLoops(c) /\ ClientLink(c)
  BY Zenon, <1>0 DEF InetInv
<1>2. d \in InetClients /\ srvI \in Nat /\ srvI < NSTRS /\ NSTRS \in Nat \ {0}
  BY Zenon, <1>0, <1>1, InetAssumption DEF Serving, InetTypes
<1>3. (srvI + 1) % NSTRS = IF srvI + 1 = NSTRS THEN 0 ELSE srvI + 1
  BY Zenon, <1>2, WrapFacts
<1>4. \/ raised /\ srvI' = srvI /\ srvPc' = "asking"
      \/ srvI + 1 = NSTRS /\ srvI' = 0 /\ srvPc' = "read"
      \/ srvI + 1 # NSTRS /\ srvI' = srvI + 1 /\ srvPc' = "send"
  <2>1. CASE raised
    BY Zenon, <2>1 DEF SendStr
  <2>2. CASE ~raised /\ srvI + 1 = NSTRS
    BY Zenon, <2>2, <1>3 DEF SendStr
  <2>3. CASE ~raised /\ srvI + 1 # NSTRS
    BY Zenon, <2>3, <1>3 DEF SendStr
  <2> QED
    BY Zenon, <2>1, <2>2, <2>3
<1>5. /\ link' \in [InetClients -> {"none", "open", "reset", "dead", "closed"}]
      /\ down' \in [InetClients -> Nat]
      /\ \A c \in InetClients : link'[c] = link[c] \/ (link[c] = "reset" /\ link'[c] = "dead")
  BY <1>1, <1>2 DEF SendStr, InetTypes
<1>6. InetTypes'
  BY SMTT(20), <1>0, <1>1, <1>2, <1>4, <1>5 DEF InetTypes
<1>7. Serving'
  BY <1>0, <1>1, <1>2, <1>4, <1>5 DEF Serving
<1>8. ASSUME NEW c \in InetClients PROVE ClientLoops(c)' /\ ClientLink(c)'
  <2>1. ClientLoops(c)'
    BY Zenon, <1>1, LoopsSame
  <2>2. StrsSent(c)' = StrsSent(c) /\ Sets(srvJ) \in Nat
    BY Zenon, <1>0, <1>1, SetsFacts DEF StrsSent, InetTypes
  <2>3. raised \/ Taken(c)' = Taken(c)
    BY Zenon, <1>0, <1>4, <2>2 DEF Taken
  <2>4. CASE c = d /\ raised
    BY Zenon, <1>0, <1>1, <1>5, <2>1, <2>4 DEF ClientLink
  <2>5. CASE c # d
    <3>1. Taken(c)' = Taken(c)
      BY Zenon, <1>0, <2>5 DEF Taken
    <3> QED
      BY Zenon, <1>0, <1>1, <1>5, <2>1, <2>2, <3>1 DEF ClientLink
  <2>6. CASE ~raised
    BY Zenon, <1>0, <1>1, <1>5, <2>1, <2>2, <2>3, <2>6 DEF ClientLink
  <2> QED
    BY Zenon, <2>4, <2>5, <2>6
<1> QED
  BY Zenon, <1>6, <1>7, <1>8 DEF InetInv

\* It reads a string; after the last one the client has sent all of them.
LEMMA ReadStrInv ==
  ASSUME InetInv, ReadStr, UNCHANGED cliVars PROVE InetInv'
<1> DEFINE d == client_sock
<1>0. /\ srvPc = "read" /\ UNCHANGED <<client_sock, num_sets, backlog, down>>
      /\ UNCHANGED <<cliPc, cliJ, cliI, cliGot>>
  BY Zenon DEF ReadStr, cliVars
<1>1. InetTypes /\ Serving /\ \A c \in InetClients : ClientLoops(c) /\ ClientLink(c)
  BY Zenon, <1>0 DEF InetInv
<1>2. /\ d \in InetClients /\ srvI \in Nat /\ srvI < NSTRS /\ NSTRS \in Nat \ {0}
      /\ srvJ \in Nat /\ srvJ < MAX_IT /\ num_sets = MAX_IT /\ MAX_IT \in Nat
      /\ up[d] \in Seq({"sets", "str"})
  BY Zenon, <1>0, <1>1, InetAssumption DEF Serving, InetTypes
<1>3. (srvI + 1) % NSTRS = IF srvI + 1 = NSTRS THEN 0 ELSE srvI + 1
  BY Zenon, <1>2, WrapFacts
<1>4. \/ srvI + 1 < NSTRS /\ srvI' = srvI + 1 /\ srvJ' = srvJ /\ srvPc' = "read"
      \/ /\ srvI + 1 = NSTRS /\ srvI' = 0 /\ srvJ' = srvJ + 1
         /\ \/ srvJ + 1 < MAX_IT /\ srvPc' = "send"
            \/ srvJ + 1 = MAX_IT /\ srvPc' = "close"
  <2>1. CASE srvI + 1 < NSTRS
    BY <2>1, <1>2, <1>3 DEF ReadStr
  <2>2. CASE srvI + 1 = NSTRS /\ srvJ + 1 < MAX_IT
    BY <2>2, <1>2, <1>3 DEF ReadStr
  <2>3. CASE srvI + 1 = NSTRS /\ srvJ + 1 = MAX_IT
    BY <2>3, <1>2, <1>3 DEF ReadStr
  <2> QED
    BY <1>2, <2>1, <2>2, <2>3
<1>5. /\ link' \in [InetClients -> {"none", "open", "reset", "dead", "closed"}]
      /\ up' \in [InetClients -> Seq({"sets", "str"})]
      /\ \A c \in InetClients : c # d => link'[c] = link[c] /\ up'[c] = up[c]
      /\ \/ link' = link /\ Len(up'[d]) = Len(up[d]) - 1
         \/ link[d] # "open" /\ link'[d] = "dead" /\ up'[d] = up[d]
  <2>1. CASE up[d] # <<>> /\ up' = [up EXCEPT ![d] = Tail(@)] /\ link' = link
    BY Zenon, <1>1, <1>2, <2>1, MessageFacts DEF InetTypes
  <2>2. CASE link[d] # "open" /\ link' = [link EXCEPT ![d] = "dead"] /\ up' = up
    BY Zenon, <1>1, <1>2, <2>2 DEF InetTypes
  <2> QED
    BY Zenon, <2>1, <2>2 DEF ReadStr, ReadOne
<1>6. InetTypes'
  BY SMTT(20), <1>0, <1>1, <1>2, <1>4, <1>5 DEF InetTypes
<1>7. Taken(d) \in Nat /\ Taken(d)' = Taken(d) + 1
  <2>1. Sets(srvJ) \in Nat /\ Sets(srvJ + 1) = Sets(srvJ) + NSTRS
    BY Zenon, <1>2, SetsFacts
  <2>2. Taken(d) = 1 + Sets(srvJ) + srvI
    BY Zenon, <1>0 DEF Taken
  <2>3. CASE srvI + 1 < NSTRS /\ srvI' = srvI + 1 /\ srvJ' = srvJ /\ srvPc' = "read"
    <3>1. Taken(d)' = 1 + Sets(srvJ) + (srvI + 1)
      BY Zenon, <1>0, <2>3 DEF Taken
    <3> QED
      BY <1>2, <2>1, <2>2, <3>1
  <2>4. CASE /\ srvI + 1 = NSTRS /\ srvI' = 0 /\ srvJ' = srvJ + 1
             /\ srvPc' \in {"send", "close"}
    <3>1. Taken(d)' = 1 + Sets(srvJ + 1) + 0
      BY Zenon, <1>0, <2>4 DEF Taken
    <3> QED
      BY <1>2, <2>1, <2>2, <2>4, <3>1
  <2> QED
    BY Zenon, <1>4, <2>3, <2>4
<1>8. link[d] # "open" => cliPc[d] \in {"close", "exit", "killed"}
  <2>1. ClientLink(d) /\ cliPc[d] # "start"
    BY Zenon, <1>1, <1>2 DEF Serving
  <2>2. link[d] \in {"none", "open", "reset", "dead", "closed"}
    BY Zenon, <1>1, <1>2 DEF InetTypes
  <2> QED
    BY Zenon, <2>1, <2>2 DEF ClientLink
<1>9. ASSUME NEW c \in InetClients PROVE ClientLoops(c)' /\ ClientLink(c)'
  <2>1. ClientLoops(c)'
    BY Zenon, <1>1, LoopsSame
  <2>2. StrsSent(c)' = StrsSent(c) /\ Len(up[c]) \in Nat
    BY Zenon, <1>0, <1>1, MessageFacts DEF StrsSent, InetTypes
  <2>3. CASE c # d
    <3>1. Taken(c) = 0 /\ Taken(c)' = 0
      BY Zenon, <1>0, <2>3 DEF Taken
    <3> QED
      BY Zenon, <1>0, <1>1, <1>5, <2>1, <2>2, <2>3, <3>1 DEF ClientLink
  <2>4. CASE c = d
    <3>1. cliPc[c] # "start" /\ cliPc'[c] = cliPc[c]
      BY Zenon, <1>0, <1>1, <2>4 DEF Serving
    <3>2. CASE link' = link /\ Len(up'[d]) = Len(up[d]) - 1
      <4>1. Taken(c) \in Nat /\ Taken(c)' = Taken(c) + 1 /\ Len(up'[c]) = Len(up[c]) - 1
        BY Zenon, <1>0, <1>7, <2>4, <3>2
      <4>2. Len(up'[c]) + Taken(c)' = Len(up[c]) + Taken(c)
        BY <2>2, <4>1
      <4> QED
        BY Zenon, <1>1, <2>1, <2>2, <3>1, <3>2, <4>2 DEF ClientLink
    <3>3. CASE link[d] # "open" /\ link'[d] = "dead" /\ up'[d] = up[d]
      BY Zenon, <1>1, <1>8, <2>1, <2>4, <3>1, <3>3 DEF ClientLink
    <3> QED
      BY Zenon, <1>5, <3>2, <3>3
  <2> QED
    BY Zenon, <2>3, <2>4
<1>10. ASSUME NEW c \in InetClients, c = d, srvPc' = "close", link'[c] = "open"
       PROVE  cliPc[c] = "close"
  <2>1. Taken(c)' = 1 + Sets(MAX_IT)
    <3>1. srvJ' = MAX_IT
      BY Zenon, <1>2, <1>4, <1>10
    <3>2. Sets(srvJ)' = Sets(MAX_IT) /\ Sets(MAX_IT) \in Nat
      BY Zenon, <1>2, <3>1, SetsFacts DEF Sets
    <3> QED
      BY <1>0, <1>10, <3>2 DEF Taken
  <2>2. Len(up'[c]) \in Nat
    BY Zenon, <1>5, MessageFacts
  <2>3. /\ cliPc[c] \in {"ask", "read", "send", "close"}
        /\ Len(up'[c]) + Taken(c)' = (IF cliPc[c] = "ask" THEN 0 ELSE 1) + StrsSent(c)
    <3>1. StrsSent(c)' = StrsSent(c) /\ cliPc' = cliPc
      BY Zenon, <1>0 DEF StrsSent
    <3> QED
      BY Zenon, <1>9, <1>10, <3>1 DEF ClientLink
  <2>4. /\ cliJ[c] \in Nat /\ cliI[c] \in Nat
        /\ cliPc[c] = "ask" => cliJ[c] = 0
        /\ cliPc[c] \in {"read", "send"} => cliJ[c] < MAX_IT /\ cliI[c] < NSTRS
    BY Zenon, <1>1 DEF ClientLoops, InetTypes
  <2>5. /\ Sets(cliJ[c]) \in Nat /\ Sets(MAX_IT) \in Nat /\ Sets(0) = 0
        /\ cliJ[c] < MAX_IT => Sets(cliJ[c]) + NSTRS <= Sets(MAX_IT)
    BY Zenon, <2>4, SetsFacts
  <2>6. cliPc[c] # "ask"
    BY <2>1, <2>2, <2>3, <2>4, <2>5 DEF StrsSent
  <2>7. cliPc[c] # "read"
    BY <1>2, <2>1, <2>2, <2>3, <2>4, <2>5 DEF StrsSent
  <2>8. cliPc[c] # "send"
    BY SMTT(20), <1>2, <2>1, <2>2, <2>3, <2>4, <2>5 DEF StrsSent
  <2> QED
    BY Zenon, <2>3, <2>6, <2>7, <2>8
<1>11. Serving'
  BY <1>0, <1>1, <1>2, <1>4, <1>5, <1>10 DEF Serving
<1> QED
  BY Zenon, <1>6, <1>9, <1>11 DEF InetInv

\* It closes the connection of a client that needs it no more.
LEMMA CloseSockInv ==
  ASSUME InetInv, CloseSock, UNCHANGED cliVars PROVE InetInv'
<1> DEFINE d == client_sock
<1>0. /\ srvPc = "close" /\ srvPc' = "accept"
      /\ UNCHANGED <<client_sock, num_sets, srvJ, srvI, backlog, up, cliPc, cliJ, cliI, cliGot>>
  BY Zenon DEF CloseSock, ClosedByServer, cliVars
<1>1. InetTypes /\ Serving /\ \A c \in InetClients : ClientLoops(c) /\ ClientLink(c)
  BY Zenon, <1>0 DEF InetInv
<1>2. d \in InetClients
  BY Zenon, <1>0, <1>1 DEF Serving
<1>3. link' = [c \in InetClients |-> IF c \in {d} /\ link[c] # "none" THEN "closed" ELSE link[c]]
  BY Zenon DEF CloseSock, ClosedByServer
<1>4. down' \in [InetClients -> Nat]
  <2>1. PICK kept \in [{d} -> 0..NSTRS * MAX_IT] :
          down' = [c \in InetClients |-> IF c \in {d} THEN kept[c] ELSE down[c]]
    BY Zenon DEF CloseSock, ClosedByServer
  <2>2. kept[d] \in Nat
    OBVIOUS
  <2> QED
    BY Zenon, <1>1, <2>1, <2>2 DEF InetTypes
<1>5. InetTypes'
  BY Zenon, <1>0, <1>1, <1>3, <1>4 DEF InetTypes
<1>6. Serving'
  BY Zenon, <1>0, <1>1, <1>2, <1>3 DEF Serving, InetTypes
<1>7. ASSUME NEW c \in InetClients PROVE ClientLoops(c)' /\ ClientLink(c)'
  <2>1. ClientLoops(c)'
    BY Zenon, <1>1, LoopsSame
  <2>2. StrsSent(c)' = StrsSent(c)
    BY Zenon, <1>0 DEF StrsSent
  <2>3. CASE c # d
    <3>1. Taken(c) = 0 /\ Taken(c)' = 0 /\ link'[c] = link[c]
      BY Zenon, <1>0, <1>3, <2>3 DEF Taken
    <3> QED
      BY Zenon, <1>0, <1>1, <2>1, <2>2, <3>1 DEF ClientLink
  <2>4. CASE c = d
    <3>1. cliPc[c] # "start" /\ cliPc'[c] = cliPc[c]
      BY Zenon, <1>0, <1>1, <2>4 DEF Serving
    <3>2. link'[c] = (IF link[c] = "none" THEN "none" ELSE "closed")
      BY Zenon, <1>3, <2>4
    <3>3. link[c] # "none" => cliPc[c] \in {"close", "exit", "killed"}
      BY Zenon, <1>0, <1>1, <2>4 DEF ClientLink, Serving, InetTypes
    <3> QED
      BY Zenon, <1>1, <2>1, <3>1, <3>2, <3>3 DEF ClientLink
  <2> QED
    BY Zenon, <2>3, <2>4
<1> QED
  BY Zenon, <1>5, <1>6, <1>7 DEF InetInv

\* The user lets the server go on with the next client.
LEMMA GoOnInv ==
  ASSUME InetInv, srvPc = "asking", srvPc' = "accept",
         UNCHANGED <<link, up, down, client_sock, num_sets, srvJ, srvI, backlog, cliVars>>
  PROVE  InetInv'
<1>1. InetTypes /\ Serving /\ \A c \in InetClients : ClientLoops(c) /\ ClientLink(c)
  BY Zenon DEF InetInv
<1>2. InetTypes' /\ Serving'
  BY Zenon, <1>1 DEF InetTypes, Serving, cliVars
<1>3. ASSUME NEW c \in InetClients PROVE ClientLoops(c)' /\ ClientLink(c)'
  <2>1. ClientLoops(c)'
    BY Zenon, <1>1, LoopsSame
  <2>2. Taken(c) = 0 /\ Taken(c)' = 0
    BY Zenon DEF Taken
  <2>3. StrsSent(c)' = StrsSent(c)
    BY Zenon DEF StrsSent, cliVars
  <2> QED
    BY Zenon, <1>1, <2>1, <2>2, <2>3 DEF ClientLink, cliVars
<1> QED
  BY Zenon, <1>2, <1>3 DEF InetInv

\* A step of one client leaves the others as they are.
LEMMA OthersSame ==
  ASSUME NEW c \in InetClients, ClientLoops(c), ClientLink(c), UNCHANGED srvVars,
         link'[c] = link[c], up'[c] = up[c],
         cliPc'[c] = cliPc[c], cliJ'[c] = cliJ[c], cliI'[c] = cliI[c], cliGot'[c] = cliGot[c]
  PROVE  ClientLoops(c)' /\ ClientLink(c)'
<1>1. StrsRead(c)' = StrsRead(c) /\ StrsSent(c)' = StrsSent(c)
  BY Zenon DEF StrsRead, StrsSent, Sets
<1>2. Taken(c)' = Taken(c)
  BY Zenon DEF Taken, Sets, srvVars
<1> QED
  BY Zenon, <1>1, <1>2 DEF ClientLoops, ClientLink

\* What a client may do without disturbing the server.
LEMMA ServingKept ==
  ASSUME InetTypes, Serving, UNCHANGED srvVars, UNCHANGED backlog,
         \A c \in InetClients :
           /\ cliPc[c] # "start" => cliPc'[c] # "start"
           /\ link'[c] = "open" => link[c] = "open"
           /\ cliPc[c] = "close" /\ link'[c] = "open" => cliPc'[c] = "close"
  PROVE  Serving'
<1>1. \A k \in 1..Len(backlog) : backlog[k] \in InetClients
  BY DEF InetTypes
<1> QED
  BY Zenon, <1>1 DEF Serving, srvVars

\* A client connects, or is killed before it does.
LEMMA ConnectInv ==
  ASSUME InetInv, NEW e \in InetClients, client_starts(e) PROVE InetInv'
<1> SUFFICES ASSUME srvPc # "exit" PROVE InetInv'
  BY Zenon DEF InetInv, client_starts, srvVars
<1>0. /\ cliPc[e] = "start" /\ UNCHANGED <<up, down, cliJ, cliI, cliGot>> /\ UNCHANGED srvVars
      /\ \/ /\ backlog' = Append(backlog, e) /\ link' = [link EXCEPT ![e] = "open"]
            /\ cliPc' = [cliPc EXCEPT ![e] = "ask"]
         \/ cliPc' = [cliPc EXCEPT ![e] = "killed"] /\ UNCHANGED <<backlog, link>>
  BY Zenon DEF client_starts, Connect
<1>1. InetTypes /\ Serving /\ \A c \in InetClients : ClientLoops(c) /\ ClientLink(c)
  BY Zenon DEF InetInv
<1>2. client_sock # e
  BY Zenon, <1>0, <1>1 DEF Serving
<1>3. ASSUME NEW c \in InetClients, c # e PROVE ClientLoops(c)' /\ ClientLink(c)'
  <2>1. link'[c] = link[c] /\ cliPc'[c] = cliPc[c]
    BY Zenon, <1>0, <1>1, <1>3 DEF InetTypes
  <2> QED
    BY Zenon, <1>0, <1>1, <2>1, OthersSame
<1>4. CASE /\ backlog' = Append(backlog, e) /\ link' = [link EXCEPT ![e] = "open"]
           /\ cliPc' = [cliPc EXCEPT ![e] = "ask"]
  <2>1. link'[e] = "open" /\ cliPc'[e] = "ask" /\ up[e] = <<>> /\ cliJ[e] = 0 /\ cliI[e] = 0
    BY Zenon, <1>0, <1>1, <1>4 DEF InetTypes, ClientLink, ClientLoops
  <2>2. /\ backlog' \in Seq(InetClients) /\ Len(backlog') = Len(backlog) + 1
        /\ Len(backlog) \in Nat /\ backlog'[Len(backlog) + 1] = e
        /\ \A k \in 1..Len(backlog) : backlog'[k] = backlog[k] /\ backlog[k] \in InetClients
    BY <1>1, <1>4 DEF InetTypes
  <2>3. InetTypes'
    BY Zenon, <1>0, <1>1, <1>4, <2>2 DEF InetTypes, srvVars
  <2>4. \A c \in InetClients : c # e => cliPc'[c] = cliPc[c] /\ link'[c] = link[c]
    BY Zenon, <1>1, <1>4 DEF InetTypes
  <2>5. Serving'
    <3>1. \A k \in 1..Len(backlog') : cliPc'[backlog'[k]] # "start"
      BY <1>1, <2>1, <2>2, <2>4 DEF Serving
    <3> QED
      BY Zenon, <1>0, <1>1, <1>2, <2>4, <3>1 DEF Serving, srvVars
  <2>6. ClientLoops(e)' /\ ClientLink(e)'
    <3>1. Sets(0) = 0
      BY Zenon, SetsFacts
    <3>2. StrsSent(e)' = 0 /\ StrsRead(e)' = 0
      BY <1>0, <2>1, <3>1 DEF StrsSent, StrsRead
    <3>3. Taken(e)' = 0
      BY Zenon, <1>0, <1>2 DEF Taken, srvVars
    <3>4. cliGot[e] = 0
      BY <1>0, <1>1, <2>1, <3>1 DEF ClientLoops, StrsRead
    <3>5. Len(up'[e]) = 0
      BY Zenon, <1>0, <2>1
    <3> QED
      BY Zenon, <1>0, <2>1, <3>2, <3>3, <3>4, <3>5 DEF ClientLoops, ClientLink
  <2> QED
    BY Zenon, <1>3, <2>3, <2>5, <2>6 DEF InetInv
<1>5. CASE cliPc' = [cliPc EXCEPT ![e] = "killed"] /\ UNCHANGED <<backlog, link>>
  <2>1. InetTypes' /\ cliPc'[e] = "killed" /\ link[e] = "none"
    BY Zenon, <1>0, <1>1, <1>5 DEF InetTypes, srvVars, ClientLink
  <2>2. \A c \in InetClients : c # e => cliPc'[c] = cliPc[c]
    BY Zenon, <1>1, <1>5 DEF InetTypes
  <2>3. Serving'
    BY Zenon, <1>0, <1>1, <1>5, <2>1, <2>2, ServingKept
  <2>4. ClientLoops(e)' /\ ClientLink(e)'
    BY Zenon, <1>5, <2>1 DEF ClientLoops, ClientLink
  <2> QED
    BY Zenon, <1>3, <2>1, <2>3, <2>4 DEF InetInv
<1> QED
  BY Zenon, <1>0, <1>4, <1>5

\* A client that ends, or is killed, resets its connection.
LEMMA ResetInv ==
  ASSUME InetInv, NEW e \in InetClients, ResetByClient(e), UNCHANGED srvVars,
         UNCHANGED <<backlog, cliJ, cliI, cliGot>>,
         NEW to \in {"exit", "killed"}, cliPc' = [cliPc EXCEPT ![e] = to],
         cliPc[e] \in {"ask", "read", "send", "close"}, to = "exit" => cliPc[e] = "close"
  PROVE  InetInv'
<1> SUFFICES ASSUME srvPc # "exit" PROVE InetInv'
  BY Zenon DEF InetInv, srvVars
<1>1. InetTypes /\ Serving /\ \A c \in InetClients : ClientLoops(c) /\ ClientLink(c)
  BY Zenon DEF InetInv
<1>2. PICK k \in 0..Len(up[e]) : up' = [up EXCEPT ![e] = SubSeq(@, 1, k)]
  BY Zenon DEF ResetByClient
<1>3. /\ up' \in [InetClients -> Seq({"sets", "str"})]
      /\ \A c \in InetClients : c # e => up'[c] = up[c]
  <2>1. up[e] \in Seq({"sets", "str"})
    BY Zenon, <1>1 DEF InetTypes
  <2>2. SubSeq(up[e], 1, k) \in Seq({"sets", "str"})
    BY Zenon, <2>1, MessageFacts
  <2> QED
    BY Zenon, <1>1, <1>2, <2>2 DEF InetTypes
<1>4. /\ link' \in [InetClients -> {"none", "open", "reset", "dead", "closed"}] /\ down' = down
      /\ link'[e] = (IF link[e] = "open" THEN "reset" ELSE link[e]) /\ cliPc'[e] = to
      /\ \A c \in InetClients : c # e => link'[c] = link[c] /\ cliPc'[c] = cliPc[c]
  BY Zenon, <1>1 DEF ResetByClient, InetTypes
<1>5. InetTypes'
  BY Zenon, <1>1, <1>3, <1>4 DEF InetTypes, srvVars
<1>6. Serving'
  <2>1. \A c \in InetClients :
           /\ cliPc[c] # "start" => cliPc'[c] # "start"
           /\ link'[c] = "open" => link[c] = "open"
           /\ cliPc[c] = "close" /\ link'[c] = "open" => cliPc'[c] = "close"
    BY Zenon, <1>4
  <2> QED
    BY Zenon, <1>1, <2>1, ServingKept
<1>7. ASSUME NEW c \in InetClients, c # e PROVE ClientLoops(c)' /\ ClientLink(c)'
  BY Zenon, <1>1, <1>3, <1>4, <1>7, OthersSame
<1>8. ClientLoops(e)'
  <2>1. CASE to = "killed"
    BY Zenon, <1>4, <2>1 DEF ClientLoops
  <2>2. CASE to = "exit"
    <3>1. cliPc[e] = "close" /\ cliPc'[e] = "exit"
      BY Zenon, <1>4, <2>2
    <3>2. StrsRead(e)' = StrsRead(e)
      BY Zenon, <3>1 DEF StrsRead, Sets
    <3> QED
      BY Zenon, <1>1, <3>1, <3>2 DEF ClientLoops
  <2> QED
    BY Zenon, <2>1, <2>2
<1>9. ClientLink(e)'
  <2>1. link[e] # "none" /\ link'[e] \notin {"none", "open"}
    BY Zenon, <1>1, <1>4 DEF ClientLink
  <2> QED
    BY Zenon, <1>4, <2>1 DEF ClientLink
<1> QED
  BY Zenon, <1>5, <1>6, <1>7, <1>8, <1>9 DEF InetInv

\* What a client sends arrives while its connection is open.
LEMMA SentFacts ==
  ASSUME InetTypes, NEW e \in InetClients, NEW m \in {"sets", "str"}, Sent(e, m)
  PROVE  /\ up' \in [InetClients -> Seq({"sets", "str"})] /\ Len(up[e]) \in Nat
         /\ \A c \in InetClients : c # e => up'[c] = up[c]
         /\ link[e] = "open" => Len(up'[e]) = Len(up[e]) + 1
<1>1. /\ up[e] \in Seq({"sets", "str"}) /\ Len(up[e]) \in Nat
      /\ Append(up[e], m) \in Seq({"sets", "str"}) /\ Len(Append(up[e], m)) = Len(up[e]) + 1
  BY Zenon, MessageFacts DEF InetTypes
<1>2. CASE link[e] = "open"
  BY Zenon, <1>1, <1>2 DEF Sent, InetTypes
<1>3. CASE link[e] # "open"
  BY Zenon, <1>1, <1>3 DEF Sent, InetTypes
<1> QED
  BY Zenon, <1>2, <1>3

\* The step of a client inside its loops: the others and the server are not
\* disturbed, so that its own part of the invariant is what is left to show.
LEMMA ClientStep ==
  ASSUME InetTypes, Serving, \A c \in InetClients : ClientLoops(c) /\ ClientLink(c),
         NEW e \in InetClients, UNCHANGED <<srvVars, backlog, link>>, InetTypes',
         cliPc[e] \in {"ask", "read", "send"}, cliPc'[e] # "start",
         \A c \in InetClients : c # e =>
           /\ up'[c] = up[c] /\ cliPc'[c] = cliPc[c] /\ cliJ'[c] = cliJ[c]
           /\ cliI'[c] = cliI[c] /\ cliGot'[c] = cliGot[c],
         ClientLoops(e)', ClientLink(e)'
  PROVE  InetInv'
<1>1. ASSUME NEW c \in InetClients PROVE ClientLoops(c)' /\ ClientLink(c)'
  <2>1. CASE c = e
    BY Zenon, <2>1
  <2>2. CASE c # e
    BY Zenon, <2>2, OthersSame
  <2> QED
    BY Zenon, <2>1, <2>2
<1>2. Serving'
  <2>1. \A c \in InetClients :
           /\ cliPc[c] # "start" => cliPc'[c] # "start"
           /\ link'[c] = "open" => link[c] = "open"
           /\ cliPc[c] = "close" /\ link'[c] = "open" => cliPc'[c] = "close"
    BY Zenon
  <2> QED
    BY Zenon, <2>1, ServingKept
<1> QED
  BY Zenon, <1>1, <1>2 DEF InetInv

\* The server has taken a number of messages.
LEMMA TakenNat ==
  ASSUME InetTypes, NEW c \in InetClients PROVE Taken(c) \in Nat
<1>1. srvI \in Nat /\ Sets(srvJ) \in Nat
  BY Zenon, SetsFacts DEF InetTypes
<1> QED
  BY <1>1 DEF Taken

\* A client asks for its sets.
LEMMA AskSetsInv ==
  ASSUME InetInv, NEW e \in InetClients, AskSets(e), UNCHANGED srvVars PROVE InetInv'
<1> SUFFICES ASSUME srvPc # "exit" PROVE InetInv'
  BY Zenon DEF InetInv, srvVars
<1>0. /\ cliPc[e] = "ask" /\ cliPc' = [cliPc EXCEPT ![e] = "read"] /\ Sent(e, "sets")
      /\ UNCHANGED <<backlog, link, down, cliJ, cliI, cliGot>>
  BY Zenon DEF AskSets
<1>1. InetTypes /\ Serving /\ \A c \in InetClients : ClientLoops(c) /\ ClientLink(c)
  BY Zenon DEF InetInv
<1>2. /\ up' \in [InetClients -> Seq({"sets", "str"})] /\ Len(up[e]) \in Nat
      /\ \A c \in InetClients : c # e => up'[c] = up[c]
      /\ link[e] = "open" => Len(up'[e]) = Len(up[e]) + 1
  BY Zenon, <1>0, <1>1, SentFacts
<1>3. InetTypes' /\ cliPc'[e] = "read" /\ \A c \in InetClients : c # e => cliPc'[c] = cliPc[c]
  BY Zenon, <1>0, <1>1, <1>2 DEF InetTypes, srvVars
<1>4. cliJ[e] = 0 /\ cliI[e] = 0 /\ NSTRS \in Nat \ {0} /\ MAX_IT \in Nat \ {0} /\ Sets(0) = 0
  BY Zenon, <1>0, <1>1, InetAssumption, SetsFacts DEF ClientLoops
<1>5. /\ StrsRead(e) = 0 /\ StrsRead(e)' = 0 /\ StrsSent(e) = 0 /\ StrsSent(e)' = 0
      /\ Taken(e)' = Taken(e)
  BY <1>0, <1>3, <1>4 DEF StrsRead, StrsSent, Taken, srvVars, Sets
<1>6. ClientLoops(e)'
  BY <1>0, <1>1, <1>3, <1>4, <1>5 DEF ClientLoops
<1>7. ClientLink(e)'
  <2>1. link[e] \in {"none", "open", "reset", "dead", "closed"} /\ link[e] = "open"
    BY Zenon, <1>0, <1>1 DEF ClientLink, InetTypes
  <2>2. Taken(e) = 0 /\ Len(up[e]) = 0
    <3>1. Len(up[e]) + Taken(e) = 0
      BY <1>0, <1>1, <1>5, <2>1 DEF ClientLink
    <3>2. Taken(e) \in Nat
      BY Zenon, <1>1, TakenNat
    <3> QED
      BY <1>2, <3>1, <3>2
  <2> QED
    BY <1>0, <1>2, <1>3, <1>5, <2>1, <2>2 DEF ClientLink
<1> QED
  BY Zenon, <1>0, <1>1, <1>2, <1>3, <1>6, <1>7, ClientStep

\* A client in its loops has an open connection, so that it meets no end of
\* file and reads a string each time.
LEMMA CliReadInv ==
  ASSUME InetInv, NEW e \in InetClients, CliRead(e), UNCHANGED srvVars PROVE InetInv'
<1> SUFFICES ASSUME srvPc # "exit" PROVE InetInv'
  BY Zenon DEF InetInv, srvVars
<1>1. InetTypes /\ Serving /\ \A c \in InetClients : ClientLoops(c) /\ ClientLink(c)
  BY Zenon DEF InetInv
<1>0. /\ cliPc[e] = "read" /\ UNCHANGED <<backlog, link, up, cliJ>>
      /\ cliI' = [cliI EXCEPT ![e] = (@ + 1) % NSTRS]
      /\ cliPc' = [cliPc EXCEPT ![e] = IF cliI[e] + 1 = NSTRS THEN "send" ELSE @]
  BY Zenon DEF CliRead
<1>2. link[e] = "open"
  BY Zenon, <1>0, <1>1 DEF ClientLink, InetTypes
<1>3. /\ down[e] > 0 /\ down' = [down EXCEPT ![e] = @ - 1]
      /\ cliGot' = [cliGot EXCEPT ![e] = @ + 1]
  BY Zenon, <1>2 DEF CliRead
<1>4. /\ cliI[e] \in Nat /\ cliI[e] < NSTRS /\ cliJ[e] \in Nat /\ cliJ[e] < MAX_IT
      /\ cliGot[e] \in Nat /\ NSTRS \in Nat \ {0} /\ Sets(cliJ[e]) \in Nat
  BY Zenon, <1>0, <1>1, InetAssumption, SetsFacts DEF ClientLoops, InetTypes
<1>5. (cliI[e] + 1) % NSTRS = IF cliI[e] + 1 = NSTRS THEN 0 ELSE cliI[e] + 1
  BY Zenon, <1>4, WrapFacts
<1>6. /\ cliI'[e] = (IF cliI[e] + 1 = NSTRS THEN 0 ELSE cliI[e] + 1)
      /\ cliPc'[e] = (IF cliI[e] + 1 = NSTRS THEN "send" ELSE "read")
      /\ cliGot'[e] = cliGot[e] + 1
      /\ \A c \in InetClients : c # e =>
           cliPc'[c] = cliPc[c] /\ cliI'[c] = cliI[c] /\ cliGot'[c] = cliGot[c]
  BY Zenon, <1>0, <1>1, <1>3, <1>5 DEF InetTypes
<1>7. InetTypes'
  <2>1. down' \in [InetClients -> Nat] /\ cliGot' \in [InetClients -> Nat]
    <3>1. down[e] - 1 \in Nat /\ cliGot[e] + 1 \in Nat
      <4>1. down[e] \in Nat /\ down[e] > 0 /\ cliGot[e] \in Nat
        BY Zenon, <1>1, <1>3 DEF InetTypes
      <4> QED
        BY ONLY <4>1
    <3> QED
      BY Zenon, <1>1, <1>3, <3>1 DEF InetTypes
  <2>2. cliI' \in [InetClients -> Nat]
    BY SMTT(20), <1>0, <1>1, <1>4, <1>5 DEF InetTypes
  <2>3. cliPc' \in [InetClients -> {"start", "ask", "read", "send", "close", "exit", "killed"}]
    BY Zenon, <1>0, <1>1 DEF InetTypes
  <2> QED
    BY Zenon, <1>0, <1>1, <2>1, <2>2, <2>3 DEF InetTypes, srvVars
<1>8. /\ StrsRead(e) = Sets(cliJ[e]) + cliI[e] /\ StrsRead(e)' = Sets(cliJ[e]) + cliI[e] + 1
      /\ StrsSent(e) = Sets(cliJ[e]) /\ StrsSent(e)' = Sets(cliJ[e])
      /\ Taken(e)' = Taken(e)
  <2>1. Sets(cliJ[e])' = Sets(cliJ[e]) /\ Taken(e)' = Taken(e)
    BY Zenon, <1>0 DEF Sets, Taken, srvVars
  <2>2. CASE cliI[e] + 1 = NSTRS
    BY <1>0, <1>4, <1>6, <2>1, <2>2 DEF StrsRead, StrsSent
  <2>3. CASE cliI[e] + 1 # NSTRS
    BY SMTT(20), <1>0, <1>4, <1>6, <2>1, <2>3 DEF StrsRead, StrsSent
  <2> QED
    BY Zenon, <2>2, <2>3
<1>9. ClientLoops(e)'
  BY <1>0, <1>1, <1>4, <1>6, <1>8 DEF ClientLoops
<1>10. ClientLink(e)'
  BY <1>0, <1>1, <1>2, <1>6, <1>8 DEF ClientLink
<1> QED
  BY <1>0, <1>1, <1>6, <1>7, <1>9, <1>10, ClientStep

\* A client sends a string back; after the last one it has done all its sets.
LEMMA CliSendInv ==
  ASSUME InetInv, NEW e \in InetClients, CliSend(e), UNCHANGED srvVars PROVE InetInv'
<1> SUFFICES ASSUME srvPc # "exit" PROVE InetInv'
  BY Zenon DEF InetInv, srvVars
<1>1. InetTypes /\ Serving /\ \A c \in InetClients : ClientLoops(c) /\ ClientLink(c)
  BY Zenon DEF InetInv
<1>0. /\ cliPc[e] = "send" /\ Sent(e, "str") /\ UNCHANGED <<backlog, link, down, cliGot>>
      /\ cliI' = [cliI EXCEPT ![e] = (@ + 1) % NSTRS]
      /\ cliJ' = [cliJ EXCEPT ![e] = IF cliI[e] + 1 = NSTRS THEN @ + 1 ELSE @]
  BY Zenon DEF CliSend
<1>2. /\ up' \in [InetClients -> Seq({"sets", "str"})] /\ Len(up[e]) \in Nat
      /\ \A c \in InetClients : c # e => up'[c] = up[c]
      /\ link[e] = "open" => Len(up'[e]) = Len(up[e]) + 1
  BY Zenon, <1>0, <1>1, SentFacts
<1>3. link[e] = "open"
  BY Zenon, <1>0, <1>1 DEF ClientLink, InetTypes
<1>4. /\ cliI[e] \in Nat /\ cliI[e] < NSTRS /\ cliJ[e] \in Nat /\ cliJ[e] < MAX_IT
      /\ NSTRS \in Nat \ {0} /\ MAX_IT \in Nat /\ Sets(cliJ[e]) \in Nat
      /\ Sets(cliJ[e] + 1) = Sets(cliJ[e]) + NSTRS
  BY Zenon, <1>0, <1>1, InetAssumption, SetsFacts DEF ClientLoops, InetTypes
<1>5. (cliI[e] + 1) % NSTRS = IF cliI[e] + 1 = NSTRS THEN 0 ELSE cliI[e] + 1
  BY Zenon, <1>4, WrapFacts
<1>6. /\ cliI'[e] = (IF cliI[e] + 1 = NSTRS THEN 0 ELSE cliI[e] + 1)
      /\ cliJ'[e] = (IF cliI[e] + 1 = NSTRS THEN cliJ[e] + 1 ELSE cliJ[e])
      /\ cliI' \in [InetClients -> Nat] /\ cliJ' \in [InetClients -> Nat]
      /\ \A c \in InetClients : c # e => cliJ'[c] = cliJ[c] /\ cliI'[c] = cliI[c]
  <2> DEFINE i == (cliI[e] + 1) % NSTRS
             j == IF cliI[e] + 1 = NSTRS THEN cliJ[e] + 1 ELSE cliJ[e]
  <2>1. i \in Nat /\ j \in Nat
    BY <1>4, <1>5
  <2>2. cliI' = [cliI EXCEPT ![e] = i] /\ cliJ' = [cliJ EXCEPT ![e] = j]
    BY Zenon, <1>0
  <2>3. cliI \in [InetClients -> Nat] /\ cliJ \in [InetClients -> Nat]
    BY Zenon, <1>1 DEF InetTypes
  <2>4. i = IF cliI[e] + 1 = NSTRS THEN 0 ELSE cliI[e] + 1
    BY Zenon, <1>5
  <2> HIDE DEF i
  <2>5. cliI' \in [InetClients -> Nat] /\ cliJ' \in [InetClients -> Nat]
    BY Zenon, <2>1, <2>2, <2>3
  <2> QED
    BY Zenon, <2>2, <2>3, <2>4, <2>5
<1>7. PICK to \in {"send", "close", "read"} :
        /\ cliPc' = [cliPc EXCEPT ![e] = to]
        /\ \/ to = "send" /\ cliI[e] + 1 # NSTRS
           \/ to = "close" /\ cliI[e] + 1 = NSTRS /\ cliJ[e] + 1 = MAX_IT
           \/ to = "read" /\ cliI[e] + 1 = NSTRS /\ cliJ[e] + 1 # MAX_IT
  <2> DEFINE to == CASE cliI[e] + 1 < NSTRS -> "send"
                     [] cliI[e] + 1 = NSTRS /\ cliJ[e] + 1 = MAX_IT -> "close"
                     [] OTHER -> "read"
  <2>1. cliPc' = [cliPc EXCEPT ![e] = to]
    BY Zenon DEF CliSend
  <2>2. \/ to = "send" /\ cliI[e] + 1 # NSTRS
        \/ to = "close" /\ cliI[e] + 1 = NSTRS /\ cliJ[e] + 1 = MAX_IT
        \/ to = "read" /\ cliI[e] + 1 = NSTRS /\ cliJ[e] + 1 # MAX_IT
    BY <1>4
  <2> HIDE DEF to
  <2> QED
    BY Zenon, <2>1, <2>2
<1>8. cliPc'[e] = to /\ \A c \in InetClients : c # e => cliPc'[c] = cliPc[c]
  BY Zenon, <1>1, <1>7 DEF InetTypes
<1>9. InetTypes'
  <2>1. cliPc' \in [InetClients -> {"start", "ask", "read", "send", "close", "exit", "killed"}]
    BY Zenon, <1>1, <1>7 DEF InetTypes
  <2> QED
    BY Zenon, <1>0, <1>1, <1>2, <1>6, <2>1 DEF InetTypes, srvVars
<1>10. /\ StrsRead(e) = Sets(cliJ[e]) + NSTRS /\ StrsRead(e)' = StrsRead(e)
       /\ StrsSent(e) = Sets(cliJ[e]) + cliI[e] /\ StrsSent(e)' = StrsSent(e) + 1
       /\ Taken(e)' = Taken(e)
  <2>1. Sets(cliJ[e])' = Sets(cliJ'[e]) /\ Taken(e)' = Taken(e)
    BY Zenon, <1>0 DEF Sets, Taken, srvVars
  <2>2. CASE cliI[e] + 1 = NSTRS
    <3>1. Sets(cliJ'[e]) = Sets(cliJ[e]) + NSTRS /\ to # "send" /\ cliI'[e] = 0
      BY Zenon, <1>4, <1>6, <1>7, <2>2
    <3> QED
      BY <1>0, <1>4, <1>8, <2>1, <2>2, <3>1 DEF StrsRead, StrsSent
  <2>3. CASE cliI[e] + 1 # NSTRS
    <3>1. Sets(cliJ'[e]) = Sets(cliJ[e]) /\ to = "send" /\ cliI'[e] = cliI[e] + 1
      BY Zenon, <1>6, <1>7, <2>3
    <3> QED
      BY <1>0, <1>4, <1>8, <2>1, <3>1 DEF StrsRead, StrsSent
  <2> QED
    BY Zenon, <2>2, <2>3
<1>11. ClientLoops(e)'
  BY <1>0, <1>1, <1>4, <1>6, <1>7, <1>8, <1>10 DEF ClientLoops
<1>12. ClientLink(e)'
  <2>1. Taken(e) \in Nat /\ StrsSent(e) \in Nat
    BY <1>1, <1>4, <1>10, TakenNat
  <2>2. Len(up[e]) + Taken(e) = 1 + StrsSent(e)
    BY Zenon, <1>0, <1>1, <1>3 DEF ClientLink
  <2>3. Len(up'[e]) + Taken(e)' = 1 + StrsSent(e)'
    <3>1. /\ Len(up'[e]) = Len(up[e]) + 1 /\ Taken(e)' = Taken(e)
          /\ StrsSent(e)' = StrsSent(e) + 1
      BY Zenon, <1>2, <1>3, <1>10
    <3> QED
      BY <1>2, <2>1, <2>2, <3>1
  <2> QED
    BY Zenon, <1>0, <1>3, <1>8, <2>3 DEF ClientLink
<1> QED
  BY Zenon, <1>0, <1>1, <1>2, <1>6, <1>8, <1>9, <1>11, <1>12, ClientStep

\* Every step of the server, of the handlers and of the clients keeps it.
LEMMA InetStepInv ==
  ASSUME InetInv, [InetNext]_inetVars PROVE InetInv'
<1>1. CASE serve_clients
  BY Zenon, <1>1, AcceptInv, RecvSetsInv, SendStrInv, ReadStrInv, CloseSockInv DEF serve_clients
<1>2. CASE broken_pipe_handler \/ int_handler
  <2>1. CASE srvPc' = "exit"
    BY Zenon, <2>1 DEF InetInv
  <2>2. CASE srvPc' # "exit"
    BY Zenon, <1>2, <2>2, GoOnInv DEF broken_pipe_handler, int_handler
  <2> QED
    BY Zenon, <2>1, <2>2
<1>3. ASSUME NEW e \in InetClients, client_starts(e) \/ client_main(e) \/ CliKilled(e)
      PROVE  InetInv'
  <2>1. CASE client_starts(e)
    BY Zenon, <2>1, ConnectInv
  <2>2. CASE client_main(e)
    <3>1. CASE CliClose(e)
      BY Zenon, <2>2, <3>1, ResetInv DEF CliClose, client_main
    <3> QED
      BY Zenon, <2>2, <3>1, AskSetsInv, CliReadInv, CliSendInv DEF client_main
  <2>3. CASE CliKilled(e)
    BY Zenon, <2>3, ResetInv DEF CliKilled
  <2> QED
    BY Zenon, <1>3, <2>1, <2>2, <2>3
<1>4. CASE UNCHANGED inetVars
  <2> SUFFICES ASSUME srvPc # "exit" PROVE InetInv'
    BY Zenon, <1>4 DEF InetInv, inetVars, srvVars
  <2>1. InetTypes /\ Serving /\ \A c \in InetClients : ClientLoops(c) /\ ClientLink(c)
    BY Zenon DEF InetInv
  <2>2. InetTypes' /\ Serving'
    BY Zenon, <1>4, <2>1 DEF inetVars, srvVars, cliVars, InetTypes, Serving
  <2>3. ASSUME NEW c \in InetClients PROVE ClientLoops(c)' /\ ClientLink(c)'
    BY Zenon, <1>4, <2>1, OthersSame DEF inetVars, cliVars
  <2> QED
    BY Zenon, <2>2, <2>3 DEF InetInv
<1> QED
  BY Zenon, <1>1, <1>2, <1>3, <1>4 DEF InetNext

\* At the end of its loops a client has read MAX_IT sets.
LEMMA InetInvSafe == InetInv => ClientReadAll
<1> SUFFICES ASSUME InetInv, NEW c \in InetClients, cliPc[c] \in {"close", "exit"}, srvPc # "exit"
             PROVE  cliGot[c] = NSTRS * MAX_IT
  BY Zenon DEF ClientReadAll
<1>1. cliGot[c] = StrsRead(c) /\ cliJ[c] = MAX_IT
  BY Zenon DEF InetInv, ClientLoops
<1>2. MAX_IT \in Nat /\ NSTRS \in Nat /\ Sets(MAX_IT) \in Nat
  BY Zenon, InetAssumption, SetsFacts
<1>3. cliGot[c] = Sets(MAX_IT)
  BY <1>1, <1>2 DEF StrsRead
<1>4. \A a, b \in Nat : a * b = b * a
  BY SMTT(30)
<1> QED
  BY Zenon, <1>2, <1>3, <1>4 DEF Sets

\* inet_client.c, for any clients, sets and strings: one that runs to its end
\* has read every string it asked for, whichever clients are killed, while
\* the server lives; for the server closes no connection that is in use.
THEOREM SocketsCorrect == InetSpec => []ClientReadAll
<1>1. InetInitAt("accept") => InetInv
  BY Zenon, InetInitInv
<1> QED
  BY <1>1, InetStepInv, InetInvSafe, PTL DEF InetSpec

-----------------------------------------------------------------------------
(* MessageQueues: every block that mq_send passes on has one owner, the     *)
(* queue or a task, and before the first shutdown() none is without one.    *)

\* Every pointer in the queue is to an allocated block, and the only one.
QueueOwns ==
  \A k \in 1..Len(mqueue) : mqueue[k] \in Blocks =>
    /\ mqueue[k] \in heap
    /\ \A j \in 1..Len(mqueue) : mqueue[j] = mqueue[k] => j = k

\* So is the pointer that a task has in hand, and it is not in the queue.
SenderOwns ==
  sndPc = "send" /\ sndBlk \in Blocks =>
    /\ sndBlk \in heap /\ \A k \in 1..Len(mqueue) : mqueue[k] # sndBlk
    /\ rcvPc = "got" => rcvBlk # sndBlk

ReceiverOwns ==
  rcvPc = "got" /\ rcvBlk \in Blocks =>
    rcvBlk \in heap /\ \A k \in 1..Len(mqueue) : mqueue[k] # rcvBlk

\* Before the first shutdown() every block is in the queue or in hand.
BlocksKept ==
  restarts = 0 /\ mqMain = "running" /\ mqOpen # {} =>
    \A b \in heap : \/ \E k \in 1..Len(mqueue) : mqueue[k] = b
                    \/ sndPc = "send" /\ sndBlk = b
                    \/ rcvPc = "got" /\ rcvBlk = b

\* Where heap_mq() and shutdown() leave the tasks and the queue.
QueueMain ==
  /\ mqMain = "start" => heap = {}
  /\ mqMain \in {"start", "stopped"} => sndPc = "none" /\ rcvPc = "none"
  /\ "send" \in mqOpen <=> "recv" \in mqOpen

QueueTypes ==
  /\ mqueue \in Seq(Blocks \cup {Msg, NULL})
  /\ sndBlk \in Blocks \cup {Msg, NULL} /\ rcvBlk \in Blocks \cup {Msg, NULL}
  /\ heap \subseteq Blocks /\ mqOpen \subseteq {"send", "recv"} /\ restarts \in Nat

QueueInv ==
  mqProg = "heap" =>
    QueueTypes /\ QueueOwns /\ SenderOwns /\ ReceiverOwns /\ BlocksKept /\ QueueMain

\* It holds before heap_mq() is called.
LEMMA QueueInitInv == MqInit => QueueInv
  BY DEF MqInit, QueueInv, QueueTypes, QueueOwns, SenderOwns, ReceiverOwns, BlocksKept, QueueMain

\* What mq_send adds to the queue.
LEMMA SendFacts ==
  ASSUME NEW S, NEW s \in Seq(S), NEW m \in S
  PROVE  /\ Append(s, m) \in Seq(S) /\ Len(Append(s, m)) = Len(s) + 1 /\ Len(s) \in Nat
         /\ \A k \in 1..Len(s) : Append(s, m)[k] = s[k]
         /\ Append(s, m)[Len(s) + 1] = m
  OBVIOUS

\* What mq_receive takes from it.
LEMMA ReceiveFacts ==
  ASSUME NEW S, NEW s \in Seq(S), s # <<>>
  PROVE  /\ Tail(s) \in Seq(S) /\ Len(Tail(s)) = Len(s) - 1 /\ Len(s) \in Nat \ {0}
         /\ \A k \in 1..(Len(s) - 1) : Tail(s)[k] = s[k + 1]
         /\ Head(s) = s[1] /\ Head(s) \in S
  OBVIOUS

\* malloc hands the sender a block that nobody has a pointer to.
LEMMA HeapMakeInv ==
  ASSUME QueueInv, mqProg = "heap", HeapMake,
         UNCHANGED <<mqProg, rcvPc, rcvBlk, mqOpen, mqMain, restarts>>
  PROVE  QueueInv'
<1> USE DEF QueueInv
<1>0. mqProg' = "heap" /\ mqueue' = mqueue /\ sndPc = "make" /\ sndPc' = "send"
  BY Zenon DEF HeapMake
<1>1. CASE heap = Blocks
  <2>1. sndBlk' = NULL /\ heap' = heap /\ NULL \notin Blocks
    BY Zenon, <1>1, QueueAssumption DEF HeapMake
  <2>2. QueueTypes' /\ QueueOwns' /\ SenderOwns' /\ ReceiverOwns'
    BY Zenon, <1>0, <2>1 DEF QueueTypes, QueueOwns, SenderOwns, ReceiverOwns
  <2>3. BlocksKept' /\ QueueMain'
    BY Zenon, <1>0, <2>1 DEF BlocksKept, QueueMain
  <2> QED
    BY Zenon, <2>2, <2>3, <1>0
<1>2. CASE heap # Blocks
  <2>1. PICK b \in Blocks \ heap : sndBlk' = b /\ heap' = heap \cup {b}
    BY Zenon, <1>2 DEF HeapMake
  <2>2. QueueTypes' /\ QueueOwns'
    BY Zenon, <1>0, <2>1 DEF QueueTypes, QueueOwns
  <2>3. SenderOwns' /\ ReceiverOwns'
    BY Zenon, <1>0, <2>1 DEF QueueTypes, QueueOwns, SenderOwns, ReceiverOwns
  <2>4. BlocksKept'
    BY Zenon, <1>0, <2>1 DEF BlocksKept
  <2>5. QueueMain'
    BY Zenon, <1>0, <2>1 DEF QueueMain
  <2> QED
    BY Zenon, <2>2, <2>3, <2>4, <2>5, <1>0
<1> QED
  BY Zenon, <1>1, <1>2

\* mq_send moves the pointer from the sender to the queue; with the queue
\* closed the pointer is dropped.
LEMMA HeapSendInv ==
  ASSUME QueueInv, mqProg = "heap", HeapSend,
         UNCHANGED <<mqProg, rcvPc, rcvBlk, mqOpen, mqMain, restarts>>
  PROVE  QueueInv'
<1> USE DEF QueueInv
<1>0. mqProg' = "heap" /\ sndPc = "send" /\ sndPc' = "delay" /\ sndBlk' = sndBlk /\ heap' = heap
  BY Zenon DEF HeapSend
<1>1. CASE Queued(sndBlk)
  <2>1. mqueue' = Append(mqueue, sndBlk)
    BY Zenon, <1>1 DEF Queued
  <2>2. /\ mqueue' \in Seq(Blocks \cup {Msg, NULL}) /\ Len(mqueue') = Len(mqueue) + 1
        /\ Len(mqueue) \in Nat
        /\ \A k \in 1..Len(mqueue) : mqueue'[k] = mqueue[k]
        /\ mqueue'[Len(mqueue) + 1] = sndBlk
    BY <2>1, SendFacts DEF QueueTypes
  <2>3. QueueTypes' /\ QueueMain'
    BY Zenon, <1>0, <2>2 DEF QueueTypes, QueueMain
  <2>4. QueueOwns'
    BY <1>0, <2>2 DEF QueueOwns, SenderOwns
  <2>5. SenderOwns' /\ ReceiverOwns'
    BY <1>0, <2>2 DEF SenderOwns, ReceiverOwns
  <2>6. BlocksKept'
    BY <1>0, <2>2 DEF BlocksKept
  <2> QED
    BY Zenon, <2>3, <2>4, <2>5, <2>6, <1>0
<1>2. CASE "send" \notin mqOpen /\ UNCHANGED mqueue
  <2>1. mqOpen = {} /\ mqOpen' = {}
    BY Zenon, <1>2 DEF QueueMain, QueueTypes
  <2>2. QueueTypes' /\ QueueOwns' /\ SenderOwns' /\ ReceiverOwns'
    BY Zenon, <1>0, <1>2 DEF QueueTypes, QueueOwns, SenderOwns, ReceiverOwns
  <2>3. BlocksKept' /\ QueueMain'
    BY Zenon, <1>0, <1>2, <2>1 DEF BlocksKept, QueueMain
  <2> QED
    BY Zenon, <2>2, <2>3, <1>0
<1> QED
  BY Zenon, <1>1, <1>2 DEF HeapSend

\* mq_receive moves the oldest pointer from the queue to the receiver.
LEMMA HeapReceiveInv ==
  ASSUME QueueInv, mqProg = "heap", HeapReceive,
         UNCHANGED <<mqProg, sndPc, sndBlk, mqOpen, mqMain, restarts>>
  PROVE  QueueInv'
<1> USE DEF QueueInv
<1>0. mqProg' = "heap" /\ rcvPc = "recv" /\ heap' = heap
  BY Zenon DEF HeapReceive
<1>1. CASE Dequeued /\ rcvPc' = "got"
  <2>1. /\ mqueue' \in Seq(Blocks \cup {Msg, NULL}) /\ Len(mqueue') = Len(mqueue) - 1
        /\ Len(mqueue) \in Nat \ {0}
        /\ \A k \in 1..(Len(mqueue) - 1) : mqueue'[k] = mqueue[k + 1]
        /\ rcvBlk' = mqueue[1] /\ rcvBlk' \in Blocks \cup {Msg, NULL}
    BY Zenon, <1>1, ReceiveFacts DEF Dequeued, QueueTypes
  <2>2. QueueTypes' /\ QueueMain'
    BY Zenon, <1>0, <1>1, <2>1 DEF QueueTypes, QueueMain
  <2>3. \A k \in 1..Len(mqueue') : k + 1 \in 1..Len(mqueue) /\ k + 1 # 1 /\ mqueue'[k] = mqueue[k + 1]
    BY SMTT(20), <2>1
  <2>4. QueueOwns'
    <3> SUFFICES ASSUME NEW k \in 1..Len(mqueue'), mqueue'[k] \in Blocks
                 PROVE  /\ mqueue'[k] \in heap'
                        /\ \A j \in 1..Len(mqueue') : mqueue'[j] = mqueue'[k] => j = k
      BY Zenon DEF QueueOwns
    <3>1. k + 1 \in 1..Len(mqueue) /\ mqueue[k + 1] \in Blocks /\ mqueue'[k] = mqueue[k + 1]
      BY Zenon, <2>3
    <3>2. /\ mqueue[k + 1] \in heap
          /\ \A i \in 1..Len(mqueue) : mqueue[i] = mqueue[k + 1] => i = k + 1
      BY Zenon, <3>1 DEF QueueOwns
    <3>3. ASSUME NEW j \in 1..Len(mqueue'), mqueue'[j] = mqueue'[k] PROVE j = k
      <4>1. j + 1 \in 1..Len(mqueue) /\ mqueue[j + 1] = mqueue[k + 1]
        BY Zenon, <2>3, <3>1, <3>3
      <4>2. j + 1 = k + 1
        BY Zenon, <3>2, <4>1
      <4>3. j \in Nat /\ k \in Nat
        OBVIOUS
      <4> QED
        BY <4>2, <4>3
    <3> QED
      BY Zenon, <1>0, <3>1, <3>2, <3>3
  <2>5. SenderOwns'
    BY <1>0, <2>1, <2>3 DEF SenderOwns
  <2>6. ReceiverOwns'
    BY <1>0, <2>1, <2>3 DEF ReceiverOwns, QueueOwns
  <2>7. BlocksKept'
    <3> SUFFICES ASSUME (restarts = 0 /\ mqMain = "running" /\ mqOpen # {})', NEW b \in heap'
                 PROVE  (\/ \E k \in 1..Len(mqueue) : mqueue[k] = b
                         \/ sndPc = "send" /\ sndBlk = b
                         \/ rcvPc = "got" /\ rcvBlk = b)'
      BY Zenon DEF BlocksKept
    <3>1. CASE \E k \in 1..Len(mqueue) : mqueue[k] = b
      <4>1. PICK k \in 1..Len(mqueue) : mqueue[k] = b
        BY Zenon, <3>1
      <4>2. CASE k = 1
        BY Zenon, <4>1, <4>2, <2>1, <1>1
      <4>3. CASE k # 1
        <5>1. k - 1 \in 1..Len(mqueue') /\ mqueue'[k - 1] = mqueue[k]
          BY <4>3, <2>1
        <5> QED
          BY Zenon, <5>1, <4>1
      <4> QED
        BY Zenon, <4>2, <4>3
    <3> QED
      BY Zenon, <3>1, <1>0 DEF BlocksKept
  <2> QED
    BY Zenon, <2>2, <2>4, <2>5, <2>6, <2>7, <1>0
<1>2. CASE "recv" \notin mqOpen /\ UNCHANGED <<mqueue, rcvBlk, rcvPc>>
  BY Zenon, <1>0, <1>2 DEF QueueTypes, QueueOwns, SenderOwns, ReceiverOwns, BlocksKept, QueueMain
<1> QED
  BY Zenon, <1>1, <1>2 DEF HeapReceive

\* free takes the one block that nobody else has a pointer to.
LEMMA HeapFreeInv ==
  ASSUME QueueInv, mqProg = "heap", HeapFree,
         UNCHANGED <<mqProg, sndPc, sndBlk, mqOpen, mqMain, restarts>>
  PROVE  QueueInv'
<1> USE DEF QueueInv
<1>0. /\ mqProg' = "heap" /\ rcvPc = "got" /\ rcvPc' = "recv" /\ mqueue' = mqueue
      /\ heap' = heap \ {rcvBlk} /\ rcvBlk' = rcvBlk
  BY Zenon DEF HeapFree
<1>1. QueueTypes' /\ QueueMain'
  BY Zenon, <1>0 DEF QueueTypes, QueueMain
<1>2. QueueOwns'
  BY Zenon, <1>0 DEF QueueOwns, ReceiverOwns
<1>3. SenderOwns' /\ ReceiverOwns'
  BY Zenon, <1>0 DEF SenderOwns, ReceiverOwns
<1>4. BlocksKept'
  BY Zenon, <1>0 DEF BlocksKept
<1> QED
  BY Zenon, <1>0, <1>1, <1>2, <1>3, <1>4

\* heap_mq() and shutdown() drop pointers and make none.
LEMMA QueueMainInv ==
  ASSUME QueueInv, mqProg = "heap", heap_mq \/ mq_close \/ taskDelete, UNCHANGED mqProg
  PROVE  QueueInv'
<1> USE DEF QueueInv
<1>0. mqProg' = "heap" /\ UNCHANGED <<mqueue, heap, sndBlk, rcvBlk>>
  BY Zenon DEF heap_mq, mq_close, taskDelete
<1>1. CASE heap_mq
  <2>1. /\ sndPc' = "make" /\ rcvPc' = "recv" /\ mqMain' = "running"
        /\ mqMain = "start" \/ (mqMain = "stopped" /\ restarts' = restarts + 1)
        /\ restarts' \in {restarts, restarts + 1}
        /\ mqOpen' = mqOpen \/ mqOpen' = mqOpen \cup {"send", "recv"}
    BY Zenon, <1>1 DEF heap_mq, MqOpen
  <2>2. QueueTypes' /\ QueueMain'
    BY <1>0, <2>1 DEF QueueTypes, QueueMain
  <2>3. QueueOwns' /\ SenderOwns' /\ ReceiverOwns'
    BY Zenon, <1>0, <2>1 DEF QueueOwns, SenderOwns, ReceiverOwns
  <2>4. BlocksKept'
    BY <1>0, <2>1 DEF BlocksKept, QueueMain, QueueTypes
  <2> QED
    BY Zenon, <1>0, <2>2, <2>3, <2>4
<1>2. CASE mq_close
  BY <1>0, <1>2 DEF mq_close, QueueTypes, QueueOwns, SenderOwns, ReceiverOwns, BlocksKept,
     QueueMain
<1>3. CASE taskDelete
  BY Zenon, <1>0, <1>3 DEF taskDelete, QueueTypes, QueueOwns, SenderOwns, ReceiverOwns,
     BlocksKept, QueueMain
<1> QED
  BY Zenon, <1>1, <1>2, <1>3

\* Every step of the queue programs keeps it.
LEMMA QueueStepInv ==
  ASSUME QueueInv, [MqNext]_mqVars PROVE QueueInv'
<1>1. CASE HeapNext
  <2>0. mqProg = "heap" /\ mqProg' = mqProg
    BY Zenon, <1>1 DEF HeapNext
  <2>1. CASE HeapMake /\ UNCHANGED <<rcvPc, rcvBlk, mqOpen, mqMain, restarts>>
    BY Zenon, <2>0, <2>1, HeapMakeInv
  <2>2. CASE HeapSend /\ UNCHANGED <<rcvPc, rcvBlk, mqOpen, mqMain, restarts>>
    BY Zenon, <2>0, <2>2, HeapSendInv
  <2>3. CASE HeapDelay /\ UNCHANGED <<rcvPc, rcvBlk, mqOpen, mqMain, restarts>>
    BY Zenon, <2>0, <2>3 DEF HeapDelay, QueueInv, QueueTypes, QueueOwns, SenderOwns, ReceiverOwns,
                      BlocksKept, QueueMain
  <2>4. CASE HeapReceive /\ UNCHANGED <<sndPc, sndBlk, mqOpen, mqMain, restarts>>
    BY Zenon, <2>0, <2>4, HeapReceiveInv
  <2>5. CASE HeapFree /\ UNCHANGED <<sndPc, sndBlk, mqOpen, mqMain, restarts>>
    BY Zenon, <2>0, <2>5, HeapFreeInv
  <2>6. CASE heap_mq \/ mq_close \/ taskDelete
    BY Zenon, <2>0, <2>6, QueueMainInv
  <2> QED
    BY Zenon, <1>1, <2>1, <2>2, <2>3, <2>4, <2>5, <2>6 DEF HeapNext, sender_heap, receiver_heap
<1>2. CASE SenderLoop \/ ReceiverLoop \/ MainLoop \/ Once
  <2>1. mqProg' # "heap"
    BY Zenon, <1>2 DEF SenderLoop, ReceiverLoop, MainLoop, Once
  <2> QED
    BY Zenon, <2>1 DEF QueueInv
<1>3. CASE UNCHANGED mqVars
  BY Zenon, <1>3 DEF mqVars, QueueInv, QueueTypes, QueueOwns, SenderOwns, ReceiverOwns,
     BlocksKept, QueueMain
<1> QED
  BY Zenon, <1>1, <1>2, <1>3 DEF MqNext

\* Where the entries of Pointers come from.
LEMMA PointersFacts ==
  ASSUME QueueTypes
  PROVE  LET n == Len(mqueue)
             s == IF sndPc = "send" THEN 1 ELSE 0
             r == IF rcvPc = "got" THEN 1 ELSE 0
         IN  /\ n \in Nat /\ Len(Pointers) = n + s + r
             /\ \A k \in 1..n : Pointers[k] = mqueue[k]
             /\ s = 1 => Pointers[n + 1] = sndBlk
             /\ r = 1 => Pointers[n + s + 1] = rcvBlk
<1>1. CASE sndPc = "send" /\ rcvPc = "got"
  BY <1>1 DEF Pointers, QueueTypes
<1>2. CASE sndPc = "send" /\ rcvPc # "got"
  BY <1>2 DEF Pointers, QueueTypes
<1>3. CASE sndPc # "send" /\ rcvPc = "got"
  BY <1>3 DEF Pointers, QueueTypes
<1>4. CASE sndPc # "send" /\ rcvPc # "got"
  BY <1>4 DEF Pointers, QueueTypes
<1> QED
  BY Zenon, <1>1, <1>2, <1>3, <1>4

\* The invariant says of the entries of Pointers what the properties ask.
LEMMA QueueInvSafe == QueueInv => PointersOwned /\ NoBlockLost
<1> SUFFICES ASSUME QueueInv, mqProg = "heap" PROVE PointersOwned /\ NoBlockLost
  BY Zenon DEF PointersOwned, NoBlockLost
<1> DEFINE n == Len(mqueue)
           s == IF sndPc = "send" THEN 1 ELSE 0
           r == IF rcvPc = "got" THEN 1 ELSE 0
<1>0. /\ n \in Nat /\ Len(Pointers) = n + s + r
      /\ \A k \in 1..n : Pointers[k] = mqueue[k]
      /\ s = 1 => Pointers[n + 1] = sndBlk
      /\ r = 1 => Pointers[n + s + 1] = rcvBlk
  BY Zenon, PointersFacts DEF QueueInv
<1>1. \A k \in 1..Len(Pointers) :
        \/ k \in 1..n
        \/ k = n + 1 /\ sndPc = "send" /\ Pointers[k] = sndBlk
        \/ k = n + s + 1 /\ rcvPc = "got" /\ Pointers[k] = rcvBlk
  <2>1. CASE sndPc = "send" /\ rcvPc = "got"
    BY <1>0, <2>1
  <2>2. CASE sndPc = "send" /\ rcvPc # "got"
    BY <1>0, <2>2
  <2>3. CASE sndPc # "send" /\ rcvPc = "got"
    BY <1>0, <2>3
  <2>4. CASE sndPc # "send" /\ rcvPc # "got"
    BY <1>0, <2>4
  <2> QED
    BY Zenon, <2>1, <2>2, <2>3, <2>4
<1>2. PointersOwned
  <2> SUFFICES ASSUME NEW k \in 1..Len(Pointers), Pointers[k] \in Blocks,
                      NEW j \in 1..Len(Pointers)
               PROVE  Pointers[k] \in heap /\ (Pointers[j] = Pointers[k] => j = k)
    BY Zenon, <1>0 DEF PointersOwned
  <2>1. Pointers[k] \in heap
    BY Zenon, <1>0, <1>1 DEF QueueInv, QueueOwns, SenderOwns, ReceiverOwns
  <2>2. ASSUME Pointers[j] = Pointers[k] PROVE j = k
    BY Zenon, <1>0, <1>1, <2>2 DEF QueueInv, QueueOwns, SenderOwns, ReceiverOwns
  <2> QED
    BY Zenon, <2>1, <2>2
<1>3. NoBlockLost
  <2> SUFFICES ASSUME restarts = 0, mqMain = "running", mqOpen # {}, NEW b \in heap
               PROVE  \E k \in 1..Len(Pointers) : Pointers[k] = b
    BY Zenon DEF NoBlockLost
  <2>1. CASE \E k \in 1..n : mqueue[k] = b
    <3>1. PICK k \in 1..n : mqueue[k] = b
      BY Zenon, <2>1
    <3>2. n \in Nat /\ s \in {0, 1} /\ r \in {0, 1} /\ Len(Pointers) = n + s + r
      BY Zenon, <1>0
    <3> HIDE DEF n, s, r
    <3>3. k \in 1..Len(Pointers)
      BY <3>2
    <3>4. Pointers[k] = mqueue[k]
      BY Zenon, <1>0
    <3> QED
      BY Zenon, <3>1, <3>3, <3>4
  <2>2. CASE sndPc = "send" /\ sndBlk = b
    <3>1. n + 1 \in 1..Len(Pointers) /\ Pointers[n + 1] = b
      BY <2>2, <1>0
    <3> QED
      BY Zenon, <3>1
  <2>3. CASE rcvPc = "got" /\ rcvBlk = b
    <3>1. n + s + 1 \in 1..Len(Pointers) /\ Pointers[n + s + 1] = b
      BY <2>3, <1>0
    <3> QED
      BY Zenon, <3>1
  <2> QED
    BY Zenon, <2>1, <2>2, <2>3 DEF QueueInv, BlocksKept
<1> QED
  BY Zenon, <1>2, <1>3

\* heap_mq.c, for any blocks, any length of the queue and any number of
\* restarts: a pointer is to an allocated block and the only one, so no block
\* is used after free() or freed twice; and none is lost before shutdown().
THEOREM QueuesCorrect == MqSpec => [](PointersOwned /\ NoBlockLost)
BY QueueInitInv, QueueStepInv, QueueInvSafe, PTL DEF MqSpec

-----------------------------------------------------------------------------
(* The serial shell: in a session without SIGINT the device owes nothing but*)
(* the acknowledgement that the transfer waits for.                         *)

\* In a session without SIGINT the device owes nothing except while the
\* transfer waits for the one acknowledgement it needs, which is either
\* still with the device or waiting to be read.
SerOwed ==
    /\ ser_sigs \in Nat
    /\ ser_sigs = 0 =>
         IF ser_pc = "ack"
         THEN ser_unacked = 1 /\ <<ser_dev, ser_rx>> \in {<<1, 0>>, <<0, 1>>}
         ELSE ser_unacked = 0 /\ ser_dev = 0 /\ ser_rx = 0

SerInv == SerOwed /\ SerOneReader

\* Every step of the session, of the device and of the menu keeps the
\* invariant.
LEMMA SerStepInv == SerInv /\ [SerNext]_servars => SerInv'
  <1> SUFFICES ASSUME SerInv, [SerNext]_servars PROVE SerInv'
    BY Zenon
  <1> USE DEF SerInv, SerOwed, SerOneReader
  <1>1. CASE SerLoop \/ SerInput
    BY <1>1 DEF SerLoop, SerInput, SerNoTx
  <1>2. CASE SerEscape
    BY <1>2 DEF SerEscape, SerNoTx, file_tx_setup
  <1>3. CASE SerBlock \/ SerFileSent
    <2>1. /\ ser_pc = "block" /\ ser_sigs' = ser_sigs /\ ser_rx' = ser_rx
          /\ \/ /\ ser_pc' \in {"block", "loop"}
                /\ UNCHANGED <<ser_dev, ser_unacked>>
             \/ /\ ser_pc' = "ack"
                /\ ser_dev' = ser_dev + 1 /\ ser_unacked' = ser_unacked + 1
      BY Zenon, <1>3 DEF SerBlock, SerFileSent
    <2>2. SerOwed'
      BY <2>1
    <2>3. SerOneReader'
      BY <1>3 DEF SerBlock, SerFileSent
    <2> QED
      BY Zenon, <2>2, <2>3
  <1>4. CASE SerAck
    BY <1>4 DEF SerAck, serModes
  <1>5. CASE SerDevice
    BY <1>5 DEF SerDevice, serModes
  <1>6. CASE user_control_c
    <2>1. ser_sigs' \in Nat /\ ser_sigs' # 0
      BY <1>6 DEF user_control_c
    <2>2. SerOneReader'
      BY Zenon, <1>6 DEF user_control_c
    <2> QED
      BY Zenon, <2>1, <2>2
  <1>7. CASE SerMenuExit
    BY <1>7 DEF SerMenuExit
  <1>8. CASE UNCHANGED servars
    BY Zenon, <1>8 DEF servars
  <1> QED
    BY Zenon, <1>1, <1>2, <1>3, <1>4, <1>5, <1>6, <1>7, <1>8 DEF SerNext

\* serialutil.c: a block is sent only when the one before was answered, in a
\* session no SIGINT hits, and whatever the menu is used for one reader has
\* the terminal; for any number of blocks and SIGINTs.
THEOREM SerSessionCorrect == SerSpec => []SerSessionSound
  <1>1. SerInitAt("loop") => SerInv
    <2> SUFFICES ASSUME SerInitAt("loop") PROVE SerInv
      BY Zenon
    <2>1. SerOwed
      BY Zenon DEF SerInitAt, SerOwed
    <2>2. PICK type \in {"cmd", "hex", "tty"} :
            ser_line = (type = "cmd") /\ ser_hex = (type = "hex")
      BY Zenon DEF SerInitAt
    <2>3. ~(ser_line /\ ser_hex)
      BY Zenon, <2>2
    <2> QED
      BY Zenon, <2>1, <2>3 DEF SerInitAt, SerInv, SerOneReader
  <1>2. SerInv => SerSessionSound
    BY Zenon DEF SerInv, SerOwed, SerSessionSound, SerPaced
  <1> QED
    BY <1>1, <1>2, SerStepInv, PTL DEF SerSpec

-----------------------------------------------------------------------------
(* The Bt878 driver: the buffer being captured is never the one being read. *)

BtTypeOK ==
    /\ bt_cur \in {0, 1} /\ bt_frame \in {0, 1} /\ bt_field \in {"odd", "even"}
    /\ bt_buf \in [{0, 1} -> {"old", "part", "whole"}]
    /\ bt_mode \in BtModes /\ bt_acqtype \in {"none", "320x240"}
    /\ bt_task \in {"none", "spawned", "wait", "copy", "call"}
    /\ bt_sem \in {"nil", "empty", "full", "deleted"}
    /\ bt_acq \in Nat /\ bt_rdy \in Nat
    /\ bt_status \subseteq {"RISCI", "ERR"}

\* While the DMA bit is set and the acquisition in step, the engine writes the
\* other buffer than current_frame, except between the end of a frame and
\* the handler; and the frame that ended last is whole.
BtInStep ==
    bt_sync /\ "dma" \in bt_ctl =>
        /\ bt_cur = bt_frame <=> "RISCI" \in bt_status
        /\ bt_mode = "320x240" /\ ("RISCI" \in bt_status \/ ~bt_stale) =>
             bt_buf[1 - bt_frame] = "whole"

\* A copy in step that is not late works on a whole frame, and no frame has
\* ended since it began.
BtCopying ==
    /\ bt_task \in {"copy", "call"} /\ bt_sync /\ ~bt_late
    /\ "dma" \in bt_ctl /\ bt_mode = bt_acqtype
    => bt_src = bt_cur /\ ~bt_torn /\ "RISCI" \notin bt_status

\* In btvid3.c a task has its semaphore from the start to its deletion.
BtSemMade ==
    /\ bt_reset => bt_task = "none"
    /\ bt_rev = "btvid3" =>
         /\ bt_task # "spawned" /\ ~bt_lost
         /\ bt_task # "none" => bt_sem \in {"empty", "full"}

BtInv == BtTypeOK /\ BtInStep /\ BtCopying /\ BtSemMade /\ BtTakesCounted

\* The shell commands that leave the chip alone, and the loop of the task.
LEMMA BtTaskInv ==
  ASSUME BtInv,
         \/ BtStartVideo \/ BtStartVideo3 \/ BtDrvrInit
         \/ BtTake \/ BtCopied \/ BtCallback \/ UNCHANGED btvars
  PROVE  BtInv'
  <1> USE DEF BtInv
  <1>0. UNCHANGED <<bt_rev, btChip, btEngine, bt_cur, bt_acq, bt_reset, bt_sync, bt_stale, bt_lost>>
    BY Zenon DEF BtStartVideo, BtStartVideo3, BtDrvrInit, BtTake, BtCopied, BtCallback, btvars,
           btChip, btEngine
  <1>1. BtTypeOK'
    BY <1>0 DEF BtStartVideo, BtStartVideo3, BtDrvrInit, BtTake, BtCopied, BtCallback, btvars,
                btChip, btEngine, BtTypeOK
  <1>2. BtInStep'
    BY Zenon, <1>0 DEF btChip, btEngine, BtInStep
  <1>3. BtCopying'
    <2>1. CASE BtTake
      <3> SUFFICES ASSUME ~bt_late', bt_sync, "dma" \in bt_ctl, bt_mode = bt_acqtype
                   PROVE  bt_src' = bt_cur /\ ~bt_torn' /\ "RISCI" \notin bt_status
        BY Zenon, <1>0 DEF btChip, BtCopying
      <3>1. ~bt_stale /\ "RISCI" \notin bt_status
        BY Zenon, <2>1 DEF BtTake
      <3>2. bt_mode = "320x240"
        BY Zenon DEF BtTypeOK, BtModes
      <3>3. bt_buf[1 - bt_frame] = "whole" /\ bt_cur # bt_frame
        BY Zenon, <3>1, <3>2 DEF BtInStep
      <3>4. bt_cur = 1 - bt_frame
        BY <3>3 DEF BtTypeOK
      <3> QED
        BY Zenon, <2>1, <3>1, <3>3, <3>4 DEF BtTake
    <2>2. CASE BtCopied \/ UNCHANGED btvars
      BY Zenon, <1>0, <2>2 DEF BtCopied, btvars, btChip, BtCopying
    <2>3. CASE BtStartVideo \/ BtStartVideo3 \/ BtDrvrInit \/ BtCallback
      BY Zenon, <2>3 DEF BtStartVideo, BtStartVideo3, BtDrvrInit, BtCallback, BtCopying
    <2> QED
      BY Zenon, <2>1, <2>2, <2>3
  <1>4. BtSemMade'
    BY Zenon, <1>0 DEF BtStartVideo, BtStartVideo3, BtDrvrInit, BtTake, BtCopied, BtCallback,
       btvars,
                BtSemMade
  <1>5. BtTakesCounted'
    BY <1>0 DEF BtStartVideo, BtStartVideo3, BtDrvrInit, BtTake, BtCopied, BtCallback, btvars,
                BtTypeOK, BtTakesCounted
  <1> QED
    BY Zenon, <1>1, <1>2, <1>3, <1>4, <1>5

\* Setting the DMA bit, from the shell or in activate, starts in step only
\* when current_frame and the interrupt allow it, and makes a copy under way
\* late.
LEMMA BtControlInv ==
  ASSUME BtInv, BtShellCtl \/ \E mode \in BtModes : BtActivate(mode)
  PROVE  BtInv'
  <1> USE DEF BtInv
  <1>0. UNCHANGED <<bt_status, bt_sem, bt_rev, bt_cur, bt_acq, bt_reset, bt_lost,
                    bt_task, bt_rdy, bt_src, bt_torn>>
    BY Zenon DEF BtShellCtl, BtActivate, btTask
  <1>1. BtTypeOK'
    BY <1>0 DEF BtShellCtl, BtActivate, BtSetCtl, BtTypeOK
  <1>2. PICK ctl : BtSetCtl(ctl)
    BY Zenon DEF BtShellCtl, BtActivate
  <1>3. CASE "dma" \in ctl \ bt_ctl
    <2>0. /\ bt_frame' = 0 /\ bt_stale'
          /\ bt_sync' => bt_cur = 1 /\ "RISCI" \notin bt_status
          /\ bt_task # "wait" => bt_late'
      BY Zenon, <1>2, <1>3 DEF BtSetCtl
    <2>1. BtInStep' /\ BtCopying'
      BY <1>0, <2>0 DEF BtInStep, BtCopying
    <2> QED
      BY Zenon, <1>0, <1>1, <2>1 DEF BtSemMade, BtTakesCounted
  <1>4. CASE ~("dma" \in ctl \ bt_ctl)
    <2>0. /\ "dma" \in bt_ctl' => "dma" \in bt_ctl
          /\ UNCHANGED <<bt_frame, bt_sync, bt_stale, bt_late>>
      BY Zenon, <1>2, <1>4 DEF BtSetCtl
    <2>1. CASE BtShellCtl
      <3>1. BtInStep' /\ BtCopying'
        BY Zenon, <1>0, <2>0, <2>1 DEF BtShellCtl, BtInStep, BtCopying
      <3> QED
        BY Zenon, <1>0, <1>1, <3>1 DEF BtSemMade, BtTakesCounted
    <2>2. CASE \E mode \in BtModes : BtActivate(mode)
      <3>1. "dma" \notin bt_ctl /\ bt_ctl' = {"fifo", "dma"}
        BY Zenon, <2>2 DEF BtActivate, BtSetCtl
      <3> QED
        BY Zenon, <2>0, <3>1
    <2> QED
      BY Zenon, <2>1, <2>2
  <1> QED
    BY Zenon, <1>3, <1>4

\* Clearing the status register drops the step when a frame was unserved.
LEMMA BtResetInv ==
  ASSUME BtInv, BtResetStatus \/ BtFullResetStop \/ BtFullResetEnd
  PROVE  BtInv'
  <1> USE DEF BtInv
  <1>1. BtTypeOK'
    <2>1. bt_status' \subseteq {"RISCI", "ERR"}
      BY Zenon DEF BtResetStatus, BtFullResetStop, BtFullResetEnd, BtClearStatus, BtTypeOK
    <2> QED
      BY <2>1 DEF BtResetStatus, BtFullResetStop, BtFullResetEnd, btEngine, btTask, BtTypeOK
  <1>2. BtInStep'
    <2>1. CASE BtFullResetStop
      BY Zenon, <2>1 DEF BtFullResetStop, BtInStep
    <2>2. CASE BtResetStatus \/ BtFullResetEnd
      <3>1. /\ UNCHANGED <<bt_ctl, bt_mode, bt_frame, bt_buf, bt_cur, bt_stale>>
            /\ bt_status' = {}
            /\ bt_sync' => bt_sync /\ "RISCI" \notin bt_status
        BY Zenon, <2>2 DEF BtResetStatus, BtFullResetEnd, BtClearStatus, btEngine
      <3> QED
        BY Zenon, <3>1 DEF BtInStep
    <2> QED
      BY Zenon, <2>1, <2>2
  <1>3. BtCopying'
    <2>1. CASE BtFullResetStop \/ BtFullResetEnd
      BY Zenon, <2>1 DEF BtFullResetStop, BtFullResetEnd, BtSemMade, BtCopying
    <2>2. CASE BtResetStatus
      BY Zenon, <2>2 DEF BtResetStatus, BtClearStatus, btTask, BtCopying
    <2> QED
      BY Zenon, <2>1, <2>2
  <1>4. BtSemMade' /\ BtTakesCounted'
    BY DEF BtResetStatus, BtFullResetStop, BtFullResetEnd, btTask, BtSemMade, BtTakesCounted
  <1> QED
    BY Zenon, <1>1, <1>2, <1>3, <1>4

\* The engine and the handler.
LEMMA BtChipInv ==
  ASSUME BtInv, BtDma \/ BtError \/ pci_inta_isr
  PROVE  BtInv'
  <1> USE DEF BtInv
  <1>1. CASE BtDma
    <2>0. UNCHANGED <<bt_ctl, bt_mode, bt_acqtype, bt_sem, bt_task,
                      bt_rdy, bt_src, bt_rev, bt_cur, bt_acq, bt_reset, bt_sync,
                      bt_stale, bt_lost>>
      BY Zenon, <1>1 DEF BtDma
    <2>1. BtTypeOK'
      <3>1. bt_status' \subseteq {"RISCI", "ERR"}
        BY Zenon, <1>1 DEF BtDma, BtTypeOK
      <3>2. bt_buf' \in [{0, 1} -> {"old", "part", "whole"}]
        BY Zenon, <1>1 DEF BtDma, BtTypeOK
      <3>3. bt_frame' \in {0, 1} /\ bt_field' \in {"odd", "even"}
        <4>1. CASE bt_field = "odd"
          BY Zenon, <1>1, <4>1 DEF BtDma, BtTypeOK
        <4>2. CASE bt_field # "odd"
          BY <1>1, <4>2 DEF BtDma, BtTypeOK
        <4> QED
          BY Zenon, <4>1, <4>2
      <3> QED
        BY Zenon, <2>0, <3>1, <3>2, <3>3 DEF BtTypeOK
    <2>2. bt_frame \in {0, 1} /\ bt_cur \in {0, 1} /\ bt_buf \in [{0, 1} -> {"old", "part", "whole"}]
      BY Zenon DEF BtTypeOK
    <2>3. CASE bt_field = "odd"
      <3>0. /\ UNCHANGED <<bt_frame, bt_status, bt_late>>
            /\ \A f \in {0, 1} : f # bt_frame => bt_buf'[f] = bt_buf[f]
            /\ bt_torn' => bt_torn \/ (bt_task = "copy" /\ bt_src = bt_frame)
        BY Zenon, <1>1, <2>2, <2>3 DEF BtDma
      <3>1. BtInStep'
        BY <2>0, <2>2, <3>0 DEF BtInStep
      <3>2. BtCopying'
        BY Zenon, <2>0, <3>0 DEF BtCopying, BtInStep
      <3> QED
        BY Zenon, <2>0, <2>1, <3>1, <3>2 DEF BtSemMade, BtTakesCounted
    <2>4. CASE bt_field # "odd"
      <3>0. /\ "RISCI" \notin bt_status /\ bt_frame' = 1 - bt_frame
            /\ "RISCI" \in bt_status' /\ (bt_task # "wait" => bt_late')
            /\ bt_mode = "320x240" => bt_buf'[bt_frame] = "whole"
        BY Zenon, <1>1, <2>2, <2>4 DEF BtDma
      <3>1. BtInStep'
        <4>1. 1 - bt_frame' = bt_frame
          BY <2>2, <3>0
        <4> QED
          BY <2>0, <2>2, <3>0, <4>1 DEF BtInStep
      <3>2. BtCopying'
        BY Zenon, <2>0, <3>0 DEF BtCopying
      <3> QED
        BY Zenon, <2>0, <2>1, <3>1, <3>2 DEF BtSemMade, BtTakesCounted
    <2> QED
      BY Zenon, <2>3, <2>4
  <1>2. CASE BtError
    <2>0. /\ UNCHANGED <<bt_mode, bt_acqtype, bt_frame, bt_buf, bt_sem, bt_task,
                         bt_rdy, bt_src, bt_torn, bt_rev, bt_cur, bt_acq, bt_reset, bt_sync,
                         bt_late, bt_stale, bt_lost>>
          /\ "dma" \in bt_ctl' => "dma" \in bt_ctl
          /\ "RISCI" \in bt_status' <=> "RISCI" \in bt_status
      BY Zenon, <1>2 DEF BtError, btEngine, btTask
    <2>1. BtTypeOK'
      BY Zenon, <1>2 DEF BtError, btEngine, btTask, BtTypeOK
    <2>2. BtInStep' /\ BtCopying' /\ BtSemMade' /\ BtTakesCounted'
      BY Zenon, <2>0 DEF BtInStep, BtCopying, BtSemMade, BtTakesCounted
    <2> QED
      BY Zenon, <2>1, <2>2
  <1>3. CASE pci_inta_isr
    <2>0. UNCHANGED <<bt_mode, bt_acqtype, bt_buf, bt_task, bt_rdy, bt_src, bt_torn,
                      bt_rev, bt_reset>> /\ bt_status' = {} /\ bt_status # {}
      BY Zenon, <1>3 DEF pci_inta_isr, btTask
    <2>1. BtTypeOK'
      <3>1. /\ bt_frame' \in {0, 1} /\ bt_cur' \in {0, 1} /\ bt_acq' \in Nat
            /\ bt_field' \in {"odd", "even"}
        <4>1. CASE "ERR" \in bt_status
          BY Zenon, <1>3, <4>1 DEF pci_inta_isr, BtTypeOK
        <4>2. CASE "ERR" \notin bt_status
          BY <1>3, <4>2 DEF pci_inta_isr, BtTypeOK
        <4> QED
          BY Zenon, <4>1, <4>2
      <3>2. bt_sem' \in {"nil", "empty", "full", "deleted"}
        BY Zenon, <1>3 DEF pci_inta_isr, BtTypeOK
      <3> QED
        BY Zenon, <2>0, <3>1, <3>2 DEF BtTypeOK
    <2>2. CASE "ERR" \in bt_status
      <3>0. /\ bt_frame' = 0 /\ bt_stale' /\ (bt_sync' => bt_cur = 1)
            /\ bt_task # "wait" => bt_late'
            /\ UNCHANGED <<bt_acq, bt_cur, bt_sem, bt_lost>>
        BY Zenon, <1>3, <2>2 DEF pci_inta_isr
      <3>1. BtInStep' /\ BtCopying' /\ BtSemMade' /\ BtTakesCounted'
        BY <2>0, <3>0 DEF BtInStep, BtCopying, BtSemMade, BtTakesCounted
      <3> QED
        BY Zenon, <2>1, <3>1
    <2>3. CASE "ERR" \notin bt_status
      <3>0. /\ bt_acq' = bt_acq + 1 /\ bt_cur' = 1 - bt_cur
            /\ bt_sem' = IF bt_sem \in {"nil", "deleted"} THEN bt_sem ELSE "full"
            /\ bt_lost' => bt_lost \/ (bt_task # "none" /\ bt_sem \in {"nil", "deleted"})
            /\ UNCHANGED <<bt_ctl, bt_frame, bt_sync, bt_late>>
        BY Zenon, <1>3, <2>3 DEF pci_inta_isr
      <3>1. BtSemMade'
        BY Zenon, <2>0, <3>0 DEF BtSemMade
      <3>2. BtTakesCounted'
        BY <2>0, <3>0 DEF BtTakesCounted, BtTypeOK
      <3>3. "RISCI" \in bt_status
        BY Zenon, <2>0, <2>3 DEF BtTypeOK
      <3>4. BtInStep' /\ BtCopying'
        <4>1. bt_cur \in {0, 1} /\ bt_frame \in {0, 1}
          BY Zenon DEF BtTypeOK
        <4> QED
          BY <2>0, <3>0, <3>3, <4>1 DEF BtInStep, BtCopying
      <3> QED
        BY Zenon, <2>1, <3>1, <3>2, <3>4
    <2> QED
      BY Zenon, <2>2, <2>3
  <1> QED
    BY Zenon, <1>1, <1>2, <1>3

\* The driver's state before the card is started.
LEMMA BtInitInv == BtInit => BtInv
  BY DEF BtInit, BtInv, BtTypeOK, BtModes, BtInStep, BtCopying, BtSemMade, BtTakesCounted

\* Every step of the chip, the handler and the task keeps it.
LEMMA BtStepInv == BtInv /\ [BtNext]_btvars => BtInv'
  BY Zenon, BtTaskInv, BtControlInv, BtResetInv, BtChipInv DEF BtNext

\* However the shell commands, the engine, the handler (pci_inta_isr) and
\* tBtvid interleave, and however many frames are counted, current_frame
\* keeps pace with the engine while the acquisition is in step, and a copy
\* made in time hands the client one whole frame.
THEOREM BtFramesCorrect == BtSpec => []BtFramesWhole
  <1>1. BtInv => BtFramesWhole
    BY Zenon DEF BtInv, BtInStep, BtCopying, BtFramesWhole, BtPhase, BtCopyWhole, BtRunning
  <1> QED
    BY <1>1, BtInitInv, BtStepInv, PTL DEF BtSpec

\* The semaphore frameRdy: tBtvid never takes more frames than pci_inta_isr
\* counted, through every full_reset, and in btvid3.c the handler of a
\* started driver never finds the semaphore missing.
THEOREM BtSemaphoreCorrect == BtSpec => []BtSemaphoreSound
  <1>1. BtInv => BtSemaphoreSound
    BY Zenon DEF BtInv, BtSemMade, BtSemaphoreSound, BtGiveReachesTask
  <1> QED
    BY <1>1, BtInitInv, BtStepInv, PTL DEF BtSpec

=============================================================================
