------------------------- MODULE NetSession_proofs -------------------------
(***************************************************************************)
(* Theorems about NetSession, for every set of senders and every length of *)
(* the waits.                                                              *)
(***************************************************************************)
EXTENDS NetSession, TLAPS

\* What the fields say of the resources behind them.
ResourceInv ==
    /\ sock => open = 1
    /\ mode # "Disabled" => wsa = 1 /\ (thread \/ own_pc = "thread")
    /\ own_pc = "start" => recv_pc = "none" /\ first = NULL /\ sent_to = {}
    /\ own_pc \in {"start", "failed"} =>
          /\ mode = "Disabled" /\ ~sock /\ ~thread
          /\ open = 0 /\ wsa = 0 /\ recv_pc = "none"
    /\ own_pc \in {"socket", "bind"} =>
          /\ mode = "Disabled" /\ ~sock /\ ~thread
          /\ open = (IF own_pc = "bind" THEN 1 ELSE 0) /\ wsa = 1
          /\ recv_pc = "none"
    /\ own_pc = "thread" =>
          /\ mode # "Disabled" /\ sock /\ ~thread
          /\ open = 1 /\ wsa = 1 /\ recv_pc = "none"
    /\ own_pc \in {"wait", "down"} => ~sock /\ open = 0
    /\ own_pc = "down" => mode = "Disabled"
    /\ own_pc \in {"up", "close"} => (sock <=> thread) /\ (thread <=> open = 1)
    /\ ~thread /\ own_pc # "down" => recv_pc = "none"
    /\ cfg_mode = "Disabled" => /\ recv_pc = "none"
                                /\ own_pc \notin {"socket", "bind", "thread"}

TypeInv == TypeOK /\ ResourceInv

LEMMA Bounds ==
    WaitMax \in Nat /\ CallbackMax \in Nat /\ MaxDatagrams \in Nat
BY NumberAssumption

LEMMA TypeInit == Init => TypeInv
<1> SUFFICES ASSUME Init PROVE TypeOK /\ ResourceInv
  BY DEF TypeInv
<1>1. TypeOK
  <2>1. /\ open \in 0 .. 1 /\ wsa \in 0 .. 1 /\ busy \in Nat
        /\ waited \in 0 .. WaitMax /\ count \in 0 .. MaxDatagrams
    BY Bounds DEF Init
  <2>2. QED
    BY <2>1, Zenon DEF Init, TypeOK
<1>2. ResourceInv
  BY DEF Init, ResourceInv
<1>3. QED
  BY <1>1, <1>2

LEMMA TypeStep == TypeInv /\ [Next]_vars => TypeInv'
<1> SUFFICES ASSUME TypeInv, [Next]_vars PROVE TypeInv'
  OBVIOUS
<1> USE Bounds DEF TypeInv, TypeOK, ResourceInv
<1>1. CASE InstallDisabled
  BY <1>1 DEF InstallDisabled, installFrame, winsockVars, historyVars
<1>2. CASE StartWinsock \/ OpenSocket
  BY <1>2 DEF StartWinsock, OpenSocket, installFrame, historyVars
<1>3. CASE Bind \/ StartThread
  <2>1. TypeOK'
    <3>1. open' \in 0 .. 1 /\ wsa' \in 0 .. 1
      BY <1>3 DEF Bind, BindFails, StartThread, winsockVars
    <3>2. peer_addr' \in Senders \cup {NULL} /\ peer_known' \in BOOLEAN
      BY <1>3, ConfigAssumption DEF Bind, StartThread, LearnAtInstall
    <3>3. QED
      BY <1>3, <3>1, <3>2 DEF Bind, StartThread, installFrame, historyVars
  <2>2. ResourceInv'
    BY <1>3 DEF Bind, BindFails, StartThread, installFrame, winsockVars, historyVars
  <2>3. QED
    BY <2>1, <2>2
<1>4. CASE InstallAgain
  BY <1>4 DEF InstallAgain, winsockVars, ownerVars, recvVars, historyVars
<1>5. CASE ShutdownNothing
  BY <1>5 DEF ShutdownNothing, fieldVars, winsockVars, recvVars, historyVars
<1>6. CASE ShutdownBegin
  BY <1>6 DEF ShutdownBegin, winsockVars, recvVars, historyVars
<1>7. CASE CloseSocket
  <2>1. open' = 0
    BY <1>7 DEF CloseSocket
  <2>2. TypeOK'
    <3>1. open' \in 0 .. 1 /\ waited' \in 0 .. WaitMax
      BY <1>7, <2>1 DEF CloseSocket
    <3>2. /\ sock' \in BOOLEAN /\ own_pc' = "wait"
          /\ UNCHANGED <<cfg_mode, timeout_works, install_twice,
                         mode, peer_addr,
                         peer_known, stopping, thread,
                         wsa, recv_pc, from, busy, count, send_pc, first,
                         sent_to>>
      BY <1>7 DEF CloseSocket, recvVars, historyVars
    <3>3. QED
      BY <3>1, <3>2
  <2>3. ResourceInv'
    BY <1>7, <2>1 DEF CloseSocket, recvVars, historyVars
  <2>4. QED
    BY <2>2, <2>3
<1>8. CASE ShutdownEnd
  <2>1. wsa' \in 0 .. 1
    BY <1>8 DEF ShutdownEnd
  <2>2. TypeOK'
    <3>1. /\ mode' = "Disabled" /\ thread' = FALSE /\ own_pc' = "down"
          /\ UNCHANGED <<cfg_mode, timeout_works, install_twice, sock, peer_addr,
                         peer_known, stopping, open, waited, recv_pc, from,
                         busy, count, send_pc, first, sent_to>>
      BY <1>8 DEF ShutdownEnd, recvVars, historyVars
    <3>2. /\ cfg_mode' \in {"Disabled", "Host", "Client"}
          /\ timeout_works' \in BOOLEAN /\ install_twice' \in BOOLEAN
          /\ mode' \in {"Disabled", cfg_mode'} /\ sock' \in BOOLEAN
      BY <3>1, Zenon
    <3>3. /\ peer_addr' \in Senders \cup {NULL} /\ peer_known' \in BOOLEAN
          /\ stopping' \in BOOLEAN /\ thread' \in BOOLEAN
          /\ open' \in 0 .. 1 /\ waited' \in 0 .. WaitMax
          /\ from' \in Senders \cup {NULL} /\ first' \in Senders \cup {NULL}
      BY <3>1, Zenon
    <3>4. QED
      BY <2>1, <3>1, <3>2, <3>3, Zenon
  <2>3. ResourceInv'
    BY <1>8 DEF ShutdownEnd, recvVars, historyVars
  <2>4. QED
    BY <2>2, <2>3
<1>9. CASE Recv
  <2>1. /\ UNCHANGED <<cfg_mode, timeout_works, install_twice,
                       mode, sock, stopping, thread, open, wsa, own_pc,
                       waited, send_pc, sent_to>>
        /\ recv_pc # "none"
    BY <1>9 DEF Recv, recvFrame, winsockVars, ownerVars, LoopTest, Arrives,
                EmptyArrives, RecvTimesOut, RecvFails, SleepOver,
                HandleDatagram, LearnPeer, CopyThenPublish, Callback
  <2>2. /\ recv_pc' \in {"loop", "recvfrom", "datagram", "copy", "publish",
                         "callback", "sleep", "exited"}
        /\ peer_addr' \in Senders \cup {NULL} /\ peer_known' \in BOOLEAN
        /\ from' \in Senders \cup {NULL}
    BY <1>9 DEF Recv, LoopTest, Arrives, EmptyArrives, RecvTimesOut, RecvFails,
                RecvError,
                SleepOver, HandleDatagram, LearnPeer, CopyThenPublish, Callback
  <2>3. /\ busy' \in Nat /\ count' \in 0 .. MaxDatagrams
        /\ first' \in Senders \cup {NULL}
    BY <1>9 DEF Recv, LoopTest, Arrives, EmptyArrives, RecvTimesOut,
                RecvFails, SleepOver, HandleDatagram, LearnPeer, Callback
  <2>4. TypeOK'
    BY <2>1, <2>2, <2>3
  <2>5. ResourceInv'
    BY <2>1, <2>2
  <2>6. QED
    BY <2>4, <2>5
<1>10. CASE SendBegin \/ SendTo
  BY <1>10 DEF SendBegin, SendTo, fieldVars, winsockVars, ownerVars, recvVars,
               historyVars
<1>11. CASE Tick
  BY <1>11 DEF Tick, fieldVars, winsockVars, historyVars
<1>12. CASE UNCHANGED vars
  BY <1>12 DEF vars, fieldVars, winsockVars, ownerVars, recvVars, historyVars
<1>13. QED
  BY <1>1, <1>2, <1>3, <1>4, <1>5, <1>6, <1>7, <1>8, <1>9, <1>10, <1>11, <1>12
     DEF Next, Install, Shutdown

\* Every field keeps its type; in particular no socket is closed and no
\* WSAStartup balanced twice.
THEOREM Typing == Spec => []TypeOK
<1>1. TypeInv => TypeOK
  BY DEF TypeInv
<1>2. QED
  BY <1>1, TypeInit, TypeStep, PTL DEF Spec

-----------------------------------------------------------------------------
(* Winsock is given back. *)

WsaInv == ~install_twice /\ mode = "Disabled" /\ own_pc \notin {"socket", "bind"}
          => wsa = 0

LEMMA WsaStep ==
    ASSUME TypeInv, WsaInv, [Next]_vars
    PROVE  WsaInv'
<1> USE DEF WsaInv, TypeInv, TypeOK, ResourceInv
<1>1. CASE Install
  BY <1>1 DEF Install, InstallDisabled, StartWinsock, OpenSocket, Bind, BindFails,
              StartThread, InstallAgain, installFrame, winsockVars
<1>2. CASE ShutdownEnd
  <2>1. CASE mode = "Disabled"
    BY <1>2, <2>1 DEF ShutdownEnd
  <2>2. CASE mode # "Disabled"
    BY <1>2, <2>2 DEF ShutdownEnd
  <2>3. QED
    BY <2>1, <2>2
<1>3. CASE UNCHANGED <<install_twice, mode, wsa>> /\ own_pc' = own_pc
  BY <1>3
<1>4. CASE ShutdownNothing \/ ShutdownBegin \/ CloseSocket
  BY <1>4 DEF ShutdownNothing, ShutdownBegin, CloseSocket, fieldVars, winsockVars
<1>5. QED
  BY <1>1, <1>2, <1>3, <1>4
     DEF Next, Shutdown, Recv, ownerVars, recvFrame, LoopTest, Arrives,
         EmptyArrives, RecvTimesOut, RecvFails, SleepOver, HandleDatagram,
         LearnPeer, Callback, SendBegin, SendTo, Tick, vars, fieldVars,
         winsockVars

\* When install is called once, neither a failed install nor a shutdown leaves
\* a socket or a WSAStartup reference behind, whichever step failed.
THEOREM WinsockGivenBack == Spec => []NoWinsockLeak
<1>1. Init => TypeInv /\ WsaInv
  BY TypeInit DEF Init, WsaInv
<1>2. TypeInv /\ WsaInv /\ [Next]_vars => TypeInv' /\ WsaInv'
  BY TypeStep, WsaStep
<1>3. TypeInv /\ WsaInv => NoWinsockLeak
  <2> SUFFICES ASSUME TypeInv, WsaInv, ~install_twice,
                      own_pc \in {"failed", "down"}
               PROVE  open = 0 /\ wsa = 0
    BY DEF NoWinsockLeak
  <2>1. own_pc = "down" => mode = "Disabled"
    BY DEF TypeInv, ResourceInv
  <2>2. QED
    BY <2>1 DEF TypeInv, ResourceInv, WsaInv
<1>4. QED
  BY <1>1, <1>2, <1>3, PTL DEF Spec

-----------------------------------------------------------------------------
(* The recv thread ends within shutdown's bounded wait. *)

\* How long the recv thread may still block after the stop flag is up.
Longest == IF CallbackMax > 1 THEN CallbackMax ELSE 1

WaitInv == timeout_works =>
    /\ recv_pc \in {"recvfrom", "sleep"} => busy <= 1
    /\ recv_pc = "callback" => busy <= CallbackMax
    /\ recv_pc \in {"copy", "publish"} => busy = 0
    /\ own_pc \in {"close", "wait"} => stopping
    /\ own_pc = "wait" =>
          /\ recv_pc \in {"recvfrom", "sleep", "callback"} => waited <= busy
          /\ recv_pc = "loop" => waited <= Longest
          /\ recv_pc \in {"datagram", "copy", "publish"} => waited = 0
    /\ own_pc = "down" => recv_pc \in {"none", "exited"}

LEMMA WaitStep ==
    ASSUME WaitMax > Longest, TypeInv, WaitInv, [Next]_vars
    PROVE  WaitInv'
<1>0. /\ TypeOK /\ ResourceInv /\ Longest \in Nat /\ 1 <= Longest
      /\ CallbackMax <= Longest
  BY Bounds DEF TypeInv, Longest
<1> USE Bounds DEF TypeOK
<1>1. CASE Install
  BY <1>0, <1>1
     DEF Install, InstallDisabled, StartWinsock, OpenSocket, Bind, StartThread,
         InstallAgain, installFrame, WaitInv, ResourceInv, recvVars, ownerVars
<1>2. CASE ShutdownNothing \/ ShutdownBegin
  BY <1>0, <1>2
     DEF ShutdownNothing, ShutdownBegin, WaitInv, ResourceInv, recvVars, fieldVars
<1>3. CASE CloseSocket
  BY <1>0, <1>3 DEF CloseSocket, WaitInv, recvVars
<1>4. CASE ShutdownEnd
  <2>1. CASE thread
    BY <1>0, <1>4, <2>1 DEF ShutdownEnd, WaitOver, WaitInv, recvVars
  <2>2. CASE ~thread
    BY <1>0, <1>4, <2>2 DEF ShutdownEnd, WaitInv, ResourceInv, recvVars
  <2>3. QED
    BY <2>1, <2>2
<1>5. CASE Recv
  <2>1. UNCHANGED <<timeout_works, own_pc, waited, stopping>>
    BY <1>5 DEF Recv, recvFrame, ownerVars, LoopTest, Arrives, EmptyArrives,
                RecvTimesOut,
                RecvFails, SleepOver, HandleDatagram, LearnPeer, Callback
  <2>2. CASE LoopTest
    BY <1>0, <2>1, <2>2 DEF LoopTest, WaitInv
  <2>3. CASE EmptyArrives \/ \E a \in Senders : Arrives(a)
    BY <1>0, <2>1, <2>3 DEF Arrives, EmptyArrives, WaitInv, ResourceInv
  <2>4. CASE RecvTimesOut \/ RecvFails \/ SleepOver
    BY <1>0, <2>1, <2>4 DEF RecvTimesOut, RecvFails, RecvError, SleepOver, WaitInv
  <2>5. CASE HandleDatagram \/ LearnPeer
    BY <1>0, <2>1, <2>5 DEF HandleDatagram, LearnPeer, CopyThenPublish, WaitInv
  <2>6. CASE Callback
    BY <1>0, <2>1, <2>6 DEF Callback, WaitInv
  <2>7. QED
    BY <1>5, <2>2, <2>3, <2>4, <2>5, <2>6 DEF Recv
<1>6. CASE Tick
  BY <1>0, <1>6 DEF Tick, BlocksUpTo, BlocksForEver, WaitInv, fieldVars
<1>7. CASE UNCHANGED <<timeout_works, recv_pc, busy, own_pc, stopping, waited>>
  BY <1>7 DEF WaitInv
<1>8. QED
  BY <1>1, <1>2, <1>3, <1>4, <1>5, <1>6, <1>7
     DEF Next, Shutdown, SendBegin, SendTo, vars, fieldVars, ownerVars, recvVars

\* shutdown's wait is long enough: with SO_RCVTIMEO in force, and a callback
\* that gets the manager's mutex within the wait, the thread has ended when
\* shutdown returns, whatever it was doing when the stop flag went up.
THEOREM StoppedInTime ==
    ASSUME WaitMax > 1, WaitMax > CallbackMax
    PROVE  Spec => []RecvThreadStopped
<1>0. WaitMax > Longest
  BY Bounds DEF Longest
<1>1. Init => TypeInv /\ WaitInv
  BY TypeInit DEF Init, WaitInv
<1>2. TypeInv /\ WaitInv /\ [Next]_vars => TypeInv' /\ WaitInv'
  BY <1>0, TypeStep, WaitStep
<1>3. TypeInv /\ WaitInv => RecvThreadStopped
  BY DEF WaitInv, RecvThreadStopped
<1>4. QED
  BY <1>1, <1>2, <1>3, PTL DEF Spec

-----------------------------------------------------------------------------
(* Where a datagram goes. *)

Learning == recv_pc \in {"copy", "publish"}

ClientInv ==
    /\ mode # "Disabled" => peer_addr = Peer
    /\ ~Learning /\ (send_pc = "sendto" => peer_addr = Peer)
    /\ sent_to \subseteq {Peer}

HostInv ==
    /\ peer_known => peer_addr = first /\ first # NULL
    /\ Learning => ~peer_known /\ from = first /\ first # NULL
    /\ recv_pc = "publish" => peer_addr = from
    /\ mode = "Host" /\ ~peer_known =>
          /\ recv_pc = "datagram" => from = first /\ first # NULL
          /\ recv_pc \notin {"datagram", "copy", "publish"} => first = NULL
    /\ send_pc = "sendto" => peer_known
    /\ sent_to \subseteq {first} \ {NULL}

AddressInv ==
    /\ own_pc \in {"start", "socket", "bind"} =>
          ~peer_known /\ send_pc = "idle" /\ first = NULL /\ sent_to = {}
    /\ cfg_mode = "Client" => ClientInv
    /\ cfg_mode = "Host" => HostInv
    /\ cfg_mode = "Disabled" => send_pc = "idle" /\ sent_to = {}

LEMMA AddressStep ==
    ASSUME TypeInv, AddressInv, [Next]_vars
    PROVE  AddressInv'
<1>0. TypeOK /\ ResourceInv /\ NULL \notin Senders /\ Peer \in Senders
  BY ConfigAssumption DEF TypeInv
<1> USE DEF TypeOK, AddressInv, ClientInv, HostInv, Learning
<1>1. CASE Install
  <2>1. CASE InstallDisabled
    BY <1>0, <2>1 DEF InstallDisabled, installFrame, winsockVars, historyVars
  <2>2. CASE StartWinsock \/ OpenSocket
    BY <1>0, <2>2 DEF StartWinsock, OpenSocket, ResourceInv, installFrame, historyVars
  <2>3. CASE Bind \/ StartThread
    BY <1>0, <2>3 DEF Bind, StartThread, LearnAtInstall, ResourceInv, installFrame,
                      historyVars
  <2>4. CASE InstallAgain
    BY <1>0, <2>4 DEF InstallAgain, ownerVars, recvVars, historyVars
  <2>5. QED
    BY <1>1, <2>1, <2>2, <2>3, <2>4 DEF Install
<1>2. CASE Shutdown
  BY <1>0, <1>2
     DEF Shutdown, ShutdownNothing, ShutdownBegin, CloseSocket, ShutdownEnd,
         fieldVars, recvVars, historyVars
<1>3. CASE Recv
  <2>1. /\ UNCHANGED <<cfg_mode, mode, own_pc, send_pc, sent_to>>
        /\ own_pc \notin {"start", "socket", "bind"} /\ cfg_mode # "Disabled"
    BY <1>0, <1>3
       DEF Recv, recvFrame, ownerVars, LoopTest, Arrives, EmptyArrives,
                RecvTimesOut,
           RecvFails, SleepOver, HandleDatagram, LearnPeer, CopyThenPublish,
           Callback, ResourceInv
  <2>2. CASE LoopTest \/ EmptyArrives \/ RecvTimesOut \/ RecvFails \/ SleepOver
    BY <1>0, <2>1, <2>2
       DEF LoopTest, EmptyArrives, RecvTimesOut, RecvFails, RecvError, SleepOver
  <2>3. CASE \E a \in Senders : Arrives(a)
    BY <1>0, <2>1, <2>3 DEF Arrives
  <2>4. CASE HandleDatagram
    BY <1>0, <2>1, <2>4 DEF HandleDatagram, MustLearn
  <2>5. CASE LearnPeer
    BY <1>0, <2>1, <2>5 DEF LearnPeer, CopyThenPublish
  <2>6. CASE Callback
    BY <1>0, <2>1, <2>6 DEF Callback
  <2>7. QED
    BY <1>3, <2>2, <2>3, <2>4, <2>5, <2>6 DEF Recv
<1>4. CASE SendBegin
  BY <1>0, <1>4 DEF SendBegin, ResourceInv, fieldVars, ownerVars, recvVars,
                    historyVars
<1>5. CASE SendTo
  BY <1>0, <1>5 DEF SendTo, fieldVars, ownerVars, recvVars
<1>6. CASE UNCHANGED <<cfg_mode, mode, own_pc, peer_addr, peer_known, recv_pc,
                       from, first, send_pc, sent_to>>
  BY <1>6
<1>7. QED
  BY <1>1, <1>2, <1>3, <1>4, <1>5, <1>6
     DEF Next, Tick, vars, fieldVars, ownerVars, recvVars, historyVars

\* A host answers the sender of its first datagram with content and nobody
\* else, and never reads a half copied address; a client sends to the peer it was given.
THEOREM OnlyToFirstSender == Spec => []SendsToFirstSender
<1>1. Init => TypeInv /\ AddressInv
  BY TypeInit DEF Init, AddressInv, ClientInv, HostInv, Learning
<1>2. TypeInv /\ AddressInv /\ [Next]_vars => TypeInv' /\ AddressInv'
  BY TypeStep, AddressStep
<1>3. TypeInv /\ AddressInv => SendsToFirstSender
  BY ConfigAssumption
     DEF TypeInv, TypeOK, AddressInv, ClientInv, HostInv, SendsToFirstSender
<1>4. QED
  BY <1>1, <1>2, <1>3, PTL DEF Spec
=============================================================================
