----------------------------- MODULE NetSession -----------------------------
(***************************************************************************)
(* NetSession: the UDP socket of one process, its recv thread and its      *)
(* shutdown.                                                               *)
(*                                                                         *)
(* Three threads meet here.  The owner thread runs install and, at the     *)
(* end, shutdown; the recv thread runs recv_loop; the sim thread runs      *)
(* send.  They share plain and atomic fields and no lock, so every access  *)
(* to a shared field is a step of its own.                                 *)
(*                                                                         *)
(* Time matters only to shutdown's bounded wait.  One Tick is 250 ms, the  *)
(* SO_RCVTIMEO of the socket, and passes only while every running thread   *)
(* is blocked.                                                             *)
(***************************************************************************)
EXTENDS Integers

CONSTANTS
    Senders,       \* the addresses datagrams come from
    Peer,          \* the one that is the other player's game
    NULL,
    WaitMax,       \* Ticks shutdown waits for the thread: 8
    CallbackMax,   \* Ticks the recv callback may wait for the manager's m_mu
    MaxDatagrams   \* bound: datagrams that arrive

ASSUME ConfigAssumption ==
    Peer \in Senders /\ NULL \notin Senders
ASSUME NumberAssumption ==
    {WaitMax, CallbackMax, MaxDatagrams} \subseteq Nat

VARIABLES
    \* what the start of the program decides, for good
    cfg_mode,      \* cmdline_config().mode
    timeout_works, \* setsockopt(SO_RCVTIMEO) succeeds
    install_twice, \* a second install() call is made, in host mode
    \* the fields of NetSession
    mode, sock, peer_addr, peer_known, stopping,
    thread,      \* m_recv_thread is not null
    \* Winsock
    open,        \* sockets the process holds open
    wsa,         \* WSAStartup calls not yet balanced by WSACleanup
    \* the owner thread
    own_pc, waited,
    \* the recv thread
    recv_pc, from, busy, count,
    \* the sim thread
    send_pc,
    \* history
    first,       \* sender of the first datagram that was not empty
    sent_to      \* addresses send() has sent to

fieldVars == <<cfg_mode, timeout_works, install_twice, mode, sock, peer_addr,
               peer_known, stopping, thread>>
winsockVars == <<open, wsa>>
ownerVars == <<own_pc, waited>>
recvVars == <<recv_pc, from, busy, count>>
historyVars == <<first, sent_to>>
vars == <<fieldVars, winsockVars, ownerVars, recvVars, send_pc, historyVars>>

-----------------------------------------------------------------------------
Init ==
    /\ cfg_mode \in {"Disabled", "Host", "Client"}
    /\ timeout_works \in BOOLEAN /\ install_twice \in BOOLEAN
    /\ mode = "Disabled" /\ sock = FALSE
    /\ peer_addr = NULL /\ peer_known = FALSE
    /\ stopping = FALSE /\ thread = FALSE
    /\ open = 0 /\ wsa = 0
    /\ own_pc = "start" /\ waited = 0
    /\ recv_pc = "none" /\ from = NULL /\ busy = 0 /\ count = 0
    /\ send_pc = "idle"
    /\ first = NULL /\ sent_to = {}

-----------------------------------------------------------------------------
(* install: WSAStartup, a socket, bind or connect, the thread.  Each step    *)
(* that fails gives back what the ones before it took.                      *)

installFrame == UNCHANGED <<cfg_mode, timeout_works, install_twice, stopping,
                            waited, from, busy, count, send_pc, historyVars>>

InstallDisabled ==
    /\ own_pc = "start" /\ cfg_mode = "Disabled"
    /\ own_pc' = "up"
    /\ installFrame
    /\ UNCHANGED <<mode, sock, peer_addr, peer_known, thread, winsockVars, recv_pc>>

StartWinsock ==
    /\ own_pc = "start" /\ cfg_mode # "Disabled"
    /\ \/ wsa' = wsa + 1 /\ own_pc' = "socket"
       \/ UNCHANGED wsa /\ own_pc' = "failed"
    /\ installFrame
    /\ UNCHANGED <<mode, sock, peer_addr, peer_known, thread, open, recv_pc>>

OpenSocket ==
    /\ own_pc = "socket"
    /\ \/ open' = open + 1 /\ UNCHANGED wsa /\ own_pc' = "bind"
       \/ UNCHANGED open /\ wsa' = wsa - 1 /\ own_pc' = "failed"
    /\ installFrame
    /\ UNCHANGED <<mode, sock, peer_addr, peer_known, thread, recv_pc>>

\* connect() names the peer, so a client knows its address at once.
LearnAtInstall ==
    IF cfg_mode = "Client" THEN peer_addr' = Peer /\ peer_known' = TRUE
                          ELSE UNCHANGED <<peer_addr, peer_known>>

\* bind of a host, connect of a client.
BindFailsOpen == UNCHANGED open /\ wsa' = wsa - 1
BindFails == open' = open - 1 /\ wsa' = wsa - 1

Bind ==
    /\ own_pc = "bind"
    /\ \/ /\ LearnAtInstall
          /\ mode' = cfg_mode /\ sock' = TRUE
          /\ UNCHANGED winsockVars /\ own_pc' = "thread"
       \/ /\ BindFails /\ own_pc' = "failed"
          /\ UNCHANGED <<mode, sock, peer_addr, peer_known>>
    /\ installFrame
    /\ UNCHANGED <<thread, recv_pc>>

StartThread ==
    /\ own_pc = "thread"
    /\ \/ /\ thread' = TRUE /\ recv_pc' = "loop" /\ own_pc' = "up"
          /\ UNCHANGED <<mode, sock, winsockVars>>
       \/ /\ open' = open - 1 /\ wsa' = wsa - 1
          /\ mode' = "Disabled" /\ sock' = FALSE /\ own_pc' = "failed"
          /\ UNCHANGED <<thread, recv_pc>>
    /\ installFrame
    /\ UNCHANGED <<peer_addr, peer_known>>

\* A second call does not ask whether the first one succeeded.  In host mode
\* its bind meets our own socket on the port and fails.
InstallAgain ==
    /\ install_twice
    /\ own_pc = "up" /\ cfg_mode = "Host"
    /\ mode' = "Disabled"
    /\ UNCHANGED <<cfg_mode, timeout_works, install_twice,
                   sock, peer_addr, peer_known, stopping, thread, winsockVars,
                   ownerVars, recvVars, send_pc, historyVars>>

-----------------------------------------------------------------------------
(* shutdown: stop flag, close the socket, bounded wait, WSACleanup.        *)

ShutdownNothing ==
    /\ own_pc \in {"up", "failed"} /\ mode = "Disabled" /\ ~thread
    /\ own_pc' = "down"
    /\ UNCHANGED <<fieldVars, winsockVars, waited, recvVars, send_pc, historyVars>>

ShutdownBegin ==
    /\ own_pc \in {"up", "failed"} /\ (mode # "Disabled" \/ thread)
    /\ stopping' = TRUE /\ own_pc' = "close"
    /\ UNCHANGED <<cfg_mode, timeout_works, install_twice,
                   mode, sock, peer_addr, peer_known, thread, winsockVars,
                   waited, recvVars, send_pc, historyVars>>

CloseSocket ==
    /\ own_pc = "close"
    /\ open' = IF sock THEN open - 1 ELSE open
    /\ sock' = FALSE /\ own_pc' = "wait" /\ waited' = 0
    /\ UNCHANGED <<cfg_mode, timeout_works, install_twice,
                   mode, peer_addr, peer_known, stopping, thread, wsa,
                   recvVars, send_pc, historyVars>>

\* WaitForSingleObject(m_recv_thread, 2000) returns.
WaitOverAtOnce == TRUE
WaitOverJoin == recv_pc = "exited"
WaitOver == recv_pc = "exited" \/ waited = WaitMax

ShutdownEnd ==
    /\ own_pc = "wait" /\ (thread => WaitOver)
    /\ thread' = FALSE
    /\ wsa' = IF mode # "Disabled" THEN wsa - 1 ELSE wsa
    /\ mode' = "Disabled" /\ own_pc' = "down"
    /\ UNCHANGED <<cfg_mode, timeout_works, install_twice,
                   sock, peer_addr, peer_known, stopping, open, waited,
                   recvVars, send_pc, historyVars>>

-----------------------------------------------------------------------------
(* recv_loop.                                                              *)

recvFrame == UNCHANGED <<cfg_mode, timeout_works, install_twice,
                         mode, sock, stopping, thread, winsockVars,
                         ownerVars, send_pc, sent_to>>

\* The loop's condition and the test of m_sock.
LoopTest ==
    /\ recv_pc = "loop"
    /\ recv_pc' = IF stopping \/ ~sock THEN "exited" ELSE "recvfrom"
    /\ busy' = 0
    /\ recvFrame /\ UNCHANGED <<peer_addr, peer_known, from, count, first>>

\* A datagram with content.  The kernel passes a client only what its connected
\* peer sends.
Arrives(a) ==
    /\ recv_pc = "recvfrom" /\ open > 0 /\ count < MaxDatagrams
    /\ cfg_mode = "Client" => a = Peer
    /\ recv_pc' = "datagram" /\ from' = a /\ count' = count + 1
    /\ first' = IF first = NULL THEN a ELSE first
    /\ recvFrame /\ UNCHANGED <<peer_addr, peer_known, busy>>

\* recvfrom returns 0: the datagram has no bytes, and the loop begins again.
EmptyArrives ==
    /\ recv_pc = "recvfrom" /\ open > 0 /\ count < MaxDatagrams
    /\ recv_pc' = "loop" /\ count' = count + 1
    /\ recvFrame /\ UNCHANGED <<peer_addr, peer_known, from, busy, first>>

\* WSAETIMEDOUT: poll the stop flag.
RecvTimesOut ==
    /\ recv_pc = "recvfrom" /\ timeout_works /\ busy = 1
    /\ recv_pc' = "loop"
    /\ recvFrame /\ UNCHANGED <<peer_addr, peer_known, from, busy, count,
                                first>>

\* Any other error.  A closed socket may or may not wake recvfrom.
RecvError == IF stopping THEN "exited" ELSE "sleep"

RecvFails ==
    /\ recv_pc = "recvfrom"
    /\ recv_pc' = RecvError /\ busy' = 0
    /\ recvFrame /\ UNCHANGED <<peer_addr, peer_known, from, count, first>>

SleepOver ==
    /\ recv_pc = "sleep"
    /\ recv_pc' = "loop"
    /\ recvFrame /\ UNCHANGED <<peer_addr, peer_known, from, busy, count,
                                first>>

\* A host learns the peer's address from the first datagram with content.
MustLearn == mode = "Host" /\ ~peer_known

HandleDatagram ==
    /\ recv_pc = "datagram"
    /\ recv_pc' = IF MustLearn THEN "copy" ELSE "callback"
    /\ busy' = 0
    /\ recvFrame /\ UNCHANGED <<peer_addr, peer_known, from, count, first>>

\* memcpy into m_peer_addr, then the release store.
PublishFirst ==
    \/ /\ recv_pc = "copy" /\ recv_pc' = "publish"
       /\ peer_known' = TRUE /\ UNCHANGED peer_addr
    \/ /\ recv_pc = "publish" /\ recv_pc' = "callback"
       /\ peer_addr' = from /\ UNCHANGED peer_known
CopyThenPublish ==
    \/ /\ recv_pc = "copy" /\ recv_pc' = "publish"
       /\ peer_addr' = from /\ UNCHANGED peer_known
    \/ /\ recv_pc = "publish" /\ recv_pc' = "callback"
       /\ peer_known' = TRUE /\ UNCHANGED peer_addr

LearnPeer ==
    /\ CopyThenPublish
    /\ recvFrame /\ UNCHANGED <<from, busy, count, first>>

\* m_recv_cb: parses the datagram and hands a pose on.  Only the peer's game
\* sends datagrams with the right magic, version and type.
Callback ==
    /\ recv_pc = "callback"
    /\ recv_pc' = "loop" /\ from' = NULL
    /\ recvFrame /\ UNCHANGED <<peer_addr, peer_known, busy, count, first>>

-----------------------------------------------------------------------------
(* send, on the sim thread.                                                *)

SendBegin ==
    /\ send_pc = "idle"
    /\ mode # "Disabled" /\ sock
    /\ mode = "Host" => peer_known
    /\ send_pc' = "sendto"
    /\ UNCHANGED <<fieldVars, winsockVars, ownerVars, recvVars, historyVars>>

\* Copy m_peer_addr and call sendto; on a closed socket that is an error.
SendTo ==
    /\ send_pc = "sendto"
    /\ send_pc' = "idle"
    /\ sent_to' = IF open > 0 THEN sent_to \cup {peer_addr} ELSE sent_to
    /\ UNCHANGED <<fieldVars, winsockVars, ownerVars, recvVars, first>>

-----------------------------------------------------------------------------
\* How many Ticks the recv thread may spend where it is.
BlocksUpTo ==
    CASE recv_pc = "recvfrom" /\ timeout_works -> 1
      [] recv_pc = "sleep"                    -> 1
      [] recv_pc = "callback"                 -> CallbackMax
      [] OTHER                                -> 0

BlocksForEver == \/ recv_pc \in {"none", "exited"}
                 \/ recv_pc = "recvfrom" /\ ~timeout_works

\* 250 ms pass.
Tick ==
    /\ own_pc \in {"up", "wait"} /\ (own_pc = "wait" => waited < WaitMax)
    /\ busy < BlocksUpTo \/ BlocksForEver
    /\ busy' = IF BlocksForEver THEN busy ELSE busy + 1
    /\ waited' = IF own_pc = "wait" THEN waited + 1 ELSE waited
    /\ UNCHANGED <<fieldVars, winsockVars, own_pc, recv_pc, from, count,
                   send_pc, historyVars>>

Install == \/ InstallDisabled \/ StartWinsock \/ OpenSocket \/ Bind
           \/ StartThread \/ InstallAgain

Shutdown == ShutdownNothing \/ ShutdownBegin \/ CloseSocket \/ ShutdownEnd

Recv == \/ LoopTest \/ (\E a \in Senders : Arrives(a)) \/ EmptyArrives
        \/ RecvTimesOut \/ RecvFails \/ SleepOver \/ HandleDatagram
        \/ LearnPeer \/ Callback

Next == Install \/ Shutdown \/ Recv \/ SendBegin \/ SendTo \/ Tick

Spec == Init /\ [][Next]_vars

\* shutdown runs to its end, a thread that can run does, and time passes.
\* No fairness for what comes out of recvfrom: recvfrom may never return by itself.
LiveSpec ==
    /\ Spec
    /\ WF_vars(CloseSocket) /\ WF_vars(ShutdownEnd) /\ WF_vars(Tick)
    /\ WF_vars(LoopTest \/ RecvTimesOut \/ SleepOver \/ HandleDatagram
               \/ LearnPeer \/ Callback)

-----------------------------------------------------------------------------
\* The type invariant.
TypeOK ==
    /\ cfg_mode \in {"Disabled", "Host", "Client"}
    /\ timeout_works \in BOOLEAN /\ install_twice \in BOOLEAN
    /\ mode \in {"Disabled", cfg_mode} /\ sock \in BOOLEAN
    /\ peer_addr \in Senders \cup {NULL} /\ peer_known \in BOOLEAN
    /\ stopping \in BOOLEAN /\ thread \in BOOLEAN
    /\ open \in 0 .. 1 /\ wsa \in 0 .. 1
    /\ own_pc \in {"start", "socket", "bind", "thread", "failed", "up",
                   "close", "wait", "down"}
    /\ waited \in 0 .. WaitMax
    /\ recv_pc \in {"none", "loop", "recvfrom", "datagram", "copy", "publish",
                    "callback", "sleep", "exited"}
    /\ from \in Senders \cup {NULL} /\ busy \in Nat
    /\ count \in 0 .. MaxDatagrams
    /\ send_pc \in {"idle", "sendto"}
    /\ first \in Senders \cup {NULL}
    /\ sent_to \subseteq Senders \cup {NULL}

\* A host sends only to the address of the first datagram that had content,
\* whole: not to the sender of an empty one before it, nor to an address the
\* recv thread has not finished copying, nor, later, to anybody else who talks
\* to the port.  A client sends only to its peer.
SendsToFirstSender ==
    sent_to \subseteq {IF cfg_mode = "Client" THEN Peer ELSE first} \ {NULL}

\* When shutdown has returned the recv thread is gone: nothing calls back into
\* a manager or a NetSession that is being destroyed.  Needs SO_RCVTIMEO,
\* because closesocket alone may not wake recvfrom.
RecvThreadStopped ==
    timeout_works /\ own_pc = "down" => recv_pc \in {"none", "exited"}

\* Whichever step of install fails, and after every shutdown, no socket and
\* no WSAStartup reference is left behind, if install is called once.
NoWinsockLeak ==
    ~install_twice /\ own_pc \in {"failed", "down"} => open = 0 /\ wsa = 0

\* shutdown returns although nothing may ever wake the recv thread.
ShutdownReturns == stopping ~> own_pc = "down"
=============================================================================
