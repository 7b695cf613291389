---------------------------- MODULE FtpFrontend ----------------------------
(* The programs around the server, src/src/platform/.../main.c. On the       *)
(* Switch ("nx"), the 3DS and the Wii a thread runs the server and hands     *)
(* what it has to say to the main thread, over a queue under a mutex; the    *)
(* main thread shows it, writes the log file and waits for the button that   *)
(* ends the program. On Linux and as a Switch system module ("service") the  *)
(* server is all there is. On the DS ("nds") one thread does both. Of the    *)
(* server, ftpsrv.c, there is its life - init, loop, exit - and one control  *)
(* connection.                                                               *)
EXTENDS FtpControl

CONSTANTS
    Ports,       \* the programs
    LogBuf       \* messages that the buffer of the Switch's log file takes

Threaded == {"nx", "3ds", "wii"}

ASSUME FrontendAssumption ==
    /\ Ports \subseteq Threaded \cup {"service", "nds"}
    /\ LogBuf \in Nat \ {0}

VARIABLES
    port,      \* which program it is
    net,       \* the network is there, and the port is free
    server,    \* g_ftp.initialised and server_sock: "off", "listening", or
               \* initialised with a socket that poll() reports as broken,
               \* "unbound", or with none it reports anything of, "deaf"
    inited,    \* g_ftp_init of the DS
    hasNet,    \* has_net of the DS
    thread,    \* where the thread of the server is
    say,       \* messages that the line being executed has yet to give
    main,      \* where the main thread is
    index,     \* the i of processEvents
    exiting,   \* g_should_exit
    mutex,     \* who holds g_mutex
    events,    \* g_num_events
    data,      \* g_callback_data, <<>> if it is NULL; 0 is a cell not yet set
    shown,     \* what processEvents has shown
    said,      \* how many messages the callback was given; they are numbered
    written,   \* how many of those shown are in the log file
    kept       \* and in the buffer of its handle

life == <<server, inited, hasNet>>
queue == <<mutex, events, data>>
log == <<shown, written, kept>>
vars == <<port, net, life, thread, say, main, index, exiting, queue, said, log, control>>

MaxSaid == 2 * Lines

TypeOK ==
    /\ ControlTypeOK
    /\ port \in Ports /\ net \in BOOLEAN
    /\ server \in {"off", "listening", "unbound", "deaf"}
    /\ inited \in BOOLEAN /\ hasNet \in BOOLEAN
    /\ thread \in {"turn", "keys", "poll",
                   "top", "init", "check", "loop", "lines", "exit", "done",
                   "grow", "realloc", "store", "reply", "data"}
    /\ say \in 0..2
    /\ main \in {"none", "turn", "events", "show", "free", "join", "gone"}
    /\ index \in 0..MaxSaid
    /\ exiting \in BOOLEAN
    /\ mutex \in {"free", "server", "main"}
    /\ events \in 0..MaxSaid /\ data \in Seq(0..MaxSaid)
    /\ shown \in Seq(0..MaxSaid) /\ said \in 0..MaxSaid
    /\ written \in 0..MaxSaid /\ kept \in 0..LogBuf

Init ==
    /\ ControlInit
    /\ port \in Ports /\ net \in BOOLEAN
    /\ server = "off" /\ inited = FALSE /\ hasNet = FALSE
    /\ thread = IF port = "nds" THEN "turn" ELSE "top"
    /\ say = 0
    /\ main = IF port \in Threaded THEN "turn" ELSE "none"
    /\ index = 0 /\ exiting = FALSE
    /\ mutex = "free" /\ events = 0 /\ data = <<>>
    /\ shown = <<>> /\ said = 0 /\ written = 0 /\ kept = 0

-----------------------------------------------------------------------------
(* ftpsrv_init, when the server is not initialised: socket() fails, or       *)
(* bind() or listen() does, or nothing. It is initialised all the same. Some *)
(* systems' poll() reports a socket that was not bound, some do not.         *)
FtpsrvInit ==
    /\ IF server = "off" THEN server' \in {"deaf", "unbound", "listening"} ELSE UNCHANGED server
    /\ net => server' # "unbound" \/ server = "unbound"

(* Mistake: ftpsrv_exit leaves the server initialised.                       *)
FtpsrvExitHalf ==
    /\ server' = IF server = "off" THEN "off" ELSE "unbound"
    /\ Disconnect

FtpsrvExit ==
    /\ server' = "off"
    /\ Disconnect

(* Mistake: the inner loop does not ask whether to exit.                     *)
GoesOnForever == TRUE

GoesOn == ~exiting

(* ftp_thread, and the end of main() where there is no other thread.         *)
ThreadTop ==
    /\ thread = "top"
    /\ port = "wii" /\ ~exiting => net          \* it sleeps and looks again
    /\ thread' = IF exiting THEN "done" ELSE "init"
    /\ UNCHANGED <<port, net, life, say, main, index, exiting, queue, said, log, control>>

ThreadInit ==
    /\ thread = "init"
    /\ FtpsrvInit
    /\ thread' = "check"
    /\ UNCHANGED <<port, net, inited, hasNet, say, main, index, exiting, queue, said, log, control>>

ThreadCheck ==
    /\ thread = "check"
    /\ thread' = IF GoesOn THEN "loop" ELSE "exit"
    /\ UNCHANGED <<port, net, life, say, main, index, exiting, queue, said, log, control>>

ThreadExit ==
    /\ thread = "exit"
    /\ FtpsrvExit
    /\ inited' = FALSE
    /\ thread' = IF port = "nds" THEN "turn" ELSE "top"
    /\ UNCHANGED <<port, net, hasNet, say, main, index, exiting, queue, said, log>>

-----------------------------------------------------------------------------
(* ftpsrv_loop. Sessions are there only if the server listens.               *)
AfterLoop == IF port = "nds" THEN "turn" ELSE "check"

LoopFails ==
    /\ thread = "loop"
    /\ server \in {"off", "unbound", "listening"}
    /\ thread' = "exit"
    /\ UNCHANGED <<port, net, life, say, main, index, exiting, queue, said, log, control>>

(* poll() ignores a descriptor of -1. A service sets no timeout.             *)
LoopTimesOut ==
    /\ thread = "loop" /\ port # "service"
    /\ server \in {"listening", "deaf"}
    /\ thread' = AfterLoop
    /\ UNCHANGED <<port, net, life, say, main, index, exiting, queue, said, log, control>>

LoopReads ==
    /\ thread = "loop" /\ server = "listening"
    /\ Recv
    /\ thread' = "lines"
    /\ UNCHANGED <<port, net, life, say, main, index, exiting, queue, said, log>>

(* A command is logged, and its reply is; a line that is none has a reply.   *)
LoopLine ==
    /\ thread = "lines" /\ say = 0
    /\ ProgressLine
    /\ say' = IF LineText = {} THEN 1 ELSE 2
    /\ UNCHANGED <<port, net, life, thread, main, index, exiting, queue, said, log>>

(* What was sent is taken, and what a transfer command waits for in connect()*)
(* or accept() comes or fails. Nothing bounds how long this takes.           *)
ReplyTaken ==
    /\ thread = "reply"
    /\ thread' = "lines"
    /\ UNCHANGED <<port, net, life, say, main, index, exiting, queue, said, log, control>>

(* The control connection is done with; a session may have a transfer on.    *)
LoopReturns ==
    /\ thread = "lines" /\ say = 0
    /\ NoMoreLines
    /\ thread' \in {AfterLoop, "data"}
    /\ UNCHANGED <<port, net, life, say, main, index, exiting, queue, said, log>>

LoopTransfers ==
    /\ thread = "loop" /\ server = "listening"
    /\ thread' = "data"
    /\ UNCHANGED <<port, net, life, say, main, index, exiting, queue, said, log, control>>

(* A step of a transfer, in send() or recv(): of a blocking socket its peer  *)
(* says when it is over.                                                     *)
DataMoves ==
    /\ thread = "data"
    /\ thread' = AfterLoop
    /\ UNCHANGED <<port, net, life, say, main, index, exiting, queue, said, log, control>>

-----------------------------------------------------------------------------
(* ftp_log_callback. The reply is sent once it is logged.                    *)
AfterSaying == IF say = 1 THEN "reply" ELSE "lines"

(* Mistake: the mutex is not waited for.                                     *)
SayNow == /\ thread = "lines" /\ say > 0 /\ port \in Threaded
          /\ UNCHANGED mutex

SayLocked ==
    /\ thread = "lines" /\ say > 0 /\ port \in Threaded
    /\ mutex = "free"
    /\ mutex' = "server"

SayLock ==
    /\ SayLocked
    /\ thread' = "grow"
    /\ UNCHANGED <<port, net, life, say, main, index, exiting, events, data, said, log, control>>

SayCount ==
    /\ thread = "grow"
    /\ events' = events + 1
    /\ thread' = "realloc"
    /\ UNCHANGED <<port, net, life, say, main, index, exiting, mutex, data, said, log, control>>

SayRealloc ==
    /\ thread = "realloc"
    /\ data' = [i \in 1..events |-> IF i \in DOMAIN data THEN data[i] ELSE 0]
    /\ thread' = "store"
    /\ UNCHANGED <<port, net, life, say, main, index, exiting, mutex, events, said, log, control>>

SayStore ==
    /\ thread = "store"
    /\ said' = said + 1
    /\ data' = IF events \in DOMAIN data THEN [data EXCEPT ![events] = said'] ELSE data
    /\ mutex' = "free"
    /\ say' = say - 1
    /\ thread' = AfterSaying
    /\ UNCHANGED <<port, net, life, main, index, exiting, events, log, control>>

(* The others print, or flash a led.                                         *)
SayAtOnce ==
    /\ thread = "lines" /\ say > 0 /\ port \notin Threaded
    /\ say' = say - 1
    /\ thread' = AfterSaying
    /\ UNCHANGED <<port, net, life, main, index, exiting, queue, said, log, control>>

-----------------------------------------------------------------------------
(* The main thread of a program with two.                                    *)
MainTurn ==
    /\ main = "turn"
    /\ \/ main' = "events" /\ UNCHANGED exiting
       \/ main' = "join" /\ exiting' = TRUE
    /\ UNCHANGED <<port, net, life, thread, say, index, queue, said, log, control>>

ProcessLock ==
    /\ main = "events"
    /\ mutex = "free"
    /\ index' = 0
    /\ IF events = 0
       THEN main' = "turn" /\ UNCHANGED mutex
       ELSE main' = "show" /\ mutex' = "main"
    /\ UNCHANGED <<port, net, life, thread, say, exiting, events, data, said, log, control>>

(* log_file_write: the Switch's handle collects what is written.             *)
LogFileWrite ==
    IF port = "nx"
    THEN /\ written' = IF kept = LogBuf THEN written + kept ELSE written
         /\ kept' = IF kept = LogBuf THEN 1 ELSE kept + 1
    ELSE written' = written + 1 /\ UNCHANGED kept

ProcessEvent ==
    /\ main = "show" /\ index < events
    /\ shown' = Append(shown, IF index + 1 \in DOMAIN data THEN data[index + 1] ELSE 0)
    /\ LogFileWrite
    /\ index' = index + 1
    /\ UNCHANGED <<port, net, life, thread, say, main, exiting, queue, said, control>>

ProcessReset ==
    /\ main = "show" /\ index >= events
    /\ events' = 0
    /\ main' = "free"
    /\ UNCHANGED <<port, net, life, thread, say, index, exiting, mutex, data, said, log, control>>

ProcessFree ==
    /\ main = "free"
    /\ data' = <<>>
    /\ mutex' = "free"
    /\ main' = "turn"
    /\ UNCHANGED <<port, net, life, thread, say, index, exiting, events, said, log, control>>

(* Mistake: the thread is not waited for.                                    *)
NotJoined == TRUE

Joined == thread = "done"

(* log_file_exit closes the log file; the Switch's program does not call it. *)
MainLeaves ==
    /\ main = "join"
    /\ Joined
    /\ main' = "gone"
    /\ data' = <<>>
    /\ UNCHANGED <<port, net, life, thread, say, index, exiting, mutex, events, said, log, control>>

-----------------------------------------------------------------------------
(* The turns of the DS.                                                      *)
NdsStatus ==
    /\ thread = "turn"
    /\ hasNet' = net
    /\ IF hasNet /\ ~net THEN FtpsrvExit ELSE UNCHANGED <<server, control>>
    /\ thread' = "keys"
    /\ UNCHANGED <<port, net, inited, say, main, index, exiting, queue, said, log>>

NdsKeys ==
    /\ thread = "keys"
    /\ \/ /\ thread' = IF hasNet THEN "poll" ELSE "turn"
          /\ UNCHANGED <<server, exiting, control>>
       \/ /\ FtpsrvExit
          /\ thread' = "done"
          /\ exiting' = TRUE
    /\ UNCHANGED <<port, net, inited, hasNet, say, main, index, queue, said, log>>

(* ftpsrv_init has done what it should if it succeeds.                       *)
NdsInit ==
    /\ thread = "poll"
    /\ IF inited
       THEN UNCHANGED <<server, inited>>
       ELSE FtpsrvInit /\ inited' = (server = "off" /\ server' = "listening")
    /\ thread' = IF inited' THEN "loop" ELSE "turn"
    /\ UNCHANGED <<port, net, hasNet, say, main, index, exiting, queue, said, log, control>>

-----------------------------------------------------------------------------
(* The network, and the client.                                              *)
NetChanges ==
    /\ net' = ~net
    /\ UNCHANGED <<port, life, thread, say, main, index, exiting, queue, said, log, control>>

ClientTalks ==
    /\ server = "listening"
    /\ ClientSends
    /\ UNCHANGED <<port, net, life, thread, say, main, index, exiting, queue, said, log>>

(* The steps of the thread that end when a client lets them.                 *)
ClientStep == ReplyTaken \/ DataMoves

ThreadStep ==
    \/ ThreadTop \/ ThreadInit \/ ThreadCheck \/ ThreadExit
    \/ LoopFails \/ LoopTimesOut \/ LoopReads \/ LoopLine \/ LoopReturns
    \/ LoopTransfers
    \/ SayLock \/ SayCount \/ SayRealloc \/ SayStore \/ SayAtOnce
    \/ NdsStatus \/ NdsKeys \/ NdsInit

MainStep ==
    \/ MainTurn \/ ProcessLock \/ ProcessEvent \/ ProcessReset \/ ProcessFree
    \/ MainLeaves

Over == thread = "done" /\ main \in {"none", "gone"} /\ UNCHANGED vars

Next == ThreadStep \/ ClientStep \/ MainStep \/ NetChanges \/ ClientTalks \/ Over

Spec == Init /\ [][Next]_vars

(* Both threads run, and each gets the mutex if it is free again and again.  *)
(* Nothing is assumed of clients.                                            *)
FairSpec ==
    /\ Spec
    /\ WF_vars(ThreadStep) /\ WF_vars(MainStep)
    /\ SF_vars(SayLock) /\ SF_vars(ProcessLock)

-----------------------------------------------------------------------------
(* What is shown is what was said, in its order, once; whenever the mutex is *)
(* free the queue holds the rest, and no cell that is not set                *)
(* (ftp_log_callback, processEvents).                                        *)
MessagesKept ==
    /\ shown = [i \in 1..Len(shown) |-> i]
    /\ mutex = "free" /\ main # "gone" =>
        Len(data) = events /\ shown \o data = [i \in 1..said |-> i]

(* When main() frees the queue and returns, the server's thread is over: it  *)
(* has no session, no listener, and is not in the callback.                  *)
LeavesAlone ==
    main = "gone" => /\ thread = "done" /\ server = "off" /\ mutex = "free"
                     /\ offset = received + 1

(* Who asks to exit gets to, from wherever the thread is, unless a client    *)
(* holds it for ever, in a call that has no timeout: send() of a reply,      *)
(* connect() or accept(), or send() or recv() of a transfer.                 *)
Leaves ==
    \/ exiting ~> (thread = "done" /\ main \in {"none", "gone"})
    \/ <>[](thread \in {"reply", "data"})

(* What the server does not come out of: an ftpsrv_init that failed where    *)
(* poll() does not tell, or, on the DS, that failed.                         *)
Stuck ==
    \/ server = "deaf"
    \/ port = "nds" /\ ~inited /\ server # "off"

(* However init, poll and the network have failed before: once the network   *)
(* stays, the server listens again and again, until it is stuck or over.     *)
Recovers == <>[]net => []<>(server = "listening" \/ exiting \/ Stuck)

-----------------------------------------------------------------------------
(* What the documents say of the programs, and they do not do.               *)

(* "enables log output to /config/ftpsrv/log.txt"                            *)
(* (assets/config.ini.template:23): what was shown is in the file.           *)
LogOutput == main = "gone" => written = Len(shown)
=============================================================================
