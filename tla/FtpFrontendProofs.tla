-------------------------- MODULE FtpFrontendProofs --------------------------
(* The queue between the two threads of FtpFrontend, for any number of       *)
(* messages and every program: nothing is lost, shown twice or out of order, *)
(* and the program leaves after its server. The lines of FtpControl, of any  *)
(* length and however recv() cuts them: what came whole is executed, once.   *)
EXTENDS FtpFrontend, TLAPS

(* Where the server's thread is inside the callback, and among the lines.    *)
SayPlaces == {"grow", "realloc", "store"}
LinePlaces == {"lines", "reply"}

Types ==
    /\ events \in Nat /\ index \in Nat /\ said \in Nat
    /\ data \in Seq(Nat) /\ shown \in Seq(Nat)
    /\ mutex \in {"free", "server", "main"}

(* Who holds the mutex is between its lock and its unlock.                   *)
Exclusion ==
    /\ thread \in SayPlaces <=> mutex = "server"
    /\ main \in {"show", "free"} <=> mutex = "main"

ShownInOrder == \A i \in 1..Len(shown) : shown[i] = i

(* The first n cells hold what was said after the first k messages.          *)
Filled(k, n) == k + n = said /\ \A i \in 1..n : data[i] = k + i

(* What the queue holds, wherever its two users are.                         *)
Queue ==
    /\ mutex = "free" /\ main # "gone" => Len(data) = events /\ Filled(Len(shown), events)
    /\ thread = "grow" => Len(data) = events /\ Filled(Len(shown), events)
    /\ thread = "realloc" => /\ events > 0 /\ Len(data) = events - 1
                             /\ Filled(Len(shown), events - 1)
    /\ thread = "store" => /\ events > 0 /\ Len(data) = events
                           /\ Filled(Len(shown), events - 1)
    /\ main = "show" => /\ index <= events /\ index <= Len(shown) /\ Len(data) = events
                        /\ Filled(Len(shown) - index, events)
    /\ main = "free" => events = 0 /\ Len(shown) = said

(* Outside of the callback and of a buffer's lines and replies, the buffer   *)
(* is done; at the top of its loop, and at its end, the thread has no server.*)
Rests ==
    /\ thread \notin SayPlaces \cup LinePlaces => offset = received + 1
    /\ thread \in {"top", "done"} => server = "off"
    /\ main = "gone" => thread = "done"

IInv == Types /\ Exclusion /\ ShownInOrder /\ Queue /\ Rests

-----------------------------------------------------------------------------
(* A sequence is its elements.                                               *)
LEMMA ElementsOfSequence ==
    \A s \in Seq(Nat) : s = [i \in 1..Len(s) |-> s[i]]
OBVIOUS

(* At first nothing is said, nothing shown, and nobody holds the mutex.      *)
LEMMA InitHolds == Init => IInv
<1> SUFFICES ASSUME Init PROVE IInv
    OBVIOUS
<1>1. thread \in {"turn", "top"} /\ main \in {"turn", "none"} /\ server = "off"
    BY DEF Init
<1>2. Types /\ mutex = "free" /\ events = 0 /\ data = <<>> /\ shown = <<>> /\ said = 0
    BY DEF Init, Types
<1>3. offset = received + 1
    BY DEF Init, ControlInit
<1> QED
    BY <1>1, <1>2, <1>3 DEF IInv, Exclusion, ShownInOrder, Queue, Filled, Rests, SayPlaces,
                            LinePlaces

(* A step outside of the callback that leaves the queue alone.               *)
LEMMA QueueAlone ==
    ASSUME IInv, UNCHANGED <<main, index, queue, said, log>>,
           thread \notin SayPlaces, thread' \notin SayPlaces
    PROVE  Types' /\ Exclusion' /\ ShownInOrder' /\ Queue'
<1>1. UNCHANGED <<main, index, mutex, events, data, said, shown>>
    BY DEF queue, log
<1>2. Types' /\ ShownInOrder'
    BY <1>1 DEF IInv, Types, ShownInOrder
<1>3. Exclusion'
    BY <1>1 DEF IInv, Exclusion
<1>4. Queue'
    BY <1>1 DEF IInv, Queue, Filled, SayPlaces
<1> QED
    BY <1>2, <1>3, <1>4

(* What NoMoreLines and Disconnect leave of the buffer.                      *)
LEMMA BufferDone ==
    /\ NoMoreLines => offset' = received' + 1
    /\ Disconnect => offset' = received' + 1
    /\ UNCHANGED control => UNCHANGED <<offset, received>>
BY DEF NoMoreLines, Disconnect, control

-----------------------------------------------------------------------------
(* The thread outside of the callback: it is not where main() has waited for *)
(* it, and what it does to the server and the buffer is in Rests.            *)
LEMMA LoopKeeps ==
    ASSUME IInv,
           ThreadTop \/ ThreadInit \/ ThreadCheck \/ ThreadExit \/ LoopFails
           \/ LoopTimesOut \/ LoopReads \/ LoopLine \/ LoopReturns \/ SayAtOnce
           \/ LoopTransfers \/ ClientStep
    PROVE  IInv'
<1>1. UNCHANGED <<main, index, queue, said, log>>
    BY DEF ThreadTop, ThreadInit, ThreadCheck, ThreadExit, LoopFails, LoopTimesOut,
           LoopReads, LoopLine, LoopReturns, SayAtOnce, LoopTransfers, ClientStep,
           ReplyTaken, DataMoves
<1>2. /\ thread \in {"top", "init", "check", "exit", "loop", "lines", "reply", "data"}
      /\ thread' \in {"top", "init", "check", "exit", "loop", "lines", "reply", "data",
                     "done", "turn"}
    BY DEF ThreadTop, ThreadInit, ThreadCheck, ThreadExit, LoopFails, LoopTimesOut,
           LoopReads, LoopLine, LoopReturns, SayAtOnce, LoopTransfers, ClientStep,
           ReplyTaken, DataMoves, AfterLoop, AfterSaying
<1>3. Types' /\ Exclusion' /\ ShownInOrder' /\ Queue'
    BY <1>1, <1>2, QueueAlone DEF SayPlaces
<1>4. main # "gone" /\ main' = main
    BY <1>1, <1>2 DEF IInv, Rests
<1>5. thread' \notin LinePlaces => offset' = received' + 1
    <2>1. CASE ThreadTop \/ ThreadInit \/ ThreadCheck \/ LoopFails \/ LoopTimesOut
               \/ LoopTransfers \/ DataMoves
        BY <2>1, BufferDone
           DEF IInv, Rests, SayPlaces, LinePlaces, ThreadTop, ThreadInit, ThreadCheck,
               LoopFails, LoopTimesOut, LoopTransfers, DataMoves
    <2>2. CASE ThreadExit \/ LoopReturns
        BY <2>2, BufferDone DEF ThreadExit, FtpsrvExit, LoopReturns
    <2>3. CASE LoopReads \/ LoopLine \/ SayAtOnce \/ ReplyTaken
        BY <2>3 DEF LoopReads, LoopLine, SayAtOnce, AfterSaying, ReplyTaken, LinePlaces
    <2> QED
        BY <2>1, <2>2, <2>3 DEF ClientStep
<1>6. thread' \in {"top", "done"} => server' = "off"
    BY DEF IInv, Rests, life, ThreadTop, ThreadInit, ThreadCheck, ThreadExit, FtpsrvExit,
           LoopFails, LoopTimesOut, LoopReads, LoopLine, LoopReturns, SayAtOnce,
           LoopTransfers, ClientStep, ReplyTaken, DataMoves, AfterLoop, AfterSaying
<1>7. Rests'
    BY <1>4, <1>5, <1>6 DEF Rests
<1> QED
    BY <1>3, <1>7 DEF IInv

(* The turns of the DS.                                                      *)
LEMMA NdsKeeps ==
    ASSUME IInv, NdsStatus \/ NdsKeys \/ NdsInit
    PROVE  IInv'
<1>1. UNCHANGED <<main, index, queue, said, log>>
    BY DEF NdsStatus, NdsKeys, NdsInit
<1>2. /\ thread \in {"turn", "keys", "poll"}
      /\ thread' \in {"turn", "keys", "poll", "loop", "done"}
    BY DEF NdsStatus, NdsKeys, NdsInit
<1>3. Types' /\ Exclusion' /\ ShownInOrder' /\ Queue'
    BY <1>1, <1>2, QueueAlone DEF SayPlaces
<1>4. main # "gone" /\ main' = main
    BY <1>1, <1>2 DEF IInv, Rests
<1>5. offset' = received' + 1
    BY <1>2, BufferDone
       DEF IInv, Rests, SayPlaces, LinePlaces, NdsStatus, NdsKeys, NdsInit, FtpsrvExit
<1>6. thread' = "done" => server' = "off"
    BY DEF NdsStatus, NdsKeys, NdsInit, FtpsrvExit
<1>7. Rests'
    BY <1>2, <1>4, <1>5, <1>6 DEF Rests
<1> QED
    BY <1>3, <1>7 DEF IInv

(* The callback: lock, count, realloc, store and unlock.                     *)
LEMMA SayKeeps ==
    ASSUME IInv, SayLock \/ SayCount \/ SayRealloc \/ SayStore
    PROVE  IInv'
<1>1. UNCHANGED <<main, index, log, control, life>>
    BY DEF SayLock, SayCount, SayRealloc, SayStore
<1>2. thread \in SayPlaces \cup LinePlaces /\ thread' \in SayPlaces \cup LinePlaces
    BY DEF SayLock, SayCount, SayRealloc, SayStore, SayLocked, AfterSaying, SayPlaces,
           LinePlaces
<1>3. main # "gone" /\ main' = main /\ index' = index /\ shown' = shown
    BY <1>1, <1>2 DEF IInv, Rests, SayPlaces, LinePlaces, log
<1>4. Rests' /\ ShownInOrder'
    BY <1>2, <1>3 DEF IInv, Rests, ShownInOrder, SayPlaces, LinePlaces
<1>5. CASE SayLock
    <2>1. /\ thread = "lines" /\ thread' = "grow" /\ mutex = "free" /\ mutex' = "server"
          /\ UNCHANGED <<events, data, said>>
        BY <1>5 DEF SayLock, SayLocked
    <2>2. main \notin {"show", "free"}
        BY <2>1 DEF IInv, Exclusion
    <2>3. Types' /\ Exclusion' /\ Queue'
        BY <1>3, <2>1, <2>2 DEF IInv, Types, Exclusion, Queue, Filled, SayPlaces
    <2> QED
        BY <1>4, <2>3 DEF IInv
<1>6. CASE SayCount
    <2>1. /\ thread = "grow" /\ thread' = "realloc" /\ events' = events + 1
          /\ UNCHANGED <<mutex, data, said>>
        BY <1>6 DEF SayCount
    <2>2. mutex = "server" /\ main \notin {"show", "free"}
        BY <2>1 DEF IInv, Exclusion, SayPlaces
    <2>3. Types' /\ Exclusion'
        BY <1>3, <2>1, <2>2 DEF IInv, Types, Exclusion, SayPlaces
    <2>4. Queue'
        BY <1>3, <2>1, <2>2 DEF IInv, Types, Queue, Filled
    <2> QED
        BY <1>4, <2>3, <2>4 DEF IInv
<1>7. CASE SayRealloc
    <2>1. /\ thread = "realloc" /\ thread' = "store"
          /\ data' = [i \in 1..events |-> IF i \in DOMAIN data THEN data[i] ELSE 0]
          /\ UNCHANGED <<mutex, events, said>>
        BY <1>7 DEF SayRealloc
    <2>2. mutex = "server" /\ main \notin {"show", "free"}
        BY <2>1 DEF IInv, Exclusion, SayPlaces
    <2>3. events \in Nat /\ events > 0 /\ Len(data) = events - 1 /\ data \in Seq(Nat)
        BY <2>1 DEF IInv, Types, Queue
    <2>4. data' \in [1..events -> Nat] /\ \A i \in 1..(events - 1) : data'[i] = data[i]
        BY <2>1, <2>3
    <2>5. data' \in Seq(Nat) /\ Len(data') = events
        BY <2>3, <2>4
    <2>6. Types' /\ Exclusion'
        BY <1>3, <2>1, <2>2, <2>5 DEF IInv, Types, Exclusion, SayPlaces
    <2>7. Queue'
        BY <1>3, <2>1, <2>2, <2>3, <2>4, <2>5 DEF IInv, Queue, Filled
    <2> QED
        BY <1>4, <2>6, <2>7 DEF IInv
<1>8. CASE SayStore
    <2>1. /\ thread = "store" /\ thread' \in LinePlaces /\ mutex' = "free" /\ said' = said + 1
          /\ data' = IF events \in DOMAIN data THEN [data EXCEPT ![events] = said'] ELSE data
          /\ UNCHANGED events
        BY <1>8 DEF SayStore, AfterSaying, LinePlaces
    <2>2. mutex = "server" /\ main \notin {"show", "free"}
        BY <2>1 DEF IInv, Exclusion, SayPlaces
    <2>3. /\ events \in Nat /\ events > 0 /\ Len(data) = events /\ data \in Seq(Nat)
          /\ said \in Nat /\ Filled(Len(shown), events - 1)
        BY <2>1 DEF IInv, Types, Queue
    <2>4. data' = [data EXCEPT ![events] = said + 1]
        BY <2>1, <2>3
    <2>5. data' \in Seq(Nat) /\ Len(data') = events
        BY <2>3, <2>4
    <2>6. Types' /\ Exclusion'
        BY <1>3, <2>1, <2>2, <2>3, <2>5 DEF IInv, Types, Exclusion, SayPlaces, LinePlaces
    <2>7. Len(shown) \in Nat /\ Len(shown) + events = said + 1
        BY <2>3 DEF IInv, Types, Filled
    <2>8. \A i \in 1..events : data'[i] = Len(shown) + i
        <3>1. SUFFICES ASSUME NEW i \in 1..events PROVE data'[i] = Len(shown) + i
            OBVIOUS
        <3>2. CASE i = events
            BY <2>3, <2>4, <2>7, <3>2
        <3>3. CASE i # events
            BY <2>3, <2>4, <3>3 DEF Filled
        <3> QED
            BY <3>2, <3>3
    <2>9. Queue'
        BY <1>3, <2>1, <2>2, <2>5, <2>7, <2>8 DEF IInv, Queue, Filled, LinePlaces
    <2> QED
        BY <1>4, <2>6, <2>9 DEF IInv
<1> QED
    BY <1>5, <1>6, <1>7, <1>8

-----------------------------------------------------------------------------
(* The main thread: showing what is in the queue, and leaving.               *)
LEMMA MainKeeps ==
    ASSUME IInv, MainStep
    PROVE  IInv'
<1>1. UNCHANGED <<thread, server, offset, received, said>>
    BY DEF MainStep, MainTurn, ProcessLock, ProcessEvent, ProcessReset, ProcessFree,
           MainLeaves, life, control
<1>2. main' = "gone" => thread = "done"
    BY DEF MainStep, MainTurn, ProcessLock, ProcessEvent, ProcessReset, ProcessFree,
           MainLeaves, Joined
<1>3. Rests'
    BY <1>1, <1>2 DEF IInv, Rests
<1>4. CASE MainTurn
    <2>1. main = "turn" /\ main' \in {"events", "join"}
          /\ UNCHANGED <<index, mutex, events, data, shown>>
        BY <1>4 DEF MainTurn, queue, log
    <2>2. Types' /\ Exclusion' /\ ShownInOrder' /\ Queue'
        BY <1>1, <2>1 DEF IInv, Types, Exclusion, ShownInOrder, Queue, Filled
    <2> QED
        BY <1>3, <2>2 DEF IInv
<1>5. CASE ProcessLock
    <2>1. /\ main = "events" /\ mutex = "free" /\ index' = 0
          /\ \/ main' = "turn" /\ mutex' = "free"
             \/ main' = "show" /\ mutex' = "main"
          /\ UNCHANGED <<events, data, shown>>
        BY <1>5 DEF ProcessLock, log
    <2>2. thread \notin SayPlaces
        BY <2>1 DEF IInv, Exclusion
    <2>3. Len(data) = events /\ Filled(Len(shown), events) /\ events \in Nat
          /\ Len(shown) \in Nat
        BY <2>1 DEF IInv, Queue, Types
    <2>4. Types' /\ Exclusion' /\ ShownInOrder'
        BY <1>1, <2>1, <2>2 DEF IInv, Types, Exclusion, ShownInOrder
    <2>5. Queue'
        BY <1>1, <2>1, <2>2, <2>3 DEF Queue, Filled, SayPlaces
    <2> QED
        BY <1>3, <2>4, <2>5 DEF IInv
<1>6. CASE ProcessEvent
    <2>1. /\ main = "show" /\ main' = "show" /\ index < events /\ index' = index + 1
          /\ shown' = Append(shown, IF index + 1 \in DOMAIN data THEN data[index + 1] ELSE 0)
          /\ UNCHANGED <<mutex, events, data>>
        BY <1>6 DEF ProcessEvent, queue
    <2>2. /\ index \in Nat /\ events \in Nat /\ said \in Nat /\ Len(shown) \in Nat
          /\ data \in Seq(Nat) /\ shown \in Seq(Nat)
          /\ index <= Len(shown) /\ Len(data) = events
          /\ Filled(Len(shown) - index, events)
        BY <2>1 DEF IInv, Types, Queue
    <2>3. index + 1 \in DOMAIN data /\ data[index + 1] = Len(shown) + 1
        BY <2>1, <2>2 DEF Filled
    <2>4. shown' = Append(shown, Len(shown) + 1)
        BY <2>1, <2>3
    <2>5. shown' \in Seq(Nat) /\ Len(shown') = Len(shown) + 1
        BY <2>2, <2>4
    <2>6. ShownInOrder'
        BY <2>2, <2>4, <2>5 DEF IInv, ShownInOrder
    <2>7. mutex = "main" /\ thread \notin SayPlaces
        BY <2>1 DEF IInv, Exclusion
    <2>8. Types' /\ Exclusion'
        BY <1>1, <2>1, <2>2, <2>5 DEF IInv, Types, Exclusion
    <2>9. Len(shown') - index' = Len(shown) - index
        BY <2>1, <2>2, <2>5
    <2>10. Filled(Len(shown) - index, events)'
        BY <1>1, <2>1, <2>2, <2>9 DEF Filled
    <2>11. index' <= events' /\ index' <= Len(shown') /\ Len(data') = events'
        BY <2>1, <2>2, <2>5
    <2>12. Queue'
        BY <1>1, <2>1, <2>7, <2>10, <2>11 DEF Queue, SayPlaces
    <2> QED
        BY <1>3, <2>6, <2>8, <2>12 DEF IInv
<1>7. CASE ProcessReset
    <2>1. /\ main = "show" /\ main' = "free" /\ index >= events /\ events' = 0
          /\ UNCHANGED <<index, mutex, data, shown>>
        BY <1>7 DEF ProcessReset, log
    <2>2. mutex = "main" /\ thread \notin SayPlaces
        BY <2>1 DEF IInv, Exclusion
    <2>3. Types' /\ Exclusion' /\ ShownInOrder'
        BY <1>1, <2>1, <2>2 DEF IInv, Types, Exclusion, ShownInOrder
    <2>4. Len(shown) = said
        BY <2>1 DEF IInv, Types, Queue, Filled
    <2>5. Queue'
        BY <1>1, <2>1, <2>2, <2>4 DEF Queue, SayPlaces
    <2> QED
        BY <1>3, <2>3, <2>5 DEF IInv
<1>8. CASE ProcessFree
    <2>1. /\ main = "free" /\ main' = "turn" /\ data' = <<>> /\ mutex' = "free"
          /\ UNCHANGED <<index, events, shown>>
        BY <1>8 DEF ProcessFree, log
    <2>2. mutex = "main" /\ thread \notin SayPlaces
        BY <2>1 DEF IInv, Exclusion
    <2>3. Types' /\ Exclusion' /\ ShownInOrder'
        BY <1>1, <2>1, <2>2 DEF IInv, Types, Exclusion, ShownInOrder, SayPlaces
    <2>4. events = 0 /\ Len(shown) = said /\ said \in Nat
        BY <2>1 DEF IInv, Types, Queue
    <2>5. Queue'
        BY <1>1, <2>1, <2>2, <2>4 DEF Queue, Filled, SayPlaces
    <2> QED
        BY <1>3, <2>3, <2>5 DEF IInv
<1>9. CASE MainLeaves
    <2>1. /\ main = "join" /\ main' = "gone" /\ thread = "done" /\ data' = <<>>
          /\ UNCHANGED <<index, mutex, events, shown>>
        BY <1>9 DEF MainLeaves, Joined, log
    <2>2. Types' /\ Exclusion' /\ ShownInOrder'
        BY <1>1, <2>1 DEF IInv, Types, Exclusion, ShownInOrder
    <2>3. Queue'
        BY <1>1, <2>1 DEF Queue
    <2> QED
        BY <1>3, <2>2, <2>3 DEF IInv
<1> QED
    BY <1>4, <1>5, <1>6, <1>7, <1>8, <1>9 DEF MainStep

(* The network, the client, and the end.                                     *)
LEMMA WorldKeeps ==
    ASSUME IInv, NetChanges \/ ClientTalks \/ UNCHANGED vars
    PROVE  IInv'
<1>1. UNCHANGED <<main, index, mutex, events, data, said, shown, thread, server, offset, received>>
    BY DEF NetChanges, ClientTalks, ClientSends, vars, queue, log, life, control
<1> QED
    BY <1>1 DEF IInv, Types, Exclusion, ShownInOrder, Queue, Filled, Rests

(* The inductive invariant of the queue and of the thread's life.            *)
THEOREM QueueInvariance == Spec => []IInv
<1>1. IInv /\ [Next]_vars => IInv'
    BY LoopKeeps, NdsKeeps, SayKeeps, MainKeeps, WorldKeeps
       DEF Next, ThreadStep, Over
<1> QED
    BY <1>1, InitHolds, PTL DEF Spec

(* The queue that the callback fills and processEvents empties, under one    *)
(* mutex, loses no message, shows none twice and none that is not set.       *)
THEOREM MessagesAreKept == Spec => []MessagesKept
<1>1. IInv => MessagesKept
    <2> SUFFICES ASSUME IInv PROVE MessagesKept
        OBVIOUS
    <2>1. shown \in Seq(Nat) /\ data \in Seq(Nat) /\ said \in Nat /\ events \in Nat
        BY DEF IInv, Types
    <2>2. shown = [i \in 1..Len(shown) |-> i]
        <3>1. shown = [i \in 1..Len(shown) |-> shown[i]]
            BY <2>1
        <3> QED
            BY <3>1 DEF IInv, ShownInOrder
    <2>3. ASSUME mutex = "free", main # "gone"
          PROVE  Len(data) = events /\ shown \o data = [i \in 1..said |-> i]
        <3>1. Len(data) = events /\ Filled(Len(shown), events)
            BY <2>3 DEF IInv, Queue
        <3>2. Len(shown) + Len(data) = said
            BY <3>1 DEF Filled
        <3>3. shown \o data \in Seq(Nat) /\ Len(shown \o data) = said
            BY <2>1, <3>2
        <3>4. \A i \in 1..said : (shown \o data)[i] = i
            <4>1. SUFFICES ASSUME NEW i \in 1..said PROVE (shown \o data)[i] = i
                OBVIOUS
            <4>2. CASE i <= Len(shown)
                BY <2>1, <3>2, <4>2 DEF IInv, ShownInOrder
            <4>3. CASE i > Len(shown)
                <5>1. i - Len(shown) \in 1..events
                    BY <2>1, <3>1, <3>2, <4>3
                <5>2. (shown \o data)[i] = data[i - Len(shown)]
                    BY <2>1, <3>2, <4>3
                <5>3. data[i - Len(shown)] = Len(shown) + (i - Len(shown))
                    BY <3>1, <5>1 DEF Filled
                <5> QED
                    BY <2>1, <5>2, <5>3
            <4>4. i \in Nat /\ Len(shown) \in Nat
                BY <2>1
            <4>5. i <= Len(shown) \/ i > Len(shown)
                BY <4>4
            <4> QED
                BY <4>2, <4>3, <4>5
        <3>5. shown \o data = [i \in 1..said |-> (shown \o data)[i]]
            BY <3>3, ElementsOfSequence
        <3> QED
            BY <3>1, <3>4, <3>5
    <2> QED
        BY <2>2, <2>3 DEF MessagesKept
<1> QED
    BY <1>1, QueueInvariance, PTL

(* main() returns after the server's thread is over, in every program.       *)
THEOREM LeavingIsAlone == Spec => []LeavesAlone
<1>1. IInv => LeavesAlone
    BY DEF IInv, Types, Exclusion, Rests, LeavesAlone, SayPlaces, LinePlaces
<1> QED
    BY <1>1, QueueInvariance, PTL

-----------------------------------------------------------------------------
(* The control connection. A quotient and a remainder are natural numbers,   *)
(* and there are no others.                                                  *)
LEMMA QuotientOf ==
    ASSUME NEW n \in Nat, NEW d \in Nat, d > 0
    PROVE  \E q \in Nat, r \in 0..(d - 1) : n = d * q + r /\ n % d = r
<1> DEFINE q == n \div d
           r == n % d
<1>1. q \in Int /\ r \in 0..(d - 1) /\ n = d * q + r
  OBVIOUS
<1>2. n % d = r
  OBVIOUS
<1> HIDE DEF q, r
<1>3. q >= 0
  <2> SUFFICES ASSUME q < 0 PROVE FALSE
    BY <1>1
  <2>1. PICK c \in Nat : q = -1 - c
    <3>1. (-1 - q) \in Nat /\ q = -1 - (-1 - q)
      BY <1>1
    <3> QED
      BY <3>1
  <2>2. d * q = -d - d * c /\ d * c \in Nat
    BY <2>1
  <2> QED
    BY <1>1, <2>2
<1>4. q \in Nat
  BY <1>1, <1>3
<1> QED
  BY <1>1, <1>2, <1>4

LEMMA Multiples ==
    ASSUME NEW a \in Nat, NEW b \in Nat, NEW d \in Nat, a < b
    PROVE  d * a + d <= d * b
<1>1. PICK c \in Nat : b = a + 1 + c
  <2>1. b - a - 1 \in Nat /\ b = a + 1 + (b - a - 1)
    OBVIOUS
  <2> QED
    BY <2>1
<1>2. d * b = d * a + d + d * c
  BY <1>1
<1>3. d * c \in Nat /\ d * a \in Nat
  OBVIOUS
<1> QED
  BY <1>2, <1>3

LEMMA RemainderOf ==
    ASSUME NEW d \in Nat, d > 0, NEW q \in Nat, NEW r \in 0..(d - 1)
    PROVE  (d * q + r) % d = r
<1> DEFINE n == d * q + r
<1>1. d * q \in Nat /\ n \in Nat /\ n = d * q + r
  OBVIOUS
<1> HIDE DEF n
<1>2. PICK p \in Nat, s \in 0..(d - 1) : n = d * p + s /\ n % d = s
  BY <1>1, QuotientOf
<1>3. d * p \in Nat
  OBVIOUS
<1>4. ~(q < p)
  <2> SUFFICES ASSUME q < p PROVE FALSE
    OBVIOUS
  <2>1. d * q + d <= d * p
    BY Multiples
  <2> QED
    BY <1>1, <1>2, <1>3, <2>1
<1>5. ~(p < q)
  <2> SUFFICES ASSUME p < q PROVE FALSE
    OBVIOUS
  <2>1. d * p + d <= d * q
    BY Multiples
  <2> QED
    BY <1>1, <1>2, <1>3, <2>1
<1>6. d * p = d * q
  BY <1>4, <1>5
<1>7. s = r
  BY <1>1, <1>2, <1>3, <1>6
<1> QED
  BY <1>2, <1>7 DEF n

-----------------------------------------------------------------------------
(* The lines of the stream follow each other, and every byte is one's.       *)
LEMMA LineLength ==
    /\ LineLen \in Nat /\ TextLen \in Nat /\ TextLen > 0
    /\ LineLen = TextLen + 2
    /\ Lines \in Nat /\ Lines > 0
BY ControlAssumption DEF LineLen

LEMMA FirstOfLine ==
    ASSUME NEW k \in Nat \ {0}
    PROVE  /\ First(k) \in Nat /\ First(k) >= 1
           /\ First(k) = LineLen * (k - 1) + 1
           /\ First(k + 1) = First(k) + LineLen
<1>1. LineLen \in Nat
  BY LineLength
<1>2. k - 1 \in Nat /\ LineLen * (k - 1) \in Nat
  BY <1>1
<1> QED
  BY <1>1, <1>2 DEF First

LEMMA LinesApart ==
    ASSUME NEW k \in Nat \ {0}, NEW m \in Nat \ {0}, k < m
    PROVE  First(k) + LineLen <= First(m)
<1>1. LineLen \in Nat /\ k - 1 \in Nat /\ m - 1 \in Nat /\ k - 1 < m - 1
  BY LineLength
<1>2. LineLen * (k - 1) + LineLen <= LineLen * (m - 1)
  BY <1>1, Multiples
<1>3. LineLen * (k - 1) \in Nat /\ LineLen * (m - 1) \in Nat
  BY <1>1
<1>4. First(k) = LineLen * (k - 1) + 1 /\ First(m) = LineLen * (m - 1) + 1
  BY FirstOfLine
<1> QED
  BY <1>1, <1>2, <1>3, <1>4

LEMMA LineOfByte ==
    ASSUME NEW p \in Nat, p >= 1
    PROVE  \E k \in Nat \ {0}, j \in 0..(LineLen - 1) : p = First(k) + j
<1>1. LineLen \in Nat /\ LineLen > 0 /\ p - 1 \in Nat
  BY LineLength
<1>2. PICK q \in Nat, r \in 0..(LineLen - 1) : p - 1 = LineLen * q + r
  <2> DEFINE n == p - 1
             d == LineLen
  <2>1. n \in Nat /\ d \in Nat /\ d > 0
    BY <1>1
  <2> HIDE DEF n, d
  <2>2. \E q \in Nat, r \in 0..(d - 1) : n = d * q + r /\ n % d = r
    BY ONLY <2>1, QuotientOf
  <2>3. \E q \in Nat, r \in 0..(d - 1) : n = d * q + r
    BY ONLY <2>2
  <2> QED
    BY <2>3 DEF n, d
<1>3. q + 1 \in Nat \ {0} /\ (q + 1) - 1 = q
  OBVIOUS
<1>4. First(q + 1) = LineLen * q + 1
  BY <1>3, FirstOfLine
<1>5. LineLen * q \in Nat
  BY <1>1
<1>6. p = First(q + 1) + r
  BY <1>1, <1>2, <1>4, <1>5
<1> QED
  BY <1>3, <1>6

LEMMA KindOfByte ==
    ASSUME NEW k \in Nat \ {0}, NEW j \in 0..(LineLen - 1)
    PROVE  /\ IsText(First(k) + j) <=> j < TextLen
           /\ IsCR(First(k) + j) <=> j = TextLen
           /\ IsLF(First(k) + j) <=> j = TextLen + 1
<1>1. LineLen \in Nat /\ LineLen > 0 /\ k - 1 \in Nat
  BY LineLength
<1>2. (LineLen * (k - 1) + j) % LineLen = j
  BY <1>1, RemainderOf
<1>3. LineLen * (k - 1) \in Nat /\ j \in Nat
  BY <1>1
<1>4. (First(k) + j) - 1 = LineLen * (k - 1) + j
  BY <1>3, FirstOfLine
<1> QED
  BY <1>2, <1>4 DEF IsText, IsCR, IsLF

(* A line feed ends a line, and no line is that of another's bytes.          *)
LEMMA LineFeed ==
    ASSUME NEW p \in Nat, p >= 1
    PROVE  IsLF(p) => \E k \in Nat \ {0} : p = First(k) + LineLen - 1
<1> SUFFICES ASSUME IsLF(p) PROVE \E k \in Nat \ {0} : p = First(k) + LineLen - 1
  OBVIOUS
<1>1. PICK k \in Nat \ {0}, j \in 0..(LineLen - 1) : p = First(k) + j
  BY LineOfByte
<1>2. j = TextLen + 1
  BY <1>1, KindOfByte
<1> QED
  BY <1>1, <1>2, LineLength, FirstOfLine

LEMMA LinesInOrder ==
    ASSUME NEW k \in Nat \ {0}, NEW m \in Nat \ {0}
    PROVE  /\ First(k) < First(m) + LineLen => k <= m
           /\ First(k) = First(m) => k = m
<1>1. /\ First(k) \in Nat /\ First(m) \in Nat /\ LineLen \in Nat /\ LineLen > 0
  BY FirstOfLine, LineLength
<1>2. /\ k < m => First(k) + LineLen <= First(m)
      /\ m < k => First(m) + LineLen <= First(k)
  BY LinesApart
<1> QED
  BY <1>1, <1>2

-----------------------------------------------------------------------------
(* The bytes that are sent are whole lines.                                  *)
WholeLines == \E m \in 0..Lines : sent = LineLen * m

(* What a recv() took and is not looked through begins where line_offset is, *)
(* or line_offset is the first byte of a line, further on in it.             *)
Cut ==
    \A c \in chunks :
        c[2] >= offset => \/ c[1] = offset
                          \/ c[1] < offset - 1 /\ IsLF(offset - 1)

(* What is not looked through was taken by one recv().                       *)
Taken == offset <= received => \E c \in chunks : c[1] <= offset /\ c[2] = received

(* A command's text is the end of a line's that is before line_offset.       *)
Ended ==
    \A i \in DOMAIN executed :
        \E k \in 1..Lines :
            /\ executed[i][1] \in First(k)..executed[i][2]
            /\ executed[i][2] = First(k) + TextLen - 1
            /\ First(k) + LineLen - 1 < offset

InTurn == \A i \in 1..(Len(executed) - 1) : executed[i][2] < executed[i + 1][1]

IsExecuted(k) == \E i \in DOMAIN executed : executed[i] = Whole(k)

Settled ==
    \A k \in 1..Lines :
        First(k) + LineLen - 1 < offset => (Intact(k) <=> IsExecuted(k))

CInv == ControlTypeOK /\ WholeLines /\ Cut /\ Taken /\ Ended /\ InTurn /\ Settled

LEMMA ControlTypes ==
    ASSUME ControlTypeOK
    PROVE  /\ sent \in Nat /\ received \in Nat /\ offset \in Nat
           /\ sent <= Lines * LineLen /\ received <= sent
           /\ 1 <= offset /\ offset <= received + 1
           /\ executed \in Seq((1..received) \X (1..received))
           /\ Len(executed) \in Nat /\ DOMAIN executed = 1..Len(executed)
           /\ \A i \in DOMAIN executed : executed[i] \in (1..received) \X (1..received)
           /\ \A c \in chunks : /\ c \in (1..received) \X (1..received)
                                /\ c[1] \in Nat /\ c[2] \in Nat /\ c[2] <= received
<1>1. Lines * LineLen \in Nat
  BY LineLength
<1>2. sent \in Nat /\ sent <= Lines * LineLen
  BY <1>1 DEF ControlTypeOK
<1>3. received \in Nat /\ received <= sent
  BY <1>2 DEF ControlTypeOK
<1>4. offset \in Nat /\ 1 <= offset /\ offset <= received + 1
  BY <1>3 DEF ControlTypeOK
<1>5. executed \in Seq((1..received) \X (1..received))
  BY DEF ControlTypeOK
<1>6. /\ Len(executed) \in Nat /\ DOMAIN executed = 1..Len(executed)
      /\ \A i \in DOMAIN executed : executed[i] \in (1..received) \X (1..received)
  BY <1>5
<1>7. \A c \in chunks : c \in (1..received) \X (1..received)
  BY DEF ControlTypeOK
<1>8. \A c \in chunks : c[1] \in Nat /\ c[2] \in Nat /\ c[2] <= received
  BY <1>3, <1>7
<1> QED
  BY <1>2, <1>3, <1>4, <1>5, <1>6, <1>7, <1>8

LEMMA ControlBegins == Init => CInv
<1> SUFFICES ASSUME Init PROVE CInv
  OBVIOUS
<1>1. sent = 0 /\ received = 0 /\ offset = 1 /\ executed = <<>> /\ chunks = {}
  BY DEF Init, ControlInit
<1>2. 0 \in 0..(Lines * LineLen) /\ 0 \in 0..Lines /\ LineLen * 0 = 0
  BY LineLength
<1>3. ControlTypeOK /\ WholeLines
  BY <1>1, <1>2 DEF ControlTypeOK, WholeLines
<1>4. Cut /\ Taken /\ Ended /\ InTurn
  BY <1>1 DEF Cut, Taken, Ended, InTurn
<1>5. Settled
  <2> SUFFICES ASSUME NEW k \in 1..Lines, First(k) + LineLen - 1 < offset
               PROVE  FALSE
    BY DEF Settled
  <2>1. k \in Nat \ {0}
    BY LineLength
  <2> QED
    BY <1>1, <2>1, FirstOfLine, LineLength
<1> QED
  BY <1>3, <1>4, <1>5 DEF CInv

(* Another line is sent.                                                     *)
LEMMA SendsKeeps ==
    ASSUME CInv, ClientSends
    PROVE  CInv'
<1>1. /\ sent < Lines * LineLen /\ sent' = sent + LineLen
      /\ received' = received /\ offset' = offset /\ executed' = executed /\ chunks' = chunks
  BY DEF ClientSends
<1>2. ControlTypeOK
  BY DEF CInv
<1>3. PICK m \in 0..Lines : sent = LineLen * m
  BY DEF CInv, WholeLines
<1>4. LineLen \in Nat /\ Lines \in Nat /\ m \in Nat /\ m <= Lines
  BY LineLength
<1>5. Lines * LineLen = LineLen * Lines
  BY <1>4
<1>6. m < Lines
  <2> SUFFICES ASSUME m = Lines PROVE FALSE
    BY <1>4
  <2>1. sent = Lines * LineLen /\ sent \in Nat
    BY <1>3, <1>4, <1>5
  <2> QED
    BY <1>1, <2>1
<1>7. sent' = LineLen * (m + 1) /\ LineLen * (m + 1) \in Nat
  BY <1>1, <1>3, <1>4
<1>8. sent' <= LineLen * Lines
  <2>1. LineLen * m + LineLen <= LineLen * Lines
    BY <1>4, <1>6, Multiples
  <2> QED
    BY <1>1, <1>3, <2>1
<1>9. sent' \in 0..(Lines * LineLen)
  BY <1>4, <1>5, <1>7, <1>8
<1>10. received' \in 0..sent'
  <2>1. sent \in Nat /\ received \in Nat /\ received <= sent
    BY <1>2, ControlTypes
  <2> QED
    BY <1>1, <1>4, <2>1
<1>11. ControlTypeOK'
  BY <1>1, <1>2, <1>9, <1>10 DEF ControlTypeOK
<1>12. WholeLines'
  <2>1. m + 1 \in 0..Lines
    BY <1>4, <1>6
  <2> QED
    BY <1>7, <2>1 DEF WholeLines
<1> QED
  BY <1>1, <1>11, <1>12
     DEF CInv, Cut, Taken, Ended, InTurn, Settled, Intact, IsExecuted

(* The least of two numbers, as recv() has it.                               *)
LEMMA LeastOfTwo ==
    ASSUME NEW a \in Nat, NEW b \in Nat
    PROVE  Min({a, b}) \in Nat /\ Min({a, b}) <= a /\ Min({a, b}) <= b
<1>1. \E x \in {a, b} : \A y \in {a, b} : x <= y
  <2>1. a <= b \/ b <= a
    OBVIOUS
  <2> QED
    BY <2>1
<1>2. Min({a, b}) \in {a, b} /\ \A y \in {a, b} : Min({a, b}) <= y
  BY <1>1 DEF Min
<1> QED
  BY <1>2

(* recv() is asked when nothing is left to look through.                     *)
LEMMA RecvKeeps ==
    ASSUME CInv, Recv, offset = received + 1
    PROVE  CInv' /\ offset' = offset
<1>1. ControlTypeOK
  BY DEF CInv
<1>2. /\ sent \in Nat /\ received \in Nat /\ offset \in Nat /\ received <= sent
      /\ sent <= Lines * LineLen
  BY <1>1, ControlTypes
<1>3. RecvMax \in Nat /\ sent - received \in Nat
  BY <1>2, ControlAssumption
<1>4. PICK n \in 1..Min({RecvMax, sent - received}) :
        /\ received' = received + n
        /\ offset' = received + 1
        /\ chunks' = chunks \cup {<<received + 1, received + n>>}
        /\ sent' = sent /\ executed' = executed
  BY DEF Recv
<1>5. n \in Nat /\ n >= 1 /\ n <= sent - received
  BY <1>3, <1>4, LeastOfTwo
<1>6. offset' = offset
  BY <1>4
<1> DEFINE new == <<received + 1, received + n>>
<1>7. new[1] = offset /\ new[2] = received' /\ received' \in Nat /\ received' <= sent'
      /\ received < received'
  BY <1>2, <1>4, <1>5
<1>8. chunks' = chunks \cup {new}
  BY <1>4
<1>9. new \in (1..received') \X (1..received')
  BY <1>2, <1>4, <1>5
<1> HIDE DEF new
<1>10. (1..received) \X (1..received) \subseteq (1..received') \X (1..received')
  BY <1>2, <1>7
<1>11. \A c \in chunks : c[2] < offset
  BY <1>1, <1>2, ControlTypes
<1>12. ControlTypeOK'
  <2>1. chunks' \subseteq (1..received') \X (1..received')
    BY <1>1, <1>8, <1>9, <1>10 DEF ControlTypeOK
  <2>2. executed' \in Seq((1..received') \X (1..received'))
    <3>1. executed \in Seq((1..received) \X (1..received))
      BY <1>1 DEF ControlTypeOK
    <3> QED
      BY <1>4, <1>10, <3>1
  <2>3. sent' \in 0..(Lines * LineLen)
    BY <1>1, <1>4 DEF ControlTypeOK
  <2>4. received' \in 0..sent' /\ offset' \in 1..(received' + 1)
    BY <1>2, <1>4, <1>5, <1>7
  <2> QED
    BY <2>1, <2>2, <2>3, <2>4 DEF ControlTypeOK
<1>13. WholeLines' /\ Ended' /\ InTurn'
  BY <1>4, <1>6 DEF CInv, WholeLines, Ended, InTurn
<1>14. Cut'
  <2> SUFFICES ASSUME NEW c \in chunks', c[2] >= offset'
               PROVE  c[1] = offset'
    BY DEF Cut
  <2>1. CASE c = new
    BY <1>6, <1>7, <2>1
  <2>2. CASE c \in chunks
    <3>1. c[2] < offset /\ c[2] \in Nat
      BY <1>1, <1>11, <2>2, ControlTypes
    <3> QED
      BY <1>2, <1>6, <3>1
  <2> QED
    BY <1>8, <2>1, <2>2
<1>15. Taken'
  BY <1>6, <1>7, <1>8, <1>2 DEF Taken
<1>16. Settled'
  <2> SUFFICES ASSUME NEW k \in 1..Lines, First(k) + LineLen - 1 < offset'
               PROVE  Intact(k)' <=> IsExecuted(k)'
    BY DEF Settled
  <2>1. k \in Nat \ {0} /\ First(k) \in Nat /\ LineLen \in Nat /\ LineLen > 0
    <3>1. k \in Nat \ {0}
      BY LineLength
    <3> QED
      BY <3>1, LineLength, FirstOfLine
  <2>2. Intact(k) <=> IsExecuted(k)
    BY <1>6 DEF CInv, Settled
  <2>3. ~(new[1] <= First(k))
    BY <1>2, <1>6, <1>7, <2>1
  <2>4. Intact(k)' <=> Intact(k)
    BY <1>8, <2>3 DEF Intact
  <2>5. IsExecuted(k)' <=> IsExecuted(k)
    BY <1>4 DEF IsExecuted
  <2> QED
    BY <2>2, <2>4, <2>5
<1> QED
  BY <1>6, <1>12, <1>13, <1>14, <1>15, <1>16 DEF CInv

(* A line that ends beyond line_offset is not executed.                      *)
LEMMA NotYetExecuted ==
    ASSUME CInv, NEW k \in Nat \ {0}, offset <= First(k) + LineLen - 1
    PROVE  ~IsExecuted(k)
<1> SUFFICES ASSUME NEW i \in DOMAIN executed, executed[i] = Whole(k)
             PROVE  FALSE
  BY DEF IsExecuted
<1>1. PICK m \in 1..Lines : /\ executed[i][2] = First(m) + TextLen - 1
                            /\ First(m) + LineLen - 1 < offset
  BY DEF CInv, Ended
<1>2. /\ m \in Nat \ {0} /\ First(m) \in Nat /\ First(k) \in Nat
      /\ LineLen \in Nat /\ TextLen \in Nat /\ offset \in Nat
  <2>1. m \in Nat \ {0}
    BY LineLength
  <2>2. ControlTypeOK
    BY DEF CInv
  <2> QED
    BY <2>1, <2>2, LineLength, FirstOfLine, ControlTypes
<1>3. First(m) + TextLen - 1 = First(k) + TextLen - 1
  BY <1>1 DEF Whole
<1> QED
  BY <1>1, <1>2, <1>3

(* What is left has no end: at most a line feed that is the first byte of    *)
(* what recv() took. Or the session is closed, and there is nothing left.    *)
LEMMA PassesKeeps ==
    ASSUME CInv, UNCHANGED <<sent, executed, chunks>>,
           NEW r \in received..sent, received' = r, offset' = r + 1,
           \/ r = received /\ Ends = {}
           \/ offset = received + 1
    PROVE  CInv' /\ offset <= offset'
<1>1. ControlTypeOK
  BY DEF CInv
<1>2. /\ sent \in Nat /\ received \in Nat /\ offset \in Nat /\ received <= sent
      /\ 1 <= offset /\ offset <= received + 1
      /\ sent <= Lines * LineLen
      /\ \A c \in chunks : c[1] \in Nat /\ c[2] \in Nat /\ c[2] <= received
  BY <1>1, ControlTypes
<1>3. /\ received' \in Nat /\ received' <= sent /\ received <= received'
      /\ offset' \in Nat /\ offset' = received' + 1 /\ offset <= offset'
  BY <1>2
<1>4. (1..received) \X (1..received) \subseteq (1..received') \X (1..received')
  BY <1>2, <1>3
<1>5. ControlTypeOK'
  <2>1. chunks' \subseteq (1..received') \X (1..received')
    BY <1>1, <1>4 DEF ControlTypeOK
  <2>2. executed' \in Seq((1..received') \X (1..received'))
    <3>1. executed \in Seq((1..received) \X (1..received))
      BY <1>1 DEF ControlTypeOK
    <3> QED
      BY <1>4, <3>1
  <2>3. sent' \in 0..(Lines * LineLen) /\ sent' = sent
    BY <1>1 DEF ControlTypeOK
  <2>4. received' \in 0..sent' /\ offset' \in 1..(received' + 1)
    BY <1>2, <1>3, <2>3
  <2> QED
    BY <2>1, <2>2, <2>3, <2>4 DEF ControlTypeOK
<1>6. WholeLines' /\ InTurn'
  BY DEF CInv, WholeLines, InTurn
<1>7. Cut'
  BY <1>2, <1>3 DEF Cut
<1>8. Taken'
  <2>1. ~(offset' <= received')
    BY <1>3
  <2> QED
    BY <2>1 DEF Taken
<1>9. Ended'
  <2> SUFFICES ASSUME NEW i \in DOMAIN executed
               PROVE  \E k \in 1..Lines :
                          /\ executed[i][1] \in First(k)..executed[i][2]
                          /\ executed[i][2] = First(k) + TextLen - 1
                          /\ First(k) + LineLen - 1 < offset'
    BY DEF Ended
  <2>1. PICK k \in 1..Lines :
            /\ executed[i][1] \in First(k)..executed[i][2]
            /\ executed[i][2] = First(k) + TextLen - 1
            /\ First(k) + LineLen - 1 < offset
    BY DEF CInv, Ended
  <2>2. k \in Nat \ {0} /\ First(k) \in Nat /\ LineLen \in Nat
    <3>1. k \in Nat \ {0}
      BY LineLength
    <3> QED
      BY <3>1, LineLength, FirstOfLine
  <2>3. First(k) + LineLen - 1 < offset'
    BY <1>2, <1>3, <2>1, <2>2
  <2> QED
    BY <2>1, <2>3
<1>10. Settled'
  <2> SUFFICES ASSUME NEW k \in 1..Lines, First(k) + LineLen - 1 < offset'
               PROVE  Intact(k)' <=> IsExecuted(k)'
    BY DEF Settled
  <2> DEFINE e == First(k) + LineLen - 1
  <2>1. /\ k \in Nat \ {0} /\ First(k) \in Nat /\ First(k) >= 1
        /\ LineLen \in Nat /\ TextLen \in Nat /\ TextLen > 0 /\ LineLen = TextLen + 2
    <3>1. k \in Nat \ {0}
      BY LineLength
    <3> QED
      BY <3>1, LineLength, FirstOfLine
  <2>2. e \in Nat /\ e - 1 \in Nat /\ First(k) < e - 1 /\ e >= 1 /\ e < offset'
    BY <2>1
  <2>3. Intact(k)' <=> Intact(k)
    BY DEF Intact
  <2>4. IsExecuted(k)' <=> IsExecuted(k)
    BY DEF IsExecuted
  <2>5. CASE e < offset
    BY <2>3, <2>4, <2>5 DEF CInv, Settled
  <2>6. CASE offset <= e
    <3>1. ~IsExecuted(k)
      BY <2>1, <2>6, NotYetExecuted
    <3>2. ~Intact(k)
      <4> SUFFICES ASSUME NEW c \in chunks, c[1] <= First(k), e <= c[2]
                   PROVE  FALSE
        BY DEF Intact
      <4>1. c[1] \in Nat /\ c[2] \in Nat /\ c[2] <= received
        BY <1>2
      <4>2. e <= received
        BY <1>2, <2>2, <4>1
      <4>3. Ends = {}
        BY <1>2, <2>2, <2>6, <4>2
      <4>4. IsCR(e - 1) /\ IsLF(e) /\ ~IsLF(e - 1)
        <5>1. TextLen \in 0..(LineLen - 1) /\ TextLen + 1 \in 0..(LineLen - 1)
          BY <2>1
        <5>2. e = First(k) + (TextLen + 1) /\ e - 1 = First(k) + TextLen
          BY <2>1
        <5>3. TextLen # TextLen + 1
          BY <2>1
        <5> HIDE DEF e
        <5> QED
          BY <2>1, <5>1, <5>2, <5>3, KindOfByte
      <4>5. ~(e \in (offset + 1)..received)
        BY <4>3, <4>4 DEF Ends
      <4>6. e = offset
        BY <1>2, <2>2, <2>6, <4>2, <4>5
      <4>7. c[2] >= offset
        BY <1>2, <2>2, <4>1, <4>6
      <4>8. c[1] = offset \/ IsLF(offset - 1)
        BY <4>7 DEF CInv, Cut
      <4> QED
        BY <1>2, <2>1, <2>2, <4>1, <4>4, <4>6, <4>8
    <3> QED
      BY <2>3, <2>4, <3>1, <3>2
  <2> QED
    BY <1>2, <2>2, <2>5, <2>6
<1> QED
  BY <1>3, <1>5, <1>6, <1>7, <1>8, <1>9, <1>10 DEF CInv

-----------------------------------------------------------------------------
(* Where a line that is looked for from the j-th byte of line k ends.        *)
EndFrom(k, j) == IF j = LineLen - 1 THEN First(k) + LineLen + LineLen - 1
                 ELSE First(k) + LineLen - 1

LEMMA EndOfLine ==
    ASSUME NEW k \in Nat \ {0}
    PROVE  /\ First(k) + LineLen - 1 \in Nat
           /\ IsCR(First(k) + LineLen - 1 - 1) /\ IsLF(First(k) + LineLen - 1)
           /\ ~IsLF(First(k) + LineLen - 1 - 1)
<1>1. /\ First(k) \in Nat /\ LineLen \in Nat /\ TextLen \in Nat /\ TextLen > 0
      /\ LineLen = TextLen + 2
  BY FirstOfLine, LineLength
<1>2. TextLen \in 0..(LineLen - 1) /\ TextLen + 1 \in 0..(LineLen - 1)
  BY <1>1
<1>3. /\ First(k) + LineLen - 1 - 1 = First(k) + TextLen
      /\ First(k) + LineLen - 1 = First(k) + (TextLen + 1)
  BY <1>1
<1>4. IsCR(First(k) + TextLen) /\ IsLF(First(k) + (TextLen + 1)) /\ ~IsLF(First(k) + TextLen)
  BY <1>1, <1>2, KindOfByte
<1> QED
  BY <1>1, <1>3, <1>4

(* strstr() finds the end of the first line that does not end at the byte    *)
(* where it begins.                                                          *)
LEMMA WhereItEnds ==
    ASSUME ControlTypeOK, Ends # {},
           NEW k \in Nat \ {0}, NEW j \in 0..(LineLen - 1), offset = First(k) + j
    PROVE  /\ LineEnd = EndFrom(k, j)
           /\ EndFrom(k, j) \in (offset + 1)..received
<1> DEFINE e == EndFrom(k, j)
<1>1. /\ First(k) \in Nat /\ LineLen \in Nat /\ LineLen >= 3 /\ k + 1 \in Nat \ {0}
      /\ First(k + 1) = First(k) + LineLen
  BY FirstOfLine, LineLength
<1>2. offset \in Nat /\ received \in Nat /\ offset >= 1
  BY ControlTypes
<1>3. e \in Nat /\ IsCR(e - 1) /\ IsLF(e) /\ offset + 1 <= e
  <2>1. CASE j = LineLen - 1
    <3>1. e = First(k + 1) + LineLen - 1
      BY <1>1, <2>1 DEF EndFrom
    <3>2. offset + 1 <= e
      BY <1>1, <2>1 DEF EndFrom
    <3> HIDE DEF e
    <3> QED
      BY <1>1, <3>1, <3>2, EndOfLine
  <2>2. CASE j # LineLen - 1
    <3>1. e = First(k) + LineLen - 1
      BY <2>2 DEF EndFrom
    <3>2. offset + 1 <= e
      BY <1>1, <2>2 DEF EndFrom
    <3> HIDE DEF e
    <3> QED
      BY <1>1, <3>1, <3>2, EndOfLine
  <2> QED
    BY <2>1, <2>2
<1>4. ASSUME NEW p \in Ends
      PROVE  e <= p /\ p <= received /\ p \in Nat
  <2>1. p \in Nat /\ p >= offset + 1 /\ p <= received /\ IsLF(p)
    BY <1>2 DEF Ends
  <2>2. PICK m \in Nat \ {0} : p = First(m) + LineLen - 1
    BY <1>2, <2>1, LineFeed
  <2>3. First(m) \in Nat
    BY FirstOfLine
  <2>4. First(k) < First(m) + LineLen
    BY <1>1, <2>1, <2>2, <2>3
  <2>5. k <= m
    BY <2>4, LinesInOrder
  <2>6. CASE k = m
    <3>1. j # LineLen - 1
      BY <1>1, <2>1, <2>2, <2>6
    <3> QED
      BY <2>1, <2>2, <2>6, <3>1 DEF EndFrom
  <2>7. CASE k < m
    <3>1. First(k) + LineLen <= First(m)
      BY <2>7, LinesApart
    <3> QED
      BY <1>1, <2>1, <2>2, <2>3, <3>1 DEF EndFrom
  <2> QED
    BY <2>5, <2>6, <2>7
<1> HIDE DEF e
<1>5. e \in (offset + 1)..received
  <2>1. PICK p \in Ends : TRUE
    OBVIOUS
  <2>2. e <= p /\ p <= received /\ p \in Nat
    BY <1>4
  <2> QED
    BY <1>2, <1>3, <2>2
<1>6. e \in Ends
  BY <1>3, <1>5 DEF Ends
<1>7. Min(Ends) = e
  <2>1. \E x \in Ends : \A y \in Ends : x <= y
    BY <1>4, <1>6
  <2>2. Min(Ends) \in Ends /\ \A y \in Ends : Min(Ends) <= y
    BY <2>1 DEF Min
  <2>3. Min(Ends) <= e /\ e <= Min(Ends) /\ Min(Ends) \in Nat
    BY <1>4, <1>6, <2>2
  <2> QED
    BY <1>3, <2>3
<1> QED
  BY <1>5, <1>7 DEF LineEnd, e

(* sscanf() takes what is left of the text of the line.                      *)
LEMMA WhatItTakes ==
    ASSUME ControlTypeOK, Ends # {},
           NEW k \in Nat \ {0}, NEW j \in 0..(LineLen - 1), offset = First(k) + j
    PROVE  /\ j >= TextLen => LineText = {}
           /\ j < TextLen => LineText # {} /\ Max(LineText) = First(k) + TextLen - 1
<1>1. /\ First(k) \in Nat /\ LineLen \in Nat /\ TextLen \in Nat /\ TextLen > 0
      /\ LineLen = TextLen + 2
  BY FirstOfLine, LineLength
<1>2. offset \in Nat /\ offset >= 1
  BY ControlTypes
<1>3. LineEnd = EndFrom(k, j) /\ LineEnd \in Nat
  BY <1>1, WhereItEnds DEF EndFrom
<1>4. CASE j >= TextLen
  <2>1. ~IsText(offset)
    BY <1>1, <1>4, KindOfByte
  <2>2. LineText = {}
    BY <1>2, <1>3, <2>1 DEF LineText
  <2> QED
    BY <1>1, <1>4, <2>2
<1>5. CASE j < TextLen
  <2> DEFINE last == First(k) + TextLen - 1
  <2>1. LineEnd = First(k) + LineLen - 1
    BY <1>1, <1>3, <1>5 DEF EndFrom
  <2>2. last \in offset..LineEnd /\ last \in Nat
    BY <1>1, <1>2, <1>5, <2>1
  <2>3. \A q \in offset..last : IsText(q)
    <3> SUFFICES ASSUME NEW q \in offset..last PROVE IsText(q)
      OBVIOUS
    <3> DEFINE i == q - First(k)
    <3>1. i \in 0..(LineLen - 1) /\ i < TextLen /\ q = First(k) + i
      BY <1>1, <1>2
    <3> HIDE DEF i
    <3> QED
      BY <3>1, KindOfByte
  <2>4. last \in LineText
    BY <2>2, <2>3 DEF LineText
  <2>5. ASSUME NEW p \in LineText
        PROVE  last >= p
    <3>1. p \in offset..LineEnd /\ \A q \in offset..p : IsText(q)
      BY DEF LineText
    <3>2. ~IsText(First(k) + TextLen)
      <4>1. TextLen \in 0..(LineLen - 1) /\ ~(TextLen < TextLen)
        BY <1>1
      <4> QED
        BY <4>1, KindOfByte
    <3>3. ~(First(k) + TextLen \in offset..p)
      BY <3>1, <3>2
    <3> QED
      BY <1>1, <1>2, <1>3, <1>5, <3>1, <3>3
  <2> HIDE DEF last
  <2>6. Max(LineText) = last
    <3>1. \E x \in LineText : \A y \in LineText : x >= y
      BY <2>4, <2>5
    <3>2. Max(LineText) \in LineText /\ \A y \in LineText : Max(LineText) >= y
      BY <3>1 DEF Max
    <3>3. Max(LineText) >= last /\ last >= Max(LineText)
      BY <2>4, <2>5, <3>2
    <3>4. Max(LineText) \in Nat
      BY <1>2, <1>3, <3>2 DEF LineText
    <3> QED
      BY <2>2, <3>3, <3>4
  <2> QED
    BY <1>1, <1>5, <2>4, <2>6 DEF last
<1> QED
  BY <1>1, <1>4, <1>5

(* A line is taken out of what a recv() brought: a command with the whole    *)
(* text exactly if line_offset was at its beginning, and then, as line_offset*)
(* gets past two bytes at least, recv() brought all of it.                   *)
LEMMA ProgressKeeps ==
    ASSUME CInv, ProgressLine
    PROVE  /\ CInv'
           /\ \E k \in 1..Lines : offset < First(k) + LineLen /\ First(k + 1) <= offset'
<1>1. ControlTypeOK
  BY DEF CInv
<1>2. /\ sent \in Nat /\ received \in Nat /\ offset \in Nat /\ received <= sent
      /\ 1 <= offset /\ offset <= received + 1
      /\ sent <= Lines * LineLen
      /\ \A c \in chunks : c[1] \in Nat /\ c[2] \in Nat /\ c[2] <= received
  BY <1>1, ControlTypes
<1>3. PICK k \in Nat \ {0}, j \in 0..(LineLen - 1) : offset = First(k) + j
  BY <1>2, LineOfByte
<1> DEFINE e == EndFrom(k, j)
           last == First(k) + TextLen - 1
<1>4. /\ First(k) \in Nat /\ First(k) >= 1 /\ LineLen \in Nat
      /\ TextLen \in Nat /\ TextLen > 0 /\ LineLen = TextLen + 2
      /\ k + 1 \in Nat \ {0} /\ First(k + 1) = First(k) + LineLen
      /\ Lines \in Nat /\ j \in Nat /\ j <= LineLen - 1
  BY FirstOfLine, LineLength
<1>5. Ends # {} /\ sent' = sent /\ received' = received /\ chunks' = chunks
  BY DEF ProgressLine
<1>6. e \in (offset + 1)..received /\ LineEnd = e
  BY <1>1, <1>3, <1>5, WhereItEnds
<1>7. offset' = e + 1
  BY <1>6 DEF ProgressLine, NextOffset
<1>8. /\ j >= TextLen => executed' = executed
      /\ j < TextLen => executed' = Append(executed, <<offset, last>>)
  BY <1>1, <1>3, <1>5, WhatItTakes DEF ProgressLine
<1>9. e = IF j = LineLen - 1 THEN First(k) + LineLen + LineLen - 1
          ELSE First(k) + LineLen - 1
  BY DEF EndFrom
<1>10. last \in Nat /\ last = First(k) + TextLen - 1 /\ (j < TextLen => offset <= last)
  BY <1>3, <1>4
<1> HIDE DEF e, last
<1>11. /\ e \in Nat /\ offset + 1 <= e /\ e <= received /\ last < e
       /\ offset' \in Nat /\ offset' >= offset + 2 /\ offset' <= received + 1
  BY <1>2, <1>4, <1>6, <1>7, <1>9, <1>10
<1>12. First(k) + LineLen - 1 <= e /\ e <= sent
  BY <1>2, <1>4, <1>9, <1>11
<1>13. k <= Lines
  <2>1. LineLen * (k - 1) \in Nat /\ First(k) = LineLen * (k - 1) + 1 /\ k - 1 \in Nat
    BY <1>4, FirstOfLine
  <2>2. LineLen * Lines = Lines * LineLen /\ LineLen * Lines \in Nat
    BY <1>4
  <2>3. LineLen * (k - 1) + LineLen <= LineLen * Lines
    <3> DEFINE a == LineLen * (k - 1)
               b == LineLen * Lines
    <3>1. a \in Nat /\ b \in Nat /\ First(k) = a + 1 /\ sent <= b
      BY <1>2, <2>1, <2>2
    <3> HIDE DEF a, b
    <3>2. a + LineLen <= b
      BY <1>2, <1>4, <1>11, <1>12, <3>1
    <3> QED
      BY <3>2 DEF a, b
  <2>4. SUFFICES ASSUME Lines < k PROVE FALSE
    BY <1>4
  <2>5. Lines <= k - 1
    BY <1>4, <2>4
  <2>6. LineLen * Lines <= LineLen * (k - 1)
    <3>1. CASE Lines = k - 1
      BY <2>1, <3>1
    <3>2. CASE Lines < k - 1
      <4>1. LineLen * Lines + LineLen <= LineLen * (k - 1)
        BY <1>4, <2>1, <3>2, Multiples
      <4> QED
        BY <1>4, <2>1, <2>2, <4>1
    <3> QED
      BY <1>4, <2>1, <2>5, <3>1, <3>2
  <2> QED
    BY <1>4, <2>1, <2>2, <2>3, <2>6
<1>14. k \in 1..Lines
  BY <1>4, <1>13
<1>15. j < TextLen => <<offset, last>> \in (1..received) \X (1..received)
  BY <1>2, <1>10, <1>11
<1>16. ControlTypeOK'
  <2>1. executed' \in Seq((1..received') \X (1..received'))
    <3>1. executed \in Seq((1..received) \X (1..received))
      BY <1>1 DEF ControlTypeOK
    <3>2. executed' \in Seq((1..received) \X (1..received))
      <4>1. CASE j >= TextLen
        BY <1>8, <3>1, <4>1
      <4>2. CASE j < TextLen
        <5> DEFINE P == (1..received) \X (1..received)
                   t == <<offset, last>>
        <5>1. executed \in Seq(P) /\ t \in P /\ executed' = Append(executed, t)
          BY <1>8, <1>15, <3>1, <4>2
        <5> HIDE DEF P, t
        <5>2. executed' \in Seq(P)
          BY <5>1
        <5> QED
          BY <5>2 DEF P
      <4> QED
        BY <1>4, <4>1, <4>2
    <3> QED
      BY <1>5, <3>2
  <2>2. offset' \in 1..(received' + 1)
    BY <1>2, <1>5, <1>11
  <2> QED
    BY <1>1, <1>5, <2>1, <2>2 DEF ControlTypeOK
<1>17. WholeLines'
  BY <1>5 DEF CInv, WholeLines
<1>18. IsLF(e)
  <2>1. e = First(k) + LineLen - 1 \/ e = First(k + 1) + LineLen - 1
    BY <1>4, <1>9
  <2> QED
    BY <1>4, <2>1, EndOfLine
<1>19. Cut' /\ \A c \in chunks : c[2] >= offset' => c[1] < offset' - 1
  <2> SUFFICES ASSUME NEW c \in chunks, c[2] >= offset'
               PROVE  c[1] < offset' - 1 /\ IsLF(offset' - 1)
    BY <1>5 DEF Cut
  <2>1. c[2] >= offset /\ c[1] \in Nat
    BY <1>2, <1>11
  <2>2. c[1] <= offset
    BY <1>2, <2>1 DEF CInv, Cut
  <2>3. offset' - 1 = e
    BY <1>7, <1>11
  <2>4. IsLF(offset' - 1)
    BY <1>18, <2>3
  <2>5. c[1] < offset' - 1
    BY <1>2, <1>11, <2>1, <2>2
  <2> QED
    BY <2>4, <2>5
<1>20. PICK big \in chunks : big[1] <= offset /\ big[2] = received
  <2>1. offset <= received
    BY <1>2, <1>11
  <2> QED
    BY <2>1 DEF CInv, Taken
<1>21. Taken'
  <2>1. big[1] <= offset'
    BY <1>2, <1>11, <1>20
  <2> QED
    BY <1>5, <1>20, <2>1 DEF Taken
<1>22. \A i \in DOMAIN executed : executed[i][2] \in Nat /\ executed[i][2] < offset
  <2> SUFFICES ASSUME NEW i \in DOMAIN executed
               PROVE  executed[i][2] \in Nat /\ executed[i][2] < offset
    OBVIOUS
  <2>1. PICK m \in 1..Lines : /\ executed[i][2] = First(m) + TextLen - 1
                              /\ First(m) + LineLen - 1 < offset
    BY DEF CInv, Ended
  <2>2. m \in Nat \ {0}
    BY <1>4
  <2>3. First(m) \in Nat /\ First(m) >= 1
    BY <2>2, FirstOfLine
  <2> QED
    BY <1>2, <1>4, <2>1, <2>3
<1>23. Len(executed) \in Nat /\ DOMAIN executed = 1..Len(executed)
       /\ executed \in Seq((1..received) \X (1..received))
  BY <1>1, ControlTypes
<1>24. j < TextLen => /\ Len(executed') = Len(executed) + 1
                      /\ DOMAIN executed' = 1..(Len(executed) + 1)
                      /\ executed'[Len(executed) + 1] = <<offset, last>>
                      /\ \A i \in 1..Len(executed) : executed'[i] = executed[i]
  BY <1>8, <1>15, <1>23
<1>25. ASSUME NEW i \in DOMAIN executed'
       PROVE  \/ i \in DOMAIN executed /\ executed'[i] = executed[i]
              \/ j < TextLen /\ i = Len(executed) + 1 /\ executed'[i] = <<offset, last>>
  <2>1. CASE j >= TextLen
    BY <1>8, <2>1
  <2>2. CASE j < TextLen
    <3>1. i \in 1..Len(executed) \/ i = Len(executed) + 1
      BY <1>23, <1>24, <2>2
    <3> QED
      BY <1>23, <1>24, <2>2, <3>1
  <2> QED
    BY <1>4, <2>1, <2>2
<1>26. Ended'
  <2> SUFFICES ASSUME NEW i \in DOMAIN executed'
               PROVE  \E m \in 1..Lines :
                          /\ executed'[i][1] \in First(m)..executed'[i][2]
                          /\ executed'[i][2] = First(m) + TextLen - 1
                          /\ First(m) + LineLen - 1 < offset'
    BY DEF Ended
  <2>1. CASE i \in DOMAIN executed /\ executed'[i] = executed[i]
    <3>1. PICK m \in 1..Lines :
              /\ executed[i][1] \in First(m)..executed[i][2]
              /\ executed[i][2] = First(m) + TextLen - 1
              /\ First(m) + LineLen - 1 < offset
      BY <2>1 DEF CInv, Ended
    <3>2. m \in Nat \ {0}
      BY <1>4
    <3>3. First(m) \in Nat
      BY <3>2, FirstOfLine
    <3>4. First(m) + LineLen - 1 < offset'
      BY <1>2, <1>4, <1>11, <3>1, <3>3
    <3> QED
      BY <2>1, <3>1, <3>4
  <2>2. CASE j < TextLen /\ executed'[i] = <<offset, last>>
    <3>1. offset \in First(k)..last
      BY <1>2, <1>3, <1>4, <1>10, <2>2
    <3>2. First(k) + LineLen - 1 < offset'
      BY <1>4, <1>7, <1>11, <1>12
    <3> QED
      BY <1>10, <1>14, <2>2, <3>1, <3>2
  <2> QED
    BY <1>25, <2>1, <2>2
<1>27. InTurn'
  <2>1. CASE j >= TextLen
    BY <1>8, <2>1 DEF CInv, InTurn
  <2>2. CASE j < TextLen
    <3> SUFFICES ASSUME NEW i \in 1..(Len(executed') - 1)
                 PROVE  executed'[i][2] < executed'[i + 1][1]
      BY DEF InTurn
    <3>1. i \in 1..Len(executed) /\ executed'[i] = executed[i]
      BY <1>23, <1>24, <2>2
    <3>2. CASE i = Len(executed)
      <4>1. executed'[i + 1] = <<offset, last>>
        BY <1>24, <2>2, <3>2
      <4> QED
        BY <1>22, <1>23, <3>1, <4>1
    <3>3. CASE i # Len(executed)
      <4>1. i + 1 \in 1..Len(executed) /\ i \in 1..(Len(executed) - 1)
        <5> DEFINE n == Len(executed)
        <5>1. n \in Nat /\ i \in 1..n /\ i # n
          BY <1>23, <3>1, <3>3
        <5> HIDE DEF n
        <5>2. i + 1 \in 1..n /\ i \in 1..(n - 1)
          BY <5>1
        <5> QED
          BY <5>2 DEF n
      <4>2. executed'[i + 1] = executed[i + 1]
        BY <1>24, <2>2, <4>1
      <4> QED
        BY <3>1, <4>1, <4>2 DEF CInv, InTurn
    <3> QED
      BY <3>2, <3>3
  <2> QED
    BY <1>4, <2>1, <2>2
<1>28. Settled'
  <2> SUFFICES ASSUME NEW m \in 1..Lines, First(m) + LineLen - 1 < offset'
               PROVE  Intact(m)' <=> IsExecuted(m)'
    BY DEF Settled
  <2>1. m \in Nat \ {0}
    BY <1>4
  <2>2. First(m) \in Nat /\ First(m) >= 1
    BY <2>1, FirstOfLine
  <2>3. Intact(m)' <=> Intact(m)
    BY <1>5 DEF Intact
  <2>4. IsExecuted(m)' <=> \/ IsExecuted(m)
                           \/ j < TextLen /\ offset = First(m) /\ m = k
    <3>1. Whole(m) = <<First(m), First(m) + TextLen - 1>>
      BY DEF Whole
    <3>2. last = First(m) + TextLen - 1 => m = k
      <4>1. last = First(m) + TextLen - 1 => First(m) = First(k)
        BY <1>4, <1>10, <2>2
      <4> QED
        BY <2>1, <4>1, LinesInOrder
    <3>3. ASSUME IsExecuted(m)'
          PROVE  IsExecuted(m) \/ (j < TextLen /\ offset = First(m) /\ m = k)
      <4>1. PICK i \in DOMAIN executed' : executed'[i] = Whole(m)
        BY <3>3 DEF IsExecuted
      <4>2. CASE i \in DOMAIN executed /\ executed'[i] = executed[i]
        BY <4>1, <4>2 DEF IsExecuted
      <4>3. CASE j < TextLen /\ executed'[i] = <<offset, last>>
        BY <3>1, <3>2, <4>1, <4>3
      <4> QED
        BY <1>25, <4>2, <4>3
    <3>4. ASSUME IsExecuted(m)
          PROVE  IsExecuted(m)'
      <4>1. PICK i \in DOMAIN executed : executed[i] = Whole(m)
        BY <3>4 DEF IsExecuted
      <4>2. i \in DOMAIN executed' /\ executed'[i] = executed[i]
        <5>1. CASE j >= TextLen
          BY <1>8, <5>1
        <5>2. CASE j < TextLen
          BY <1>23, <1>24, <5>2
        <5> QED
          BY <1>4, <5>1, <5>2
      <4> QED
        BY <4>1, <4>2 DEF IsExecuted
    <3>5. ASSUME j < TextLen, offset = First(m), m = k
          PROVE  IsExecuted(m)'
      <4>1. Len(executed) + 1 \in DOMAIN executed'
            /\ executed'[Len(executed) + 1] = <<offset, last>>
        BY <1>23, <1>24, <3>5
      <4>2. <<offset, last>> = Whole(m)
        BY <1>10, <3>1, <3>5
      <4> QED
        BY <4>1, <4>2 DEF IsExecuted
    <3> QED
      BY <3>3, <3>4, <3>5
  <2>5. CASE First(m) + LineLen - 1 < offset
    <3>1. ~(offset = First(m))
      BY <1>2, <1>4, <2>2, <2>5
    <3> QED
      BY <2>3, <2>4, <2>5, <3>1 DEF CInv, Settled
  <2>6. CASE offset <= First(m) + LineLen - 1
    <3>1. ~IsExecuted(m)
      BY <2>1, <2>6, NotYetExecuted
    <3>2. ASSUME j < TextLen, offset = First(m), m = k
          PROVE  Intact(m)
      <4>1. offset' = First(m) + LineLen
        BY <1>4, <1>7, <1>9, <3>2
      <4>2. First(m) + LineLen - 1 <= big[2]
        BY <1>2, <1>4, <1>11, <1>20, <2>2, <4>1
      <4>3. big[2] >= offset
        BY <1>2, <1>4, <1>20, <1>11
      <4>4. big[1] = offset \/ big[1] < offset - 1
        BY <4>3 DEF CInv, Cut
      <4>5. big[1] # First(m) - 1
        BY <1>2, <1>20, <3>2, <4>4
      <4> QED
        BY <1>20, <3>2, <4>2, <4>5 DEF Intact
    <3>3. ASSUME Intact(m)
          PROVE  j < TextLen /\ offset = First(m) /\ m = k
      <4>1. PICK c \in chunks : /\ c[1] <= First(m) /\ c[1] # First(m) - 1
                                /\ First(m) + LineLen - 1 <= c[2]
        BY <3>3 DEF Intact
      <4>2. c[1] \in Nat /\ c[2] \in Nat /\ c[2] >= offset
        BY <1>2, <1>4, <2>2, <2>6, <4>1
      <4>3. c[1] = offset \/ (c[1] < offset - 1 /\ IsLF(offset - 1))
        BY <4>2 DEF CInv, Cut
      <4>4. k <= m
        <5>1. First(k) < First(m) + LineLen
          BY <1>2, <1>3, <1>4, <2>2, <2>6
        <5> QED
          BY <2>1, <5>1, LinesInOrder
      <4>5. CASE j = LineLen - 1
        <5>1. ~IsLF(offset - 1)
          <6>1. offset - 1 = First(k) + LineLen - 1 - 1
            BY <1>3, <1>4, <4>5
          <6> QED
            BY <6>1, EndOfLine
        <5>2. c[1] = offset
          BY <4>3, <5>1
        <5>3. m # k
          BY <1>3, <1>4, <4>1, <4>5, <5>2
        <5>4. First(k) + LineLen <= First(m)
          BY <2>1, <4>4, <5>3, LinesApart
        <5>5. First(m) = First(k) + LineLen
          <6>1. e = First(k) + LineLen + LineLen - 1
            BY <1>9, <4>5
          <6> QED
            BY <1>4, <1>7, <2>2, <5>4, <6>1
        <5>6. First(m) - 1 = offset
          BY <1>3, <1>4, <4>5, <5>5
        <5> QED
          BY <4>1, <5>2, <5>6
      <4>6. CASE j # LineLen - 1
        <5>1. e = First(k) + LineLen - 1
          BY <1>9, <4>6
        <5>2. m = k
          <6>1. First(m) < First(k) + LineLen
            BY <1>4, <1>7, <2>2, <5>1
          <6>2. m <= k
            BY <2>1, <6>1, LinesInOrder
          <6> QED
            BY <2>1, <4>4, <6>2
        <5>3. j = 0
          <6>1. CASE c[1] = offset
            BY <1>3, <1>4, <4>1, <5>2, <6>1
          <6>2. CASE IsLF(offset - 1) /\ j # 0
            <7>1. j - 1 \in 0..(LineLen - 1) /\ offset - 1 = First(k) + (j - 1)
              BY <1>3, <1>4, <6>2
            <7>2. j - 1 = TextLen + 1
              BY <6>2, <7>1, KindOfByte
            <7> QED
              BY <1>4, <4>6, <7>2
          <6> QED
            BY <4>3, <6>1, <6>2
        <5> QED
          BY <1>3, <1>4, <5>2, <5>3
      <4> QED
        BY <4>5, <4>6
    <3> QED
      BY <2>3, <2>4, <3>1, <3>2, <3>3
  <2> QED
    BY <1>2, <1>4, <2>2, <2>5, <2>6
<1>29. offset < First(k) + LineLen /\ First(k + 1) <= offset'
  BY <1>2, <1>3, <1>4, <1>7, <1>11, <1>12
<1> QED
  BY <1>14, <1>16, <1>17, <1>19, <1>21, <1>26, <1>27, <1>28, <1>29 DEF CInv

LEMMA OffsetType == CInv => offset \in Nat
BY ControlTypes DEF CInv

LEMMA ControlBounds == CInv' => (offset \in Nat)'
BY OffsetType, PTL

-----------------------------------------------------------------------------
(* What is said of a line is counted: two messages for each that is before   *)
(* line_offset.                                                              *)
Counted == \E m \in 0..Lines : First(m + 1) <= offset /\ said + say <= 2 * m

(* What was shown is in the log file, or in the buffer of its handle.        *)
Logged == IF port = "nx" THEN written + kept = Len(shown)
          ELSE written = Len(shown) /\ kept = 0

(* In the callback there is something to say.                                *)
Saying == thread \in SayPlaces => say > 0

Inv == IInv /\ CInv /\ TypeOK /\ Counted /\ Logged /\ Saying

(* The control connection and what is said of its lines, wherever the server *)
(* and its thread are.                                                       *)
LEMMA ControlKeeps ==
    ASSUME IInv, CInv, [Next]_vars
    PROVE  CInv' /\ offset <= offset'
<1>1. ControlTypeOK /\ offset \in Nat /\ sent \in Nat /\ received \in Nat /\ received <= sent
  BY ControlTypes DEF CInv
<1>2. CASE UNCHANGED control
  <2>1. UNCHANGED <<sent, received, offset, executed, chunks>>
    BY <1>2 DEF control
  <2>2. ControlTypeOK' /\ WholeLines' /\ Cut' /\ Taken' /\ Ended' /\ InTurn'
    BY <2>1 DEF CInv, ControlTypeOK, WholeLines, Cut, Taken, Ended, InTurn
  <2>3. Settled'
    BY <2>1 DEF CInv, Settled, Intact, IsExecuted
  <2> QED
    BY <1>1, <2>1, <2>2, <2>3 DEF CInv
<1>3. CASE ClientSends
  <2>1. offset' = offset
    BY <1>3 DEF ClientSends
  <2> QED
    BY <1>1, <1>3, <2>1, SendsKeeps
<1>4. CASE Recv /\ offset = received + 1
  BY <1>1, <1>4, RecvKeeps
<1>5. CASE ProgressLine
  <2>1. CInv' /\ \E k \in 1..Lines : offset < First(k) + LineLen /\ First(k + 1) <= offset'
    BY <1>5, ProgressKeeps
  <2>2. offset' \in Nat
    BY <2>1, ControlBounds
  <2>3. PICK k \in 1..Lines : offset < First(k) + LineLen /\ First(k + 1) <= offset'
    BY <2>1
  <2>4. k \in Nat \ {0}
    BY LineLength
  <2>5. First(k) \in Nat /\ First(k + 1) = First(k) + LineLen /\ LineLen \in Nat
    BY <2>4, FirstOfLine, LineLength
  <2> QED
    BY <1>1, <2>1, <2>2, <2>3, <2>5
<1>6. CASE NoMoreLines
  <2>1. /\ Ends = {} /\ received' = received /\ offset' = received + 1
        /\ UNCHANGED <<sent, executed, chunks>> /\ received \in received..sent
    BY <1>1, <1>6 DEF NoMoreLines
  <2> QED
    BY <2>1, PassesKeeps
<1>7. CASE Disconnect /\ offset = received + 1
  <2>1. /\ received' = sent /\ offset' = sent + 1
        /\ UNCHANGED <<sent, executed, chunks>> /\ sent \in received..sent
    BY <1>1, <1>7 DEF Disconnect
  <2> QED
    BY <1>7, <2>1, PassesKeeps
<1>8. \/ UNCHANGED control \/ ClientSends \/ ProgressLine \/ NoMoreLines
      \/ Recv /\ offset = received + 1
      \/ Disconnect /\ offset = received + 1
  <2>1. thread \notin SayPlaces \cup LinePlaces => offset = received + 1
    BY DEF IInv, Rests
  <2>2. CASE ThreadStep
    <3>1. CASE ThreadTop \/ ThreadInit \/ ThreadCheck \/ LoopFails \/ LoopTimesOut
               \/ SayLock \/ SayCount \/ SayRealloc \/ SayStore \/ SayAtOnce \/ NdsInit
               \/ LoopTransfers
      BY <3>1 DEF ThreadTop, ThreadInit, ThreadCheck, LoopFails, LoopTimesOut,
                  LoopTransfers, SayLock, SayCount, SayRealloc, SayStore, SayAtOnce, NdsInit
    <3>2. CASE LoopReads
      BY <2>1, <3>2 DEF LoopReads, SayPlaces, LinePlaces
    <3>3. CASE LoopLine \/ LoopReturns
      BY <3>3 DEF LoopLine, LoopReturns
    <3>4. CASE ThreadExit
      BY <2>1, <3>4 DEF ThreadExit, FtpsrvExit, SayPlaces, LinePlaces
    <3>5. CASE NdsStatus
      BY <2>1, <3>5 DEF NdsStatus, FtpsrvExit, SayPlaces, LinePlaces
    <3>6. CASE NdsKeys
      BY <2>1, <3>6 DEF NdsKeys, FtpsrvExit, SayPlaces, LinePlaces
    <3> QED
      BY <2>2, <3>1, <3>2, <3>3, <3>4, <3>5, <3>6 DEF ThreadStep
  <2>3. CASE MainStep
    BY <2>3 DEF MainStep, MainTurn, ProcessLock, ProcessEvent, ProcessReset, ProcessFree,
                MainLeaves
  <2>4. CASE NetChanges
    BY <2>4 DEF NetChanges
  <2>5. CASE ClientTalks
    BY <2>5 DEF ClientTalks
  <2>6. CASE Over \/ UNCHANGED vars
    BY <2>6 DEF Over, vars
  <2>7. CASE ClientStep
    BY <2>7 DEF ClientStep, ReplyTaken, DataMoves
  <2> QED
    BY <2>2, <2>3, <2>4, <2>5, <2>6, <2>7 DEF Next
<1> QED
  BY <1>2, <1>3, <1>4, <1>5, <1>6, <1>7, <1>8

(* However the stream of commands is cut into what recv() brings: of the     *)
(* lines that came in one piece each is executed, once, in its turn.         *)
THEOREM CommandsAreLines == Spec => []LinesExecuted
<1>1. Init => IInv /\ CInv
  BY InitHolds, ControlBegins
<1>2. IInv /\ CInv /\ [Next]_vars => (IInv /\ CInv)'
  <2>1. IInv /\ [Next]_vars => IInv'
    BY LoopKeeps, NdsKeeps, SayKeeps, MainKeeps, WorldKeeps
       DEF Next, ThreadStep, Over
  <2> QED
    BY <2>1, ControlKeeps
<1>3. CInv => LinesExecuted
  <2> SUFFICES ASSUME CInv PROVE LinesExecuted
    OBVIOUS
  <2>1. \A k \in 1..Lines :
            First(k) + LineLen - 1 < offset =>
                (Intact(k) <=> \E i \in DOMAIN executed : executed[i] = Whole(k))
    BY DEF CInv, Settled, IsExecuted
  <2>2. \A i \in DOMAIN executed :
            \E k \in 1..Lines :
                /\ executed[i][1] \in First(k)..executed[i][2]
                /\ executed[i][2] = First(k) + TextLen - 1
    BY DEF CInv, Ended
  <2>3. \A i \in 1..(Len(executed) - 1) : executed[i][2] < executed[i + 1][1]
    BY DEF CInv, InTurn
  <2> QED
    BY <2>1, <2>2, <2>3 DEF LinesExecuted
<1> QED
  BY <1>1, <1>2, <1>3, PTL DEF Spec

-----------------------------------------------------------------------------
(* The rest of the types: where everybody is, and how much there is.         *)
Places ==
    /\ port \in Ports /\ net \in BOOLEAN
    /\ server \in {"off", "listening", "unbound", "deaf"}
    /\ inited \in BOOLEAN /\ hasNet \in BOOLEAN
    /\ thread \in {"turn", "keys", "poll",
                   "top", "init", "check", "loop", "lines", "exit", "done",
                   "grow", "realloc", "store", "reply", "data"}
    /\ say \in 0..2
    /\ main \in {"none", "turn", "events", "show", "free", "join", "gone"}
    /\ exiting \in BOOLEAN
    /\ mutex \in {"free", "server", "main"}

Amounts ==
    /\ index \in 0..MaxSaid
    /\ events \in 0..MaxSaid /\ data \in Seq(0..MaxSaid)
    /\ shown \in Seq(0..MaxSaid) /\ said \in 0..MaxSaid
    /\ written \in 0..MaxSaid /\ kept \in 0..LogBuf

LEMMA TypesAreParts == TypeOK <=> ControlTypeOK /\ Places /\ Amounts
BY DEF TypeOK, Places, Amounts

LEMMA Bound == MaxSaid \in Nat /\ MaxSaid = 2 * Lines /\ 0 \in 0..MaxSaid
BY LineLength DEF MaxSaid

LEMMA InvBegins == Init => Inv
<1> SUFFICES ASSUME Init PROVE Inv
  OBVIOUS
<1>1. IInv /\ CInv
  BY InitHolds, ControlBegins
<1>2. Places
  <2>1. thread \in {"turn", "top"} /\ main \in {"turn", "none"}
    BY DEF Init
  <2>2. port \in Ports /\ net \in BOOLEAN /\ server = "off" /\ inited = FALSE /\ hasNet = FALSE
        /\ say = 0 /\ exiting = FALSE /\ mutex = "free"
    BY DEF Init
  <2>3. net \in BOOLEAN /\ inited \in BOOLEAN /\ hasNet \in BOOLEAN /\ exiting \in BOOLEAN
    BY <2>2, Zenon
  <2>4. /\ server \in {"off", "listening", "unbound", "deaf"} /\ say \in 0..2
        /\ mutex \in {"free", "server", "main"}
        /\ thread \in {"turn", "keys", "poll",
                       "top", "init", "check", "loop", "lines", "exit", "done",
                       "grow", "realloc", "store", "reply", "data"}
        /\ main \in {"none", "turn", "events", "show", "free", "join", "gone"}
    BY <2>1, <2>2
  <2> QED
    BY <2>2, <2>3, <2>4, Zenon DEF Places
<1>3. Amounts
  <2>1. index = 0 /\ events = 0 /\ data = <<>> /\ shown = <<>> /\ said = 0 /\ written = 0
        /\ kept = 0
    BY DEF Init
  <2>2. 0 \in 0..LogBuf
    BY FrontendAssumption
  <2> QED
    BY <2>1, <2>2, Bound DEF Amounts
<1>4. Counted
  <2>1. First(0 + 1) <= offset
    <3>1. First(1) = LineLen * (1 - 1) + 1 /\ LineLen \in Nat
      BY FirstOfLine, LineLength
    <3>2. offset = 1
      BY DEF Init, ControlInit
    <3> QED
      BY <3>1, <3>2
  <2>2. said + say <= 2 * 0 /\ 0 \in 0..Lines
    BY LineLength DEF Init
  <2> QED
    BY <2>1, <2>2 DEF Counted
<1>5. Logged /\ Saying
  BY DEF Init, Logged, Saying, SayPlaces
<1> QED
  BY <1>1, <1>2, <1>3, <1>4, <1>5, TypesAreParts DEF Inv, CInv

LEMMA PlacesKeep ==
    ASSUME Inv, [Next]_vars
    PROVE  Places'
<1>1. Places /\ TypeOK
  BY TypesAreParts DEF Inv
<1>2. CASE ThreadTop \/ ThreadInit \/ ThreadCheck \/ ThreadExit
  <2>1. CASE ThreadTop \/ ThreadCheck
    BY <1>1, <2>1 DEF Places, ThreadTop, ThreadCheck, life, queue
  <2>2. CASE ThreadInit
    BY <1>1, <2>2 DEF Places, ThreadInit, FtpsrvInit, queue
  <2>3. CASE ThreadExit
    BY <1>1, <2>3 DEF Places, ThreadExit, FtpsrvExit, queue
  <2> QED
    BY <1>2, <2>1, <2>2, <2>3
<1>3. CASE LoopFails \/ LoopTimesOut \/ LoopReads \/ LoopLine \/ LoopReturns
           \/ LoopTransfers \/ ClientStep
  BY <1>1, <1>3 DEF Places, LoopFails, LoopTimesOut, LoopReads, LoopLine, LoopReturns,
                    LoopTransfers, ClientStep, ReplyTaken, DataMoves, AfterLoop, life, queue
<1>4. CASE SayLock \/ SayCount \/ SayRealloc
  BY <1>1, <1>4 DEF Places, SayLock, SayLocked, SayCount, SayRealloc, life
<1>5. CASE SayStore
  <2>1. say > 0
    BY <1>5 DEF Inv, Saying, SayPlaces, SayStore
  <2>2. say' = say - 1 /\ say \in 0..2
    BY <1>1, <1>5 DEF SayStore, Places
  <2>3. say' \in 0..2
    BY <2>1, <2>2
  <2> QED
    BY <1>1, <1>5, <2>3 DEF Places, SayStore, AfterSaying, life
<1>6. CASE SayAtOnce
  <2>1. say' = say - 1 /\ say \in 0..2 /\ say > 0
    BY <1>1, <1>6 DEF SayAtOnce, Places
  <2>2. say' \in 0..2
    BY <2>1
  <2> QED
    BY <1>1, <1>6, <2>2 DEF Places, SayAtOnce, AfterSaying, life, queue
<1>7. CASE NdsStatus \/ NdsKeys \/ NdsInit
  <2>1. CASE NdsStatus
    BY <1>1, <2>1 DEF Places, NdsStatus, FtpsrvExit, queue
  <2>2. CASE NdsKeys
    BY <1>1, <2>2 DEF Places, NdsKeys, FtpsrvExit, queue
  <2>3. CASE NdsInit
    BY <1>1, <2>3 DEF Places, NdsInit, FtpsrvInit, queue
  <2> QED
    BY <1>7, <2>1, <2>2, <2>3
<1>8. CASE MainStep
  <2>1. CASE MainTurn \/ ProcessLock
    BY <1>1, <2>1 DEF Places, MainTurn, ProcessLock, life, queue
  <2>2. CASE ProcessEvent \/ ProcessReset \/ ProcessFree \/ MainLeaves
    BY <1>1, <2>2 DEF Places, ProcessEvent, ProcessReset, ProcessFree, MainLeaves, life, queue
  <2> QED
    BY <1>8, <2>1, <2>2 DEF MainStep
<1>9. CASE NetChanges \/ ClientTalks \/ Over \/ UNCHANGED vars
  <2>1. UNCHANGED <<port, server, inited, hasNet, thread, say, main, exiting, mutex>>
    BY <1>9 DEF NetChanges, ClientTalks, Over, vars, life, queue
  <2>2. net' \in BOOLEAN
    <3>1. net' = net \/ net' = ~net
      BY <1>9 DEF NetChanges, ClientTalks, Over, vars
    <3> QED
      BY <1>1, <3>1 DEF Places
  <2> QED
    BY <1>1, <2>1, <2>2 DEF Places
<1> QED
  BY <1>2, <1>3, <1>4, <1>5, <1>6, <1>7, <1>8, <1>9 DEF Next, ThreadStep

(* What is counted, and what has something to say.                           *)
LEMMA CountedKeeps ==
    ASSUME Inv, [Next]_vars
    PROVE  Counted' /\ Saying'
<1>1. offset \in Nat /\ offset' \in Nat /\ offset <= offset' /\ Lines \in Nat
  <2>1. CInv' /\ offset <= offset' /\ CInv
    BY ControlKeeps DEF Inv
  <2> QED
    BY <2>1, OffsetType, ControlBounds, LineLength
<1>2. say \in Nat /\ said \in Nat
  BY DEF Inv, TypeOK, IInv, Types
<1>3. PICK m \in 0..Lines : First(m + 1) <= offset /\ said + say <= 2 * m
  BY DEF Inv, Counted
<1>4. m \in Nat /\ m + 1 \in Nat \ {0} /\ First(m + 1) \in Nat
  <2>1. m \in Nat /\ m + 1 \in Nat \ {0}
    BY <1>1
  <2> QED
    BY <2>1, FirstOfLine
<1>5. First(m + 1) <= offset'
  BY <1>1, <1>3, <1>4
<1>6. ASSUME said' + say' = said + say
      PROVE  Counted'
  BY <1>3, <1>5, <1>6 DEF Counted
<1>7. ASSUME NEW a \in Nat, said' + say' = a, a <= said + say
      PROVE  Counted'
  <2>1. a <= 2 * m
    BY <1>2, <1>3, <1>4, <1>7
  <2> QED
    BY <1>5, <1>7, <2>1 DEF Counted
<1>8. CASE LoopLine
  <2>1. say = 0 /\ say' \in {1, 2} /\ said' = said /\ thread' = "lines" /\ ProgressLine
    BY <1>8 DEF LoopLine
  <2>2. PICK k \in 1..Lines : offset < First(k) + LineLen /\ First(k + 1) <= offset'
    BY <2>1, ProgressKeeps DEF Inv
  <2>3. k \in Nat \ {0} /\ First(k) \in Nat /\ LineLen \in Nat
    <3>1. k \in Nat \ {0}
      BY LineLength
    <3> QED
      BY <3>1, FirstOfLine, LineLength
  <2>4. First(m + 1) < First(k) + LineLen
    BY <1>1, <1>3, <1>4, <2>2, <2>3
  <2>5. m + 1 <= k
    BY <1>4, <2>3, <2>4, LinesInOrder
  <2>6. said' + say' <= 2 * k
    <3>1. said <= 2 * m
      BY <1>2, <1>3, <1>4, <2>1
    <3>2. said + 2 <= 2 * k
      BY <1>2, <1>4, <2>3, <2>5, <3>1
    <3>3. k \in Nat /\ (say' = 1 \/ say' = 2) /\ said' + say' = said + say'
      BY <2>1, <2>3
    <3>4. CASE say' = 1
      BY <1>2, <3>2, <3>3, <3>4
    <3>5. CASE say' = 2
      BY <1>2, <3>2, <3>3, <3>5
    <3> QED
      BY <3>3, <3>4, <3>5
  <2>7. k \in 0..Lines
    BY <1>1
  <2>8. Counted'
    BY <2>2, <2>6, <2>7 DEF Counted
  <2>9. Saying'
    BY <2>1 DEF Saying, SayPlaces
  <2> QED
    BY <2>8, <2>9
<1>9. CASE SayStore
  <2>1. say > 0 /\ say' = say - 1 /\ said' = said + 1 /\ thread' \notin SayPlaces
    BY <1>9 DEF SayStore, AfterSaying, Inv, Saying, SayPlaces
  <2>2. said' + say' = said + say
    BY <1>2, <2>1
  <2> QED
    BY <1>6, <2>1, <2>2 DEF Saying, SayPlaces
<1>10. CASE SayAtOnce
  <2>1. say > 0 /\ say' = say - 1 /\ said' = said /\ thread' \notin SayPlaces
    BY <1>10 DEF SayAtOnce, AfterSaying, SayPlaces
  <2>2. said' + say' = said + say - 1 /\ said + say - 1 \in Nat
        /\ said + say - 1 <= said + say
    BY <1>2, <2>1
  <2> QED
    BY <1>7, <2>1, <2>2 DEF Saying, SayPlaces
<1>11. CASE SayLock
  <2>1. say > 0 /\ say' = say /\ said' = said
    BY <1>11 DEF SayLock, SayLocked
  <2> QED
    BY <1>6, <2>1 DEF Saying
<1>12. CASE SayCount \/ SayRealloc
  <2>1. thread \in SayPlaces /\ say' = say /\ said' = said
    BY <1>12 DEF SayCount, SayRealloc, SayPlaces
  <2> QED
    BY <1>6, <2>1 DEF Saying, Inv
<1>13. CASE ThreadTop \/ ThreadInit \/ ThreadCheck \/ ThreadExit \/ LoopFails
            \/ LoopTimesOut \/ LoopReads \/ LoopReturns \/ NdsStatus \/ NdsKeys \/ NdsInit
            \/ LoopTransfers \/ ClientStep
  <2>1. say' = say /\ said' = said
    BY <1>13 DEF ThreadTop, ThreadInit, ThreadCheck, ThreadExit, LoopFails, LoopTimesOut,
                 LoopReads, LoopReturns, NdsStatus, NdsKeys, NdsInit, LoopTransfers, ClientStep,
                 ReplyTaken, DataMoves
  <2>2. thread' \notin SayPlaces
    BY <1>13 DEF ThreadTop, ThreadInit, ThreadCheck, ThreadExit, LoopFails, LoopTimesOut,
                 LoopReads, LoopReturns, NdsStatus, NdsKeys, NdsInit, LoopTransfers, ClientStep,
                 ReplyTaken, DataMoves, AfterLoop, SayPlaces
  <2> QED
    BY <1>6, <2>1, <2>2 DEF Saying
<1>14. CASE MainStep \/ NetChanges \/ ClientTalks \/ Over \/ UNCHANGED vars
  <2>1. say' = say /\ said' = said /\ thread' = thread
    BY <1>14 DEF MainStep, MainTurn, ProcessLock, ProcessEvent, ProcessReset, ProcessFree,
                 MainLeaves, NetChanges, ClientTalks, Over, vars
  <2> QED
    BY <1>6, <2>1 DEF Saying, Inv
<1> QED
  BY <1>8, <1>9, <1>10, <1>11, <1>12, <1>13, <1>14 DEF Next, ThreadStep

(* What the log file and its handle's buffer have, and how much there is of  *)
(* everything.                                                               *)
LEMMA AmountsKeep ==
    ASSUME Inv, [Next]_vars
    PROVE  Amounts' /\ Logged'
<1>1. Amounts /\ Logged /\ Places
  BY TypesAreParts DEF Inv
<1>2. MaxSaid \in Nat /\ LogBuf \in Nat /\ LogBuf > 0
  BY Bound, FrontendAssumption
<1>3. /\ index \in Nat /\ events \in Nat /\ said \in Nat /\ written \in Nat /\ kept \in Nat
      /\ index <= MaxSaid /\ events <= MaxSaid /\ said <= MaxSaid /\ written <= MaxSaid
      /\ kept <= LogBuf /\ say \in Nat /\ Len(shown) \in Nat
      /\ data \in Seq(0..MaxSaid) /\ shown \in Seq(0..MaxSaid)
  <2>1. Len(shown) \in Nat
    BY <1>1 DEF Amounts
  <2> QED
    BY <1>1, <1>2, <2>1 DEF Amounts, Places
<1>4. said + say <= MaxSaid
  <2>1. PICK m \in 0..Lines : said + say <= 2 * m
    BY DEF Inv, Counted
  <2>2. m \in Nat /\ m <= Lines /\ Lines \in Nat /\ MaxSaid = 2 * Lines
    BY Bound, LineLength
  <2> QED
    BY <1>3, <2>1, <2>2
<1>5. ASSUME UNCHANGED <<port, index, events, data, shown, said, written, kept>>
      PROVE  Amounts' /\ Logged'
  BY <1>1, <1>5 DEF Amounts, Logged
<1>6. CASE SayCount
  <2>1. /\ events' = events + 1 /\ thread = "grow"
        /\ UNCHANGED <<port, index, data, shown, said, written, kept>>
    BY <1>6 DEF SayCount, log
  <2>2. Len(shown) + events = said /\ say > 0
    BY <2>1 DEF Inv, IInv, Queue, Filled, Saying, SayPlaces
  <2>3. events' \in 0..MaxSaid
    BY <1>2, <1>3, <1>4, <2>1, <2>2
  <2> QED
    BY <1>1, <2>1, <2>3 DEF Amounts, Logged
<1>7. CASE SayRealloc
  <2>1. /\ data' = [i \in 1..events |-> IF i \in DOMAIN data THEN data[i] ELSE 0]
        /\ UNCHANGED <<port, index, events, shown, said, written, kept>>
    BY <1>7 DEF SayRealloc, log
  <2>2. data' \in Seq(0..MaxSaid)
    <3> DEFINE B == 0..MaxSaid
    <3>1. data \in Seq(B) /\ 0 \in B
      BY <1>3, Bound
    <3> HIDE DEF B
    <3>2. \A i \in DOMAIN data : data[i] \in B
      BY <3>1
    <3>3. data' \in [1..events -> B]
      BY <2>1, <3>1, <3>2
    <3>4. data' \in Seq(B)
      BY <1>3, <3>3
    <3> QED
      BY <3>4 DEF B
  <2> QED
    BY <1>1, <2>1, <2>2 DEF Amounts, Logged
<1>8. CASE SayStore
  <2>1. /\ said' = said + 1 /\ say > 0
        /\ data' = IF events \in DOMAIN data THEN [data EXCEPT ![events] = said'] ELSE data
        /\ UNCHANGED <<port, index, events, shown, written, kept>>
    BY <1>8 DEF SayStore, log, Inv, Saying, SayPlaces
  <2>2. said' \in 0..MaxSaid
    BY <1>2, <1>3, <1>4, <2>1
  <2>3. data' \in Seq(0..MaxSaid)
    <3> DEFINE s == said'
               B == 0..MaxSaid
    <3>1. s \in B /\ data \in Seq(B)
          /\ data' = IF events \in DOMAIN data THEN [data EXCEPT ![events] = s] ELSE data
      BY <1>3, <2>1, <2>2
    <3> HIDE DEF s, B
    <3>2. data' \in Seq(B)
      BY <3>1
    <3> QED
      BY <3>2 DEF B
  <2> QED
    BY <1>1, <2>1, <2>2, <2>3 DEF Amounts, Logged
<1>9. CASE ProcessLock
  <2>1. index' = 0 /\ UNCHANGED <<port, events, data, shown, said, written, kept>>
    BY <1>9 DEF ProcessLock, log
  <2> QED
    BY <1>1, <2>1, Bound DEF Amounts, Logged
<1>10. CASE ProcessEvent
  <2>1. /\ main = "show" /\ index < events /\ index' = index + 1
        /\ shown' = Append(shown, IF index + 1 \in DOMAIN data THEN data[index + 1] ELSE 0)
        /\ LogFileWrite
        /\ UNCHANGED <<port, events, data, said>>
    BY <1>10 DEF ProcessEvent, queue
  <2>2. index <= Len(shown) /\ Len(shown) - index + events = said
    BY <2>1 DEF Inv, IInv, Queue, Filled
  <2>3. index' \in 0..MaxSaid
    BY <1>2, <1>3, <2>1
  <2>4. Len(shown) + 1 <= said
    BY <1>3, <2>1, <2>2
  <2>5. shown' \in Seq(0..MaxSaid) /\ Len(shown') = Len(shown) + 1
    <3> DEFINE B == 0..MaxSaid
               x == IF index + 1 \in DOMAIN data THEN data[index + 1] ELSE 0
    <3>1. data \in Seq(B) /\ 0 \in B /\ shown \in Seq(B) /\ shown' = Append(shown, x)
      BY <1>3, <2>1, Bound
    <3> HIDE DEF B
    <3>2. x \in B
      BY <3>1
    <3> HIDE DEF x
    <3>3. shown' \in Seq(B) /\ Len(shown') = Len(shown) + 1
      BY <3>1, <3>2
    <3> QED
      BY <3>3 DEF B
  <2>6. written' \in 0..MaxSaid /\ kept' \in 0..LogBuf /\ Logged'
    <3>1. CASE port = "nx"
      <4>1. /\ written' = IF kept = LogBuf THEN written + kept ELSE written
            /\ kept' = IF kept = LogBuf THEN 1 ELSE kept + 1
            /\ written + kept = Len(shown)
        BY <1>1, <2>1, <3>1 DEF LogFileWrite, Logged
      <4>2. written' + kept' = Len(shown) + 1 /\ written' \in 0..MaxSaid /\ kept' \in 0..LogBuf
        <5> DEFINE n == Len(shown)
        <5>1. n \in Nat /\ n + 1 <= MaxSaid /\ written + kept = n
          BY <1>2, <1>3, <2>4, <4>1
        <5> HIDE DEF n
        <5>2. CASE kept = LogBuf
          <6>1. written' = written + kept /\ kept' = 1
            BY <4>1, <5>2
          <6> QED
            BY ONLY <1>2, <1>3, <5>1, <6>1 DEF n
        <5>3. CASE kept # LogBuf
          <6>1. written' = written /\ kept' = kept + 1 /\ kept + 1 <= LogBuf
            BY <1>2, <1>3, <4>1, <5>3
          <6> QED
            BY ONLY <1>2, <1>3, <5>1, <6>1 DEF n
        <5> QED
          BY <5>2, <5>3
      <4> QED
        BY <2>1, <2>5, <3>1, <4>2 DEF Logged
    <3>2. CASE port # "nx"
      <4>1. written' = written + 1 /\ kept' = kept /\ written = Len(shown) /\ kept = 0
        BY <1>1, <2>1, <3>2 DEF LogFileWrite, Logged
      <4>2. written' \in 0..MaxSaid /\ kept' \in 0..LogBuf
        BY <1>2, <1>3, <2>4, <4>1
      <4> QED
        BY <2>1, <2>5, <3>2, <4>1, <4>2 DEF Logged
    <3> QED
      BY <3>1, <3>2
  <2> QED
    BY <1>1, <2>1, <2>3, <2>5, <2>6 DEF Amounts
<1>11. CASE ProcessReset
  <2>1. events' = 0 /\ UNCHANGED <<port, index, data, shown, said, written, kept>>
    BY <1>11 DEF ProcessReset, log
  <2> QED
    BY <1>1, <2>1, Bound DEF Amounts, Logged
<1>12. CASE ProcessFree \/ MainLeaves
  <2>1. data' = <<>> /\ UNCHANGED <<port, index, events, shown, said, written, kept>>
    BY <1>12 DEF ProcessFree, MainLeaves, log
  <2>2. data' \in Seq(0..MaxSaid)
    BY <2>1
  <2> QED
    BY <1>1, <2>1, <2>2 DEF Amounts, Logged
<1>13. CASE ThreadTop \/ ThreadInit \/ ThreadCheck \/ ThreadExit \/ LoopFails
            \/ LoopTimesOut \/ LoopReads \/ LoopLine \/ LoopReturns
            \/ LoopTransfers \/ ClientStep \/ NdsStatus \/ NdsKeys \/ NdsInit
  BY <1>5, <1>13
     DEF ThreadTop, ThreadInit, ThreadCheck, ThreadExit, LoopFails, LoopTimesOut,
         LoopReads, LoopLine, LoopReturns, LoopTransfers, ClientStep, ReplyTaken, DataMoves,
         NdsStatus, NdsKeys, NdsInit, queue, log
<1>14. CASE SayLock \/ SayAtOnce \/ MainTurn \/ NetChanges \/ ClientTalks \/ Over
            \/ UNCHANGED vars
  BY <1>5, <1>14
     DEF SayLock, SayAtOnce, MainTurn, NetChanges, ClientTalks, Over, vars, queue, log
<1> QED
  BY <1>6, <1>7, <1>8, <1>9, <1>10, <1>11, <1>12, <1>13, <1>14
     DEF Next, ThreadStep, MainStep

(* The types of the programs: nobody says more than two messages of a line,  *)
(* so that the queue, what was shown and the log file have no more.          *)
THEOREM FrontendTypes == Spec => []TypeOK
<1>1. Inv /\ [Next]_vars => Inv'
  <2> SUFFICES ASSUME Inv, [Next]_vars PROVE Inv'
    OBVIOUS
  <2>1. IInv'
    BY LoopKeeps, NdsKeeps, SayKeeps, MainKeeps, WorldKeeps DEF Inv, Next, ThreadStep, Over
  <2>2. CInv'
    BY ControlKeeps DEF Inv
  <2>3. Places' /\ Amounts' /\ Logged' /\ Counted' /\ Saying'
    BY PlacesKeep, AmountsKeep, CountedKeeps
  <2>4. TypeOK'
    <3>1. ControlTypeOK'
      BY <2>2 DEF CInv
    <3> QED
      BY <2>3, <3>1 DEF TypeOK, Places, Amounts
  <2> QED
    BY <2>1, <2>2, <2>3, <2>4 DEF Inv
<1>2. Inv => TypeOK
  BY DEF Inv
<1> QED
  BY <1>1, <1>2, InvBegins, PTL DEF Spec
=============================================================================
