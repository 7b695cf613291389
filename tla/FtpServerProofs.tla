-------------------------- MODULE FtpServerProofs --------------------------
(* Proofs about FtpServer, for every number of sessions and descriptors, any *)
(* command set and either kind of file handle: its type invariant, and that  *)
(* no session ever holds or closes a descriptor that is not its own.         *)
(*                                                                           *)
(* Handlers are compositions of a few helpers on a world, a session and the  *)
(* descriptor table. Each helper is shown once to reach a good world from a  *)
(* good one (Reaches); that relation is transitive, so a handler is a chain  *)
(* of such facts, and one lemma (CommitKeeps) carries the end of the chain   *)
(* back to the state.                                                        *)
EXTENDS FtpServer, WellFoundedInduction, TLAPS

Worlds == [me : Slots, s : Session, t : [Fds -> Uses]]

(* What a session may do to a descriptor: open a free one, close its own.    *)
Mine(i) == {Free} \cup {Owner(i, r) : r \in Roles}

Good(w) ==
    /\ w \in Worlds
    /\ \A r \in Roles : w.s.fd[r] > 0 => w.t[w.s.fd[r]] = Owner(w.me, r)

Reaches(w, v) ==
    /\ Good(v)
    /\ v.me = w.me
    /\ \A f \in Fds \ {0} :
         v.t[f] = w.t[f] \/ (w.t[f] \in Mine(w.me) /\ v.t[f] \in Mine(w.me))

-----------------------------------------------------------------------------
(* Any set of naturals has a least member, so that LowestFree is defined.    *)
LEMMA LeastExists ==
    ASSUME NEW T, T \subseteq Nat, T # {}
    PROVE  \E x \in T : \A y \in T : x <= y
<1> DEFINE R == OpToRel(<, Nat)
<1>1. IsWellFoundedOn(R, Nat)
  BY NatLessThanWellFounded
<1>2. \A x, y \in Nat : x < y => <<x, y>> \in R
  BY DEF OpToRel
<1> HIDE DEF R
<1>3. PICK x \in T : \A y \in T : ~ (<<y, x>> \in R)
  BY <1>1, WFMin
<1>4. ASSUME NEW y \in T PROVE ~(y < x)
  BY <1>2, <1>3, Zenon
<1>5. ASSUME NEW y \in T PROVE x <= y
  BY <1>4
<1>. QED BY <1>5

(* LowestFree finds a free descriptor if there is one.                       *)
LEMMA LowestFreeIsFree ==
    ASSUME NEW t, \E f \in Fds : t[f] = Free
    PROVE  LowestFree(t) \in Fds /\ t[LowestFree(t)] = Free
<1> DEFINE T == {f \in Fds : t[f] = Free}
<1>1. T \subseteq Nat /\ T # {}
  BY DEF Fds
<1>2. PICK x \in T : \A y \in T : x <= y
  BY <1>1, LeastExists
<1>3. \A g \in 0..(x - 1) : t[g] # Free
  BY <1>2, BoundsAssumption DEF Fds
<1>4. \E f \in Fds : t[f] = Free /\ \A g \in 0..(f - 1) : t[g] # Free
  BY <1>2, <1>3
<1>. QED BY <1>4 DEF LowestFree

(* Helpers can be chained.                                                   *)
LEMMA ReachesTransitive ==
    ASSUME NEW u, NEW v, NEW w, Reaches(u, v), Reaches(v, w)
    PROVE  Reaches(u, w)
  BY DEF Reaches

(* A handler that touches no descriptor reaches where it is.                 *)
LEMMA ReachesReflexive ==
    ASSUME NEW w, Good(w)
    PROVE  Reaches(w, w)
  BY DEF Reaches

(* Opening a descriptor, in any role, whether the role already had one or    *)
(* not, reaches a good world.                                                *)
LEMMA OpenReaches ==
    ASSUME NEW w, Good(w), NEW r \in Roles
    PROVE  Reaches(w, OpenFd(w, r))
<1> DEFINE f == LowestFree(w.t)
           v == OpenFd(w, r)
<1>1. CASE \E g \in Fds : w.t[g] = Free
  <2>1. f \in Fds /\ w.t[f] = Free
    BY <1>1, LowestFreeIsFree
  <2> HIDE DEF f
  <2>2. v = [me |-> w.me,
             s  |-> [w.s EXCEPT !.fd = [w.s.fd EXCEPT ![r] = f]],
             t  |-> [w.t EXCEPT ![f] = Owner(w.me, r)]]
    BY <1>1 DEF OpenFd, Good, Worlds, Session, f
  <2>3. v \in Worlds
    BY <2>1, <2>2 DEF Good, Worlds, Session, Uses, Owner
  <2>4. \A q \in Roles : v.s.fd[q] > 0 => v.t[v.s.fd[q]] = Owner(v.me, q)
    BY <2>1, <2>2 DEF Good, Worlds, Session, Owner, Free, Roles
  <2>5. QED BY <2>1, <2>2, <2>3, <2>4 DEF Reaches, Good, Mine, Worlds
<1>2. CASE ~ \E g \in Fds : w.t[g] = Free
  <2>1. v = [me |-> w.me,
             s  |-> [w.s EXCEPT !.fd = [w.s.fd EXCEPT ![r] = None]],
             t  |-> w.t]
    BY <1>2 DEF OpenFd, Good, Worlds, Session
  <2>2. v \in Worlds
    BY <2>1 DEF Good, Worlds, Session
  <2>3. QED BY <2>1, <2>2 DEF Reaches, Good, Worlds, Session, None
<1>3. QED BY <1>1, <1>2

(* A close frees the number of the session, and only that.                   *)
LEMMA CloseReaches ==
    ASSUME NEW w, Good(w), NEW r \in Roles, w.s.fd[r] \in Fds
    PROVE  Reaches(w, CloseFd(w, r))
<1> DEFINE f == w.s.fd[r]
           h == [w.s.fd EXCEPT ![r] = None]
           v == CloseFd(w, r)
<1>0. v = [w EXCEPT !.s.fd[r] = None, !.t[f] = Free] /\ f \in Fds
  BY DEF CloseFd
<1> HIDE DEF f, v
<1>1. v = [me |-> w.me,
           s  |-> [w.s EXCEPT !.fd = [w.s.fd EXCEPT ![r] = None]],
           t  |-> [w.t EXCEPT ![f] = Free]]
  BY <1>0 DEF Good, Worlds, Session
<1>2. h \in [Roles -> Fds \cup {None}] /\ v.s.fd = h
  BY <1>1 DEF Good, Worlds, Session
<1>3. v \in Worlds
  <2>1. v.s \in Session
    BY <1>1, <1>2 DEF Good, Worlds, Session
  <2>2. v.t \in [Fds -> Uses]
    BY <1>0, <1>1 DEF Good, Worlds, Uses
  <2>3. QED BY <1>1, <2>1, <2>2 DEF Good, Worlds
<1>4. ASSUME NEW q \in Roles, h[q] > 0
      PROVE  v.t[h[q]] = Owner(w.me, q)
  <2>1. q # r /\ h[q] = w.s.fd[q]
    BY <1>4 DEF Good, Worlds, Session, None
  <2>2. w.t[w.s.fd[q]] = Owner(w.me, q) /\ w.s.fd[q] \in Fds
    BY <1>4, <2>1 DEF Good, Worlds, Session, None
  <2>3. w.s.fd[q] # f
    <3>1. SUFFICES ASSUME w.s.fd[q] = w.s.fd[r] PROVE FALSE
      BY DEF f
    <3>2. w.s.fd[r] > 0
      BY <1>4, <2>1, <3>1
    <3>3. w.t[w.s.fd[r]] = Owner(w.me, r)
      BY <3>2 DEF Good
    <3>4. QED BY <2>1, <2>2, <3>1, <3>3 DEF Owner
  <2>4. QED BY <1>1, <2>1, <2>2, <2>3 DEF Good, Worlds
<1>5. \A g \in Fds \ {0} : v.t[g] # w.t[g] =>
                             w.t[g] = Owner(w.me, r) /\ v.t[g] = Free
  BY <1>0, <1>1 DEF Good, Worlds, Session, Fds, f
<1>6. v.me = w.me
  BY <1>1
<1> HIDE DEF h
<1>7. QED BY <1>2, <1>3, <1>4, <1>5, <1>6 DEF Reaches, Good, Mine, v

(* Changing the other fields of the session, but no handle, reaches a good   *)
(* world.                                                                    *)
LEMMA FieldsReach ==
    ASSUME NEW w, Good(w), NEW v, v = [me |-> w.me, s |-> v.s, t |-> w.t],
           v.s \in Session, v.s.fd = w.s.fd
    PROVE  Reaches(w, v)
  BY DEF Reaches, Good, Worlds, Session

(* So does forgetting a handle without closing it.                           *)
LEMMA ForgetReaches ==
    ASSUME NEW w, Good(w), NEW r \in Roles
    PROVE  Reaches(w, [w EXCEPT !.s.fd[r] = None])
<1> DEFINE v == [w EXCEPT !.s.fd[r] = None]
<1>1. v = [me |-> w.me,
           s  |-> [w.s EXCEPT !.fd = [w.s.fd EXCEPT ![r] = None]],
           t  |-> w.t]
  BY DEF Good, Worlds, Session
<1>2. v \in Worlds
  BY <1>1 DEF Good, Worlds, Session
<1>3. QED BY <1>1, <1>2 DEF Reaches, Good, Worlds, Session, None

-----------------------------------------------------------------------------
(* The helpers of the source.                                                *)
LEMMA CloseSocketReaches ==
    ASSUME NEW w, Good(w), NEW r \in Roles
    PROVE  Reaches(w, CloseSocket(w, r))
<1>1. w.s.fd[r] > 0 => w.s.fd[r] \in Fds
  BY DEF Good, Worlds, Session, None
<1>2. QED BY <1>1, CloseReaches, ReachesReflexive DEF CloseSocket

(* ftp_vfs_close, of an open or a closed handle.                             *)
LEMMA VfsCloseReaches ==
    ASSUME NEW w, Good(w)
    PROVE  Reaches(w, VfsClose(w))
<1>1. IsFileOpen(w) => w.s.fd["file"] \in Fds
  BY BoundsAssumption DEF IsFileOpen, Good, Worlds, Session, Roles, None, Fds
<1>2. QED BY <1>1, CloseReaches, ReachesReflexive DEF VfsClose, Roles

(* ftp_vfs_closedir.                                                         *)
LEMMA VfsCloseDirReaches ==
    ASSUME NEW w, Good(w)
    PROVE  Reaches(w, VfsCloseDir(w))
<1>1. w.s.fd["dir"] # None => w.s.fd["dir"] \in Fds
  BY DEF Good, Worlds, Session, Roles
<1>2. QED BY <1>1, CloseReaches, ReachesReflexive DEF VfsCloseDir, Roles

(* The three closes of ftp_data_transfer_end.                                *)
LEMMA CloseDataSocketsReaches ==
    ASSUME NEW w, Good(w)
    PROVE  Reaches(w, CloseDataSockets(w))
<1> DEFINE d == CloseSocket(w, "data")
<1>1. Reaches(w, d) /\ Good(d)
  BY CloseSocketReaches DEF Roles, Reaches
<1> HIDE DEF d
<1>2. Reaches(w, CloseSocket(d, "pasv"))
  BY <1>1, CloseSocketReaches, ReachesTransitive DEF Roles
<1>3. w.s.dc \in {"none", "active", "passive"}
  BY DEF Good, Worlds, Session
<1>4. QED BY <1>1, <1>2, <1>3, ReachesReflexive DEF CloseDataSockets, d

(* ftp_data_transfer_end touches only what belongs to its session, whatever  *)
(* state the session is in.                                                  *)
LEMMA TransferEndReaches ==
    ASSUME NEW w, Good(w)
    PROVE  Reaches(w, DataTransferEnd(w))
<1> DEFINE a == CloseDataSockets(w)
           b == VfsClose(a)
           c == VfsCloseDir(b)
<1>1. Reaches(w, a) /\ Good(a)
  BY CloseDataSocketsReaches DEF Reaches
<1>2. Reaches(a, b) /\ Good(b)
  BY <1>1, VfsCloseReaches DEF Reaches
<1>3. Reaches(b, c) /\ Good(c)
  BY <1>2, VfsCloseDirReaches DEF Reaches
<1>4. Reaches(w, c)
  BY <1>1, <1>2, <1>3, ReachesTransitive
<1> HIDE DEF a, b, c
<1>5. DataTransferEnd(w) =
        [c EXCEPT !.s.temp = "empty", !.s.off = 0, !.s.size = 0,
                  !.s.mode = "none", !.s.dc = "none"]
  BY DEF DataTransferEnd, a, b, c
<1>6. Reaches(c, DataTransferEnd(w))
  <2> DEFINE x == [c.s EXCEPT !.temp = "empty", !.off = 0, !.size = 0,
                              !.mode = "none", !.dc = "none"]
             v == DataTransferEnd(w)
  <2>1. c \in Worlds /\ c.s \in Session
    BY <1>3 DEF Good, Worlds
  <2>2. x \in Session
    <3>1. 0 \in 0..MaxLen
      BY BoundsAssumption
    <3>2. QED BY <2>1, <3>1 DEF Session
  <2>3. x.fd = c.s.fd
    BY <2>1 DEF Session
  <2>4. v = [me |-> c.me, s |-> x, t |-> c.t]
    BY <1>5, <2>1 DEF Worlds
  <2> HIDE DEF v, x
  <2>5. v.s = x /\ v = [me |-> c.me, s |-> v.s, t |-> c.t]
    BY <2>4
  <2>6. QED BY <1>3, <2>2, <2>3, <2>5, FieldsReach DEF v
<1>7. QED BY <1>4, <1>6, ReachesTransitive

-----------------------------------------------------------------------------
(* The inductive invariant: types, ownership, and what the two positions     *)
(* that count on an earlier step count on.                                   *)
AcceptPending == rev.accept => at = "accept" /\ backlog > 0

Transfers == {"retr", "stor", "list", "nlst"}

OpeningPending == at = "opening" => lines > 0 /\ opener \in Transfers

IInv == TypeOK /\ DescriptorsOwned /\ AcceptPending /\ OpeningPending

(* What a handler starts from.                                               *)
LEMMA WorldIsGood ==
    ASSUME IInv, NEW i \in Slots
    PROVE  Good(World(i))
<1>1. sess[i] \in Session /\ fdt \in [Fds -> Uses]
  BY DEF IInv, TypeOK
<1>2. QED BY <1>1 DEF IInv, DescriptorsOwned, Good, World, Worlds

(* What a session owns names its slot.                                       *)
LEMMA MineIs ==
    ASSUME NEW i \in Slots, NEW u \in Mine(i)
    PROVE  u = Free \/ (u.slot = i /\ u.slot # 0)
<1>1. CASE u = Free
  BY <1>1
<1>2. CASE \E r \in Roles : u = Owner(i, r)
  BY <1>2 DEF Owner, Slots
<1>3. QED BY <1>1, <1>2 DEF Mine

(* Writing back a world reached from that of session i keeps the types and   *)
(* the ownership of every session.                                           *)
LEMMA CommitKeeps ==
    ASSUME IInv, NEW i \in Slots, NEW v, Reaches(World(i), v),
           Commit(v), server' = server
    PROVE  /\ sess' \in [Slots -> Session]
           /\ fdt' \in [Fds -> Uses]
           /\ DescriptorsOwned'
<1>1. v.me = i /\ v.s \in Session /\ v.t \in [Fds -> Uses]
  BY DEF Reaches, Good, Worlds, World
<1>2. sess' = [sess EXCEPT ![i] = v.s] /\ fdt' = v.t
  BY <1>1 DEF Commit
<1>3. sess \in [Slots -> Session] /\ fdt \in [Fds -> Uses]
      /\ server \in Fds \cup {None}
  BY DEF IInv, TypeOK
<1>4. sess' \in [Slots -> Session] /\ fdt' \in [Fds -> Uses]
  BY <1>1, <1>2, <1>3
<1>5. ASSUME NEW f \in Fds \ {0}, fdt[f] \notin Mine(i)
      PROVE  fdt'[f] = fdt[f]
  BY <1>2, <1>5 DEF Reaches, World
<1>6. server' > 0 => fdt'[server'] = Listener
  <2>1. SUFFICES ASSUME server > 0 PROVE fdt'[server] = Listener
    OBVIOUS
  <2>2. server \in Fds \ {0} /\ fdt[server] = Listener
    BY <1>3, <2>1 DEF IInv, DescriptorsOwned, None
  <2>3. fdt[server] \notin Mine(i)
    BY <2>2, MineIs DEF Listener, Free
  <2>4. QED BY <1>5, <2>2, <2>3
<1>7. ASSUME NEW j \in Slots, NEW r \in Roles, sess'[j].fd[r] > 0
      PROVE  fdt'[sess'[j].fd[r]] = Owner(j, r)
  <2>1. CASE j = i
    BY <1>1, <1>2, <1>3, <1>7, <2>1 DEF Reaches, Good
  <2>2. CASE j # i
    <3>1. sess'[j] = sess[j] /\ sess[j] \in Session
      BY <1>2, <1>3, <2>2
    <3>2. fdt[sess[j].fd[r]] = Owner(j, r)
      BY <1>7, <3>1 DEF IInv, DescriptorsOwned
    <3>3. sess[j].fd[r] \in Fds \ {0}
      BY <1>7, <3>1 DEF Session, None
    <3>4. fdt[sess[j].fd[r]] \notin Mine(i)
      <4>1. fdt[sess[j].fd[r]].slot = j /\ j # 0
        BY <3>2 DEF Owner, Slots
      <4>2. QED BY <2>2, <4>1, MineIs DEF Free
    <3>5. QED BY <1>5, <3>1, <3>2, <3>3, <3>4
  <2>3. QED BY <2>1, <2>2
<1>8. QED BY <1>4, <1>6, <1>7 DEF DescriptorsOwned

(* The end of a handler.                                                     *)
LEMMA AnswersKeeps ==
    ASSUME IInv, at \in {"lines", "opening"}, lines > 0,
           NEW v, Reaches(World(cur), v), NEW n \in Int, Answers(v, n)
    PROVE  IInv'
<1> DEFINE x == [v.s EXCEPT !.owed = @ + 1 - n]
           u == [v EXCEPT !.s.owed = @ + 1 - n]
<1>1. v.s \in Session /\ v \in Worlds
  BY DEF Reaches, Good, Worlds
<1>2. x \in Session /\ x.fd = v.s.fd
  BY <1>1 DEF Session
<1>3. u = [me |-> v.me, s |-> x, t |-> v.t]
  BY <1>1 DEF Worlds
<1> HIDE DEF u, x
<1>4. Reaches(v, u)
  <2>1. u.s = x /\ u = [me |-> v.me, s |-> u.s, t |-> v.t]
    BY <1>3
  <2>2. QED BY <1>2, <2>1, FieldsReach DEF Reaches
<1>5. Reaches(World(cur), u)
  BY <1>4, ReachesTransitive
<1>6. Commit(u) /\ server' = server /\ cur \in Slots
  BY DEF Answers, u, IInv, TypeOK
<1>7. /\ sess' \in [Slots -> Session]
      /\ fdt' \in [Fds -> Uses]
      /\ DescriptorsOwned'
  BY <1>5, <1>6, CommitKeeps
<1>8. lines' \in 0..MaxLines
  BY BoundsAssumption DEF Answers, IInv, TypeOK
<1>9. TypeOK'
  BY <1>7, <1>8 DEF Answers, IInv, TypeOK
<1>10. AcceptPending' /\ OpeningPending'
  BY DEF Answers, IInv, AcceptPending, OpeningPending
<1>11. QED BY <1>7, <1>9, <1>10 DEF IInv

(* A handler that stops in accept() or connect().                            *)
LEMMA WaitKeeps ==
    ASSUME IInv, at = "lines", lines > 0, NEW m \in Transfers,
           NEW v, Reaches(World(cur), v), WaitForPeer(v, m)
    PROVE  IInv'
<1>1. Commit(v) /\ server' = server /\ cur \in Slots
  BY DEF WaitForPeer, IInv, TypeOK
<1>2. /\ sess' \in [Slots -> Session]
      /\ fdt' \in [Fds -> Uses]
      /\ DescriptorsOwned'
  BY <1>1, CommitKeeps
<1>3. TypeOK'
  BY <1>2 DEF WaitForPeer, IInv, TypeOK, Transfers
<1>4. AcceptPending' /\ OpeningPending'
  BY DEF WaitForPeer, IInv, AcceptPending, OpeningPending
<1>5. QED BY <1>2, <1>3, <1>4 DEF IInv

(* 425: the file and the directory are closed.                               *)
LEMMA DataOpenFailedKeeps ==
    ASSUME IInv, at \in {"lines", "opening"}, lines > 0, NEW m,
           NEW v, Reaches(World(cur), v), DataOpenFailed(v, m)
    PROVE  IInv'
<1>1. Good(v)
  BY DEF Reaches
<1>2. Reaches(World(cur), VfsClose(v)) /\ Reaches(World(cur), VfsCloseDir(v))
  BY <1>1, VfsCloseReaches, VfsCloseDirReaches, ReachesTransitive
<1>3. QED BY <1>2, AnswersKeeps DEF DataOpenFailed

(* The transfer begins.                                                      *)
LEMMA DataOpenedKeeps ==
    ASSUME IInv, at \in {"lines", "opening"}, lines > 0, NEW m \in Transfers,
           NEW v, Reaches(World(cur), v), NEW rc \in Int, DataOpened(v, m, rc)
    PROVE  IInv'
<1> DEFINE b == rc > 0
           x == [v.s EXCEPT !.mode = m, !.nonblock = b]
           u == [v EXCEPT !.s.mode = m, !.s.nonblock = b]
<1>0. Answers(u, 0)
  BY DEF DataOpened
<1>1. /\ v.s \in Session /\ v \in Worlds
      /\ b \in BOOLEAN
      /\ m \in {"none", "retr", "stor", "list", "nlst"}
  BY DEF Reaches, Good, Worlds, Transfers
<1> HIDE DEF b
<1>2. x \in Session
  BY <1>1 DEF Session
<1>3. x.fd = v.s.fd
  BY <1>1 DEF Session
<1>3a. u = [me |-> v.me, s |-> x, t |-> v.t]
  <2>1. u = [v EXCEPT !.s = x]
    BY <1>1 DEF Worlds
  <2> HIDE DEF u, x
  <2>2. QED BY <1>1, <2>1 DEF Worlds
<1> HIDE DEF u, x
<1>4. u.s = x /\ u = [me |-> v.me, s |-> u.s, t |-> v.t]
  BY <1>3a
<1>5. Reaches(World(cur), u)
  BY <1>2, <1>3, <1>4, FieldsReach, ReachesTransitive DEF Reaches
<1>6. QED BY <1>0, <1>5, AnswersKeeps

(* ftp_data_open, wherever it stops.                                         *)
LEMMA DataOpenKeeps ==
    ASSUME IInv, at = "lines", lines > 0, NEW m \in Transfers,
           NEW v, Reaches(World(cur), v), DataOpen(v, m)
    PROVE  IInv'
<1> DEFINE o == OpenFd(v, "data")
<1>1. Good(v) /\ v.s.dc \in {"none", "active", "passive"}
  BY DEF Reaches, Good, Worlds, Session
<1>2. Reaches(World(cur), o)
  BY <1>1, OpenReaches, ReachesTransitive DEF Roles
<1>3. o.s.fd["data"] \in Fds \cup {None}
  BY <1>2 DEF Reaches, Good, Worlds, Session, Roles
<1>4. CASE v.s.dc = "none"
  BY <1>4, DataOpenFailedKeeps DEF DataOpen
<1>5. CASE v.s.dc = "passive"
  BY <1>5, WaitKeeps DEF DataOpen
<1>6. CASE v.s.dc = "active"
  <2> DEFINE h == o.s.fd["data"]
  <2>0. \/ h = None /\ DataOpenFailed(o, m)
        \/ h = 0 /\ DataOpened(o, m, 0)
        \/ h > 0 /\ WaitForPeer(o, m)
    BY <1>6 DEF DataOpen
  <2> HIDE DEF o
  <2>1. CASE o.s.fd["data"] = None
    <3>1. DataOpenFailed(o, m)
      BY <2>0, <2>1 DEF None
    <3>2. QED BY <1>2, <3>1, DataOpenFailedKeeps
  <2>2. CASE o.s.fd["data"] = 0
    <3>1. DataOpened(o, m, 0)
      BY <2>0, <2>2 DEF None
    <3>2. QED BY <1>2, <3>1, DataOpenedKeeps
  <2>3. CASE o.s.fd["data"] > 0
    <3>1. WaitForPeer(o, m)
      BY <2>0, <2>3 DEF None
    <3>2. QED BY <1>2, <3>1, WaitKeeps
  <2>4. QED BY <1>3, <2>1, <2>2, <2>3 DEF Fds, None
<1>7. QED BY <1>1, <1>4, <1>5, <1>6

-----------------------------------------------------------------------------
(* The handlers.                                                             *)
LEMMA SessionReaches ==
    ASSUME NEW w, Good(w), NEW x \in Session, x.fd = w.s.fd
    PROVE  Reaches(w, [w EXCEPT !.s = x])
<1> DEFINE v == [w EXCEPT !.s = x]
<1>1. v = [me |-> w.me, s |-> x, t |-> w.t]
  BY DEF Good, Worlds
<1> HIDE DEF v
<1>2. v.s = x /\ v = [me |-> w.me, s |-> v.s, t |-> w.t]
  BY <1>1
<1>3. QED BY <1>2, FieldsReach DEF v

(* An answer that changes no descriptor.                                     *)
LEMMA FieldAnswers ==
    ASSUME IInv, at \in {"lines", "opening"}, lines > 0,
           NEW w, Reaches(World(cur), w), NEW x \in Session, x.fd = w.s.fd,
           NEW n \in Int, Answers([w EXCEPT !.s = x], n)
    PROVE  IInv'
  BY SessionReaches, ReachesTransitive, AnswersKeeps DEF Reaches

(* What is reached is again a world.                                         *)
LEMMA ReachedWorld ==
    ASSUME NEW w, NEW v, Reaches(w, v)
    PROVE  Good(v) /\ v \in Worlds /\ v.s \in Session
  BY DEF Reaches, Good, Worlds

(* Every handler starts from the world of the current session.               *)
LEMMA HandlerStart ==
    ASSUME IInv
    PROVE  /\ cur \in Slots
           /\ Reaches(World(cur), World(cur))
           /\ Good(World(cur))
           /\ World(cur) \in Worlds
           /\ World(cur).s \in Session
<1>1. cur \in Slots
  BY DEF IInv, TypeOK
<1>2. QED BY <1>1, WorldIsGood, ReachesReflexive, ReachedWorld

(* A line that is refused.                                                   *)
LEMMA RejectKeeps ==
    ASSUME IInv, Reject \/ AnswerOnlyCommand
    PROVE  IInv'
  BY HandlerStart, AnswersKeeps DEF Reject, AnswerOnlyCommand, Dispatches

(* USER.                                                                     *)
LEMMA USERKeeps ==
    ASSUME IInv, USER
    PROVE  IInv'
<1> DEFINE w == World(cur)
           a == IF Anon THEN "valid" ELSE "need_pass"
           x == [w.s EXCEPT !.auth = a]
<1>1. at = "lines" /\ lines > 0
  BY DEF USER, Dispatches
<1>2. Reaches(w, w) /\ w \in Worlds /\ w.s \in Session
  BY HandlerStart
<1>3. Answers(w, 1) \/ Answers([w EXCEPT !.s.auth = a], 1)
  BY DEF USER
<1>4. a \in {"none", "need_pass", "valid"}
  OBVIOUS
<1> HIDE DEF a
<1>5. x \in Session /\ x.fd = w.s.fd
  BY <1>2, <1>4 DEF Session
<1>6. [w EXCEPT !.s.auth = a] = [w EXCEPT !.s = x]
  BY <1>2 DEF Worlds
<1> HIDE DEF w, x
<1>7. CASE Answers(w, 1)
  BY <1>1, <1>2, <1>7, AnswersKeeps DEF w
<1>8. CASE Answers([w EXCEPT !.s.auth = a], 1)
  BY <1>1, <1>2, <1>5, <1>6, <1>8, FieldAnswers DEF w
<1>9. QED BY <1>3, <1>7, <1>8

(* PASS.                                                                     *)
LEMMA PASSKeeps ==
    ASSUME IInv, PASS
    PROVE  IInv'
<1> DEFINE w == World(cur)
           x == [w.s EXCEPT !.auth = "valid"]
<1>1. at = "lines" /\ lines > 0
  BY DEF PASS, Dispatches
<1>2. Reaches(w, w) /\ w \in Worlds /\ w.s \in Session
  BY HandlerStart
<1>3. Answers(w, 1) \/ Answers([w EXCEPT !.s.auth = "valid"], 1)
  BY DEF PASS
<1>5. x \in Session /\ x.fd = w.s.fd
  BY <1>2 DEF Session
<1>6. [w EXCEPT !.s.auth = "valid"] = [w EXCEPT !.s = x]
  BY <1>2 DEF Worlds
<1> HIDE DEF w, x
<1>7. CASE Answers(w, 1)
  BY <1>1, <1>2, <1>7, AnswersKeeps DEF w
<1>8. CASE Answers([w EXCEPT !.s.auth = "valid"], 1)
  BY <1>1, <1>2, <1>5, <1>6, <1>8, FieldAnswers DEF w
<1>9. QED BY <1>3, <1>7, <1>8

(* PORT.                                                                     *)
LEMMA PORTKeeps ==
    ASSUME IInv, PORT
    PROVE  IInv'
<1> DEFINE w == DataTransferEnd(World(cur))
           x == [w.s EXCEPT !.dc = "active"]
<1>1. at = "lines" /\ lines > 0
  BY DEF PORT, Dispatches
<1>2. Reaches(World(cur), w) /\ w \in Worlds /\ w.s \in Session
  BY HandlerStart, TransferEndReaches, ReachedWorld
<1>3. Answers(w, 1) \/ Answers([w EXCEPT !.s.dc = "active"], 1)
  BY DEF PORT
<1> HIDE DEF w
<1>5. x \in Session /\ x.fd = w.s.fd
  BY <1>2 DEF Session
<1>6. [w EXCEPT !.s.dc = "active"] = [w EXCEPT !.s = x]
  BY <1>2 DEF Worlds
<1> HIDE DEF x
<1>7. CASE Answers(w, 1)
  BY <1>1, <1>2, <1>7, AnswersKeeps
<1>8. CASE Answers([w EXCEPT !.s.dc = "active"], 1)
  BY <1>1, <1>2, <1>5, <1>6, <1>8, FieldAnswers
<1>9. QED BY <1>3, <1>7, <1>8

(* PASV.                                                                     *)
LEMMA PASVKeeps ==
    ASSUME IInv, PASV
    PROVE  IInv'
<1> DEFINE e == DataTransferEnd(World(cur))
           w == OpenFd(e, "pasv")
           x == [w.s EXCEPT !.dc = "passive"]
<1>1. at = "lines" /\ lines > 0
  BY DEF PASV, Dispatches
<1>2. Reaches(World(cur), e) /\ Good(e)
  BY HandlerStart, TransferEndReaches, ReachedWorld
<1>3. \/ Answers(w, 1)
      \/ Answers(CloseSocket(w, "pasv"), 1)
      \/ Answers([w EXCEPT !.s.dc = "passive"], 1)
  BY DEF PASV
<1> HIDE DEF e
<1>4. Reaches(World(cur), w)
  BY <1>2, OpenReaches, ReachesTransitive DEF Roles
<1> HIDE DEF w
<1>5. Good(w) /\ w \in Worlds /\ w.s \in Session
  BY <1>4, ReachedWorld
<1>6. Reaches(World(cur), CloseSocket(w, "pasv"))
  BY <1>4, <1>5, CloseSocketReaches, ReachesTransitive DEF Roles
<1>7. x \in Session /\ x.fd = w.s.fd
  BY <1>5 DEF Session
<1>8. [w EXCEPT !.s.dc = "passive"] = [w EXCEPT !.s = x]
  BY <1>5 DEF Worlds
<1> HIDE DEF x
<1>9. CASE Answers(w, 1)
  BY <1>1, <1>4, <1>9, AnswersKeeps
<1>10. CASE Answers(CloseSocket(w, "pasv"), 1)
  BY <1>1, <1>6, <1>10, AnswersKeeps
<1>11. CASE Answers([w EXCEPT !.s.dc = "passive"], 1)
  BY <1>1, <1>4, <1>7, <1>8, <1>11, FieldAnswers
<1>12. QED BY <1>3, <1>9, <1>10, <1>11

(* REST.                                                                     *)
LEMMA RESTKeeps ==
    ASSUME IInv, REST
    PROVE  IInv'
<1> DEFINE w == World(cur)
<1>1. at = "lines" /\ lines > 0
  BY DEF REST, Dispatches
<1>2. Reaches(w, w) /\ w \in Worlds /\ w.s \in Session
  BY HandlerStart
<1>3. \/ Answers(w, 1)
      \/ \E k \in 0..MaxLen : Answers([w EXCEPT !.s.marker = k], 1)
  BY DEF REST
<1>4. CASE Answers(w, 1)
  BY <1>1, <1>2, <1>4, AnswersKeeps
<1>5. ASSUME NEW k \in 0..MaxLen, Answers([w EXCEPT !.s.marker = k], 1)
      PROVE  IInv'
  <2> DEFINE x == [w.s EXCEPT !.marker = k]
  <2>0. k \in -1..MaxLen
    BY BoundsAssumption
  <2>1. x \in Session /\ x.fd = w.s.fd
    BY <1>2, <2>0 DEF Session
  <2>2. [w EXCEPT !.s.marker = k] = [w EXCEPT !.s = x]
    BY <1>2 DEF Worlds
  <2> HIDE DEF x
  <2>3. Answers([w EXCEPT !.s = x], 1)
    BY <1>5, <2>2
  <2> HIDE DEF w
  <2>4. QED BY <1>1, <1>2, <2>1, <2>3, FieldAnswers DEF w
<1>6. QED BY <1>3, <1>4, <1>5

(* RNFR and RNTO.                                                            *)
LEMMA RenameKeeps ==
    ASSUME IInv, RNFR \/ RNTO
    PROVE  IInv'
<1> DEFINE w == World(cur)
<1>1. at = "lines" /\ lines > 0
  BY DEF RNFR, RNTO, Dispatches
<1>2. Reaches(w, w) /\ w \in Worlds /\ w.s \in Session
  BY HandlerStart
<1>3. \/ Answers(w, 1)
      \/ \E p \in {"rename", "empty"} : Answers([w EXCEPT !.s.temp = p], 1)
  BY DEF RNFR, RNTO
<1>4. CASE Answers(w, 1)
  BY <1>1, <1>2, <1>4, AnswersKeeps
<1>5. ASSUME NEW p \in {"rename", "empty"}, Answers([w EXCEPT !.s.temp = p], 1)
      PROVE  IInv'
  <2> DEFINE x == [w.s EXCEPT !.temp = p]
  <2>1. x \in Session /\ x.fd = w.s.fd
    BY <1>2 DEF Session
  <2>2. [w EXCEPT !.s.temp = p] = [w EXCEPT !.s = x]
    BY <1>2 DEF Worlds
  <2> HIDE DEF x
  <2>3. Answers([w EXCEPT !.s = x], 1)
    BY <1>5, <2>2
  <2> HIDE DEF w
  <2>4. QED BY <1>1, <1>2, <2>1, <2>3, FieldAnswers DEF w
<1>6. QED BY <1>3, <1>4, <1>5

(* ABOR.                                                                     *)
LEMMA ABORKeeps ==
    ASSUME IInv, ABOR
    PROVE  IInv'
<1> DEFINE w == World(cur)
           n == IF w.s.mode = "none" THEN 1 ELSE 2
<1>1. at = "lines" /\ lines > 0 /\ n \in Int
  BY DEF ABOR, Dispatches
<1>2. Reaches(w, w) /\ Reaches(w, DataTransferEnd(w))
  BY HandlerStart, TransferEndReaches
<1>3. Answers(w, 1) \/ Answers(DataTransferEnd(w), n)
  BY DEF ABOR
<1> HIDE DEF n
<1>4. QED BY <1>1, <1>2, <1>3, AnswersKeeps

(* ftp_cmd_RETR: the file is opened before the data connection.              *)
LEMMA RETRKeeps ==
    ASSUME IInv, RETR
    PROVE  IInv'
<1> DEFINE w == World(cur)
           o == OpenFd(w, "file")
           restart == w.s.marker > 0
           a == IF restart THEN w.s.marker ELSE 0
           k == IF restart THEN 0 ELSE w.s.marker
           P(z) == [w EXCEPT !.s.fd["file"] = z]
<1>1. at = "lines" /\ lines > 0
  BY DEF RETR, Dispatches
<1>2. Reaches(w, w) /\ Good(w) /\ w \in Worlds /\ w.s \in Session
  BY HandlerStart
<1>3. Reaches(w, o)
  BY <1>2, OpenReaches DEF Roles
<1>4. Good(o) /\ o \in Worlds /\ o.s \in Session
  BY <1>3, ReachedWorld
<1>5. Reaches(w, VfsClose(o))
  BY <1>3, <1>4, VfsCloseReaches, ReachesTransitive
<1>6. Reaches(w, P(None))
  BY <1>2, ForgetReaches DEF Roles
<1>7. a \in 0..MaxLen
  BY <1>2, BoundsAssumption DEF Session
<1>8. o.s.marker = w.s.marker
  BY <1>2 DEF OpenFd, Worlds, Session
<1>9. ASSUME NEW n \in 0..MaxLen,
             NEW p, p = [o EXCEPT !.s.off = a, !.s.size = n,
                                  !.s.marker = IF restart THEN 0 ELSE @]
      PROVE  Reaches(w, p)
  <2> DEFINE x == [o.s EXCEPT !.off = a, !.size = n, !.marker = k]
  <2>1. k \in -1..MaxLen
    BY <1>2, BoundsAssumption DEF Session
  <2> HIDE DEF a, o
  <2>2. p = [o EXCEPT !.s.off = a, !.s.size = n, !.s.marker = k]
    BY <1>4, <1>8, <1>9 DEF Worlds, Session
  <2> HIDE DEF k, w
  <2>3. x \in Session /\ x.fd = o.s.fd
    BY <1>4, <1>7, <2>1 DEF Session
  <2>4. p = [o EXCEPT !.s = x]
    BY <1>4, <2>2 DEF Worlds
  <2> HIDE DEF x
  <2>5. QED BY <1>3, <1>4, <2>3, <2>4, SessionReaches, ReachesTransitive
<1>10. \/ Answers(w, 1)
       \/ Answers(P(None), 1)
       \/ Answers(VfsClose(o), 1)
       \/ \E n \in 0..MaxLen :
            LET p == [o EXCEPT !.s.off = a, !.s.size = n,
                               !.s.marker = IF restart THEN 0 ELSE @]
            IN Answers(VfsClose(p), 1) \/ DataOpen(p, "retr")
  BY DEF RETR
<1>11. ASSUME NEW n \in 0..MaxLen, NEW p, Reaches(w, p),
              Answers(VfsClose(p), 1) \/ DataOpen(p, "retr")
       PROVE  IInv'
  <2>1. Reaches(w, VfsClose(p))
    BY <1>11, ReachedWorld, VfsCloseReaches, ReachesTransitive
  <2>2. "retr" \in Transfers
    BY DEF Transfers
  <2>3. QED BY <1>1, <1>11, <2>1, <2>2, AnswersKeeps, DataOpenKeeps
<1> HIDE DEF o, a, P, restart
<1>12. CASE Answers(w, 1) \/ Answers(P(None), 1) \/ Answers(VfsClose(o), 1)
  BY <1>1, <1>2, <1>5, <1>6, <1>12, AnswersKeeps
<1>13. QED BY <1>9, <1>10, <1>11, <1>12

(* What STOR and APPE share.                                                 *)
LEMMA StoreKeeps ==
    ASSUME IInv, at = "lines", lines > 0,
           NEW w, Reaches(World(cur), w), Store(w)
    PROVE  IInv'
<1> DEFINE k == IF w.s.marker = -1 THEN 0 ELSE w.s.marker
           x == [w.s EXCEPT !.marker = k]
           m == [w EXCEPT !.s.marker = IF @ = -1 THEN 0 ELSE @]
           o == OpenFd(m, "file")
<1>1. Good(w) /\ w \in Worlds /\ w.s \in Session
  BY ReachedWorld
<1>2. k \in -1..MaxLen
  BY <1>1, BoundsAssumption DEF Session
<1>3. m = [w EXCEPT !.s = x]
  BY <1>1 DEF Worlds, Session
<1>4. \/ Answers(w, 1)
      \/ Answers(m, 1)
      \/ Answers([m EXCEPT !.s.fd["file"] = None], 1)
      \/ DataOpen(o, "stor")
  BY DEF Store
<1> HIDE DEF k, m
<1>5. x \in Session /\ x.fd = w.s.fd
  BY <1>1, <1>2 DEF Session
<1> HIDE DEF x
<1>6. Reaches(World(cur), m)
  BY <1>1, <1>3, <1>5, SessionReaches, ReachesTransitive
<1>7. Good(m)
  BY <1>6, ReachedWorld
<1>8. Reaches(World(cur), [m EXCEPT !.s.fd["file"] = None])
  BY <1>6, <1>7, ForgetReaches, ReachesTransitive DEF Roles
<1>9. Reaches(World(cur), o)
  BY <1>6, <1>7, OpenReaches, ReachesTransitive DEF Roles
<1> HIDE DEF o
<1>10. "stor" \in Transfers
  BY DEF Transfers
<1>11. QED BY <1>4, <1>6, <1>8, <1>9, <1>10, AnswersKeeps, DataOpenKeeps

(* STOR and APPE.                                                            *)
LEMMA UploadKeeps ==
    ASSUME IInv, STOR \/ APPE
    PROVE  IInv'
<1> DEFINE w == World(cur)
           x == [w.s EXCEPT !.marker = -1]
           m == [w EXCEPT !.s.marker = -1]
<1>1. at = "lines" /\ lines > 0 /\ (Store(w) \/ Store(m))
  BY DEF STOR, APPE, Dispatches
<1>2. Reaches(w, w) /\ Good(w) /\ w \in Worlds /\ w.s \in Session
  BY HandlerStart
<1>3. -1 \in -1..MaxLen
  BY BoundsAssumption
<1>4. x \in Session /\ x.fd = w.s.fd
  BY <1>2, <1>3 DEF Session
<1>5. m = [w EXCEPT !.s = x]
  BY <1>2 DEF Worlds
<1> HIDE DEF x, m
<1>6. Reaches(w, m)
  BY <1>2, <1>4, <1>5, SessionReaches
<1>7. QED BY <1>1, <1>2, <1>6, StoreKeeps

(* LIST and NLST.                                                            *)
LEMMA ListKeeps ==
    ASSUME IInv, LIST \/ NLST
    PROVE  IInv'
<1> DEFINE w == World(cur)
           x == [w.s EXCEPT !.temp = "list"]
           y == [w.s EXCEPT !.temp = "devices"]
           l == [w EXCEPT !.s.temp = "list"]
           q == [w EXCEPT !.s.temp = "devices"]
           d == OpenFd(l, "dir")
<1>1. PICK m \in {"list", "nlst"} : List(w, m)
  BY DEF LIST, NLST
<1>2. at = "lines" /\ lines > 0 /\ m \in Transfers
  BY DEF LIST, NLST, Dispatches, Transfers
<1>3. Reaches(w, w) /\ Good(w) /\ w \in Worlds /\ w.s \in Session
  BY HandlerStart
<1>4. x \in Session /\ x.fd = w.s.fd /\ y \in Session /\ y.fd = w.s.fd
  BY <1>3 DEF Session
<1>5. l = [w EXCEPT !.s = x] /\ q = [w EXCEPT !.s = y]
  BY <1>3 DEF Worlds
<1>6. \/ Answers(l, 1)
      \/ DataOpen(q, m)
      \/ DataOpen(d, m)
      \/ \E n \in 1..MaxLen : DataOpen([l EXCEPT !.s.size = n], m)
  BY <1>1 DEF List
<1> HIDE DEF x, y, l, q
<1>7. Reaches(w, l) /\ Reaches(w, q)
  BY <1>3, <1>4, <1>5, SessionReaches
<1>8. Good(l) /\ l \in Worlds /\ l.s \in Session
  BY <1>7, ReachedWorld
<1>9. Reaches(w, d)
  BY <1>7, <1>8, OpenReaches, ReachesTransitive DEF Roles
<1>10. ASSUME NEW n \in 1..MaxLen, DataOpen([l EXCEPT !.s.size = n], m)
       PROVE  IInv'
  <2> DEFINE z == [l.s EXCEPT !.size = n]
  <2>1. n \in 0..MaxLen
    BY BoundsAssumption
  <2>2. z \in Session /\ z.fd = l.s.fd
    BY <1>8, <2>1 DEF Session
  <2>3. [l EXCEPT !.s.size = n] = [l EXCEPT !.s = z]
    BY <1>8 DEF Worlds
  <2> HIDE DEF z
  <2>4. Reaches(w, [l EXCEPT !.s = z])
    BY <1>7, <1>8, <2>2, SessionReaches, ReachesTransitive
  <2>5. QED BY <1>2, <1>10, <2>3, <2>4, DataOpenKeeps
<1> HIDE DEF d
<1>11. CASE Answers(l, 1)
  BY <1>2, <1>7, <1>11, AnswersKeeps
<1>12. ASSUME NEW v, Reaches(w, v), DataOpen(v, m) PROVE IInv'
  BY <1>2, <1>12, DataOpenKeeps
<1>13. QED BY <1>6, <1>7, <1>9, <1>10, <1>11, <1>12

(* The second half of a handler that waited.                                 *)
LEMMA PeerConnectsKeeps ==
    ASSUME IInv, PeerConnects
    PROVE  IInv'
<1> DEFINE w == World(cur)
           a == OpenFd(w, "data")
           h == a.s.fd["data"]
<1>1. at = "opening" /\ lines > 0 /\ opener \in Transfers
  BY DEF PeerConnects, IInv, OpeningPending
<1>2. Reaches(w, w) /\ Good(w)
  BY HandlerStart
<1>3. Reaches(w, a)
  BY <1>2, OpenReaches DEF Roles
<1>4. \/ DataOpened(w, opener, 0)
      \/ DataOpenFailed(a, opener)
      \/ h # None /\ DataOpened(a, opener, h)
  BY DEF PeerConnects
<1>5. h \in Fds \cup {None}
  BY <1>3, ReachedWorld DEF Session, Roles
<1>6. h \in Int
  BY <1>5 DEF Fds, None
<1> HIDE DEF a, h
<1>7. QED BY <1>1, <1>2, <1>3, <1>4, <1>6, DataOpenedKeeps, DataOpenFailedKeeps

(* accept() or connect() returns an error.                                   *)
LEMMA OpenFailsKeeps ==
    ASSUME IInv, OpenFails
    PROVE  IInv'
<1> DEFINE w == World(cur)
           f == [w EXCEPT !.s.fd["data"] = None]
<1>1. at = "opening" /\ lines > 0
  BY DEF OpenFails, IInv, OpeningPending
<1>2. Reaches(w, w) /\ Good(w)
  BY HandlerStart
<1>3. Reaches(w, f)
  BY <1>2, ForgetReaches DEF Roles
<1>4. DataOpenFailed(w, opener) \/ DataOpenFailed(f, opener)
  BY DEF OpenFails
<1> HIDE DEF f
<1>5. QED BY <1>1, <1>2, <1>3, <1>4, DataOpenFailedKeeps

-----------------------------------------------------------------------------
(* Data transfers.                                                           *)
LEMMA AfterDataKeeps ==
    ASSUME IInv, at \in {"data", "transfer"},
           NEW v, Reaches(World(cur), v), AfterData(v)
    PROVE  IInv'
<1>1. Commit(v) /\ server' = server /\ cur \in Slots
  BY DEF AfterData, IInv, TypeOK
<1>2. /\ sess' \in [Slots -> Session]
      /\ fdt' \in [Fds -> Uses]
      /\ DescriptorsOwned'
  BY <1>1, CommitKeeps
<1>3. cur' \in Slots /\ at' \in {"poll", "control"}
  BY BoundsAssumption DEF AfterData, NextSession, Slots, IInv, TypeOK
<1>4. /\ rev' \in [accept : BOOLEAN, control : [Slots -> {"none", "in", "err"}],
                   data : [Slots -> BOOLEAN]]
      /\ rev'.accept = rev.accept
  BY DEF AfterData, NextSession, IInv, TypeOK
<1>5. TypeOK'
  BY <1>2, <1>3, <1>4 DEF AfterData, IInv, TypeOK
<1>6. AcceptPending' /\ OpeningPending'
  BY <1>3, <1>4 DEF AfterData, IInv, AcceptPending, OpeningPending
<1>7. QED BY <1>2, <1>5, <1>6 DEF IInv

(* The end of a transfer.                                                    *)
LEMMA TransferOverKeeps ==
    ASSUME IInv, at \in {"data", "transfer"},
           NEW v, Reaches(World(cur), v), TransferOver(v)
    PROVE  IInv'
<1> DEFINE w == DataTransferEnd(v)
           x == [w.s EXCEPT !.owed = @ - 1]
<1>1. Reaches(World(cur), w) /\ Good(w) /\ w \in Worlds /\ w.s \in Session
  BY ReachedWorld, TransferEndReaches, ReachesTransitive
<1>2. AfterData([w EXCEPT !.s.owed = @ - 1])
  BY DEF TransferOver
<1> HIDE DEF w
<1>3. x \in Session /\ x.fd = w.s.fd
  BY <1>1 DEF Session
<1>4. [w EXCEPT !.s.owed = @ - 1] = [w EXCEPT !.s = x]
  BY <1>1 DEF Worlds
<1> HIDE DEF x
<1>5. Reaches(World(cur), [w EXCEPT !.s = x])
  BY <1>1, <1>3, SessionReaches, ReachesTransitive
<1>6. QED BY <1>2, <1>4, <1>5, AfterDataKeeps

(* The bytes that pass change only how far the transfer is.                  *)
LEMMA WindowReaches ==
    ASSUME NEW w, Good(w), NEW b \in 0..MaxLen, NEW n \in 0..MaxLen
    PROVE  Reaches(w, [w EXCEPT !.s.off = b, !.s.size = n])
<1> DEFINE x == [w.s EXCEPT !.off = b, !.size = n]
<1>1. w \in Worlds /\ w.s \in Session
  BY DEF Good, Worlds
<1>2. x \in Session /\ x.fd = w.s.fd
  BY <1>1 DEF Session
<1>3. [w EXCEPT !.s.off = b, !.s.size = n] = [w EXCEPT !.s = x]
  BY <1>1 DEF Worlds
<1> HIDE DEF x
<1>4. QED BY <1>2, <1>3, SessionReaches

(* The offset moves on.                                                      *)
LEMMA OffsetReaches ==
    ASSUME NEW w, Good(w), NEW b \in 0..MaxLen
    PROVE  Reaches(w, [w EXCEPT !.s.off = b])
<1> DEFINE x == [w.s EXCEPT !.off = b]
<1>1. w \in Worlds /\ w.s \in Session
  BY DEF Good, Worlds
<1>2. x \in Session /\ x.fd = w.s.fd
  BY <1>1 DEF Session
<1>3. [w EXCEPT !.s.off = b] = [w EXCEPT !.s = x]
  BY <1>1 DEF Worlds
<1> HIDE DEF x
<1>4. QED BY <1>2, <1>3, SessionReaches

(* A step of a download.                                                     *)
LEMMA SendFileKeeps ==
    ASSUME IInv, at \in {"data", "transfer"}, SendFile(World(cur))
    PROVE  IInv'
<1> DEFINE w == World(cur)
<1>1. Reaches(w, w) /\ Good(w) /\ w \in Worlds /\ w.s \in Session
  BY HandlerStart
<1>2. ASSUME NEW n \in 1..(MaxLen - w.s.off),
             NEW p, p = [w EXCEPT !.s.off = @ + n],
             TransferOver(p) \/ AfterData(p)
      PROVE  IInv'
  <2>1. w.s.off + n \in 0..MaxLen /\ p = [w EXCEPT !.s.off = w.s.off + n]
    BY <1>1, <1>2, BoundsAssumption DEF Worlds, Session
  <2>2. Reaches(w, p)
    BY <1>1, <2>1, OffsetReaches
  <2>3. QED BY <1>2, <2>2, TransferOverKeeps, AfterDataKeeps
<1>3. CASE TransferOver(w)
  BY <1>1, <1>3, TransferOverKeeps
<1>4. QED BY <1>2, <1>3 DEF SendFile

(* A step of an upload.                                                      *)
LEMMA ReceiveFileKeeps ==
    ASSUME IInv, at \in {"data", "transfer"}, ReceiveFile(World(cur))
    PROVE  IInv'
<1> DEFINE w == World(cur)
<1>1. Reaches(w, w) /\ Good(w) /\ w \in Worlds /\ w.s \in Session
  BY HandlerStart
<1>2. ASSUME NEW n \in 1..MaxLen,
             AfterData([w EXCEPT !.s.off = IF @ + n > MaxLen THEN MaxLen ELSE @ + n])
      PROVE  IInv'
  <2> DEFINE b == IF w.s.off + n > MaxLen THEN MaxLen ELSE w.s.off + n
  <2>1. b \in 0..MaxLen
    BY <1>1, BoundsAssumption DEF Session
  <2>2. AfterData([w EXCEPT !.s.off = b])
    BY <1>1, <1>2 DEF Worlds, Session
  <2> HIDE DEF b
  <2>3. Reaches(w, [w EXCEPT !.s.off = b])
    BY <1>1, <2>1, OffsetReaches
  <2>4. QED BY <2>2, <2>3, AfterDataKeeps
<1>3. CASE TransferOver(w)
  BY <1>1, <1>3, TransferOverKeeps
<1>4. QED BY <1>2, <1>3 DEF ReceiveFile

(* A step of a listing.                                                      *)
LEMMA SendListKeeps ==
    ASSUME IInv, at \in {"data", "transfer"}, SendList(World(cur))
    PROVE  IInv'
<1> DEFINE w == World(cur)
<1>1. Reaches(w, w) /\ Good(w) /\ w \in Worlds /\ w.s \in Session
  BY HandlerStart
<1>2. ASSUME NEW b \in 0..MaxLen, NEW n \in 0..MaxLen,
             AfterData([w EXCEPT !.s.off = b, !.s.size = n])
      PROVE  IInv'
  BY <1>1, <1>2, WindowReaches, AfterDataKeeps
<1>3. ASSUME NEW n \in 1..(w.s.size - 1),
             AfterData([w EXCEPT !.s.off = IF @ + n > MaxLen THEN MaxLen ELSE @ + n,
                                 !.s.size = @ - n])
      PROVE  IInv'
  <2> DEFINE b == IF w.s.off + n > MaxLen THEN MaxLen ELSE w.s.off + n
             k == w.s.size - n
  <2>1. b \in 0..MaxLen /\ k \in 0..MaxLen
    BY <1>1, BoundsAssumption DEF Session
  <2>2. AfterData([w EXCEPT !.s.off = b, !.s.size = k])
    BY <1>1, <1>3 DEF Worlds, Session
  <2> HIDE DEF b, k
  <2>3. QED BY <1>2, <2>1, <2>2
<1>4. ASSUME NEW b \in 0..(MaxLen - 1), NEW n \in 1..(MaxLen - b),
             AfterData([w EXCEPT !.s.off = b, !.s.size = n])
      PROVE  IInv'
  <2>1. b \in 0..MaxLen /\ n \in 0..MaxLen
    BY BoundsAssumption
  <2>2. QED BY <1>2, <1>4, <2>1
<1>5. CASE TransferOver(w)
  BY <1>1, <1>5, TransferOverKeeps
<1>6. QED BY <1>3, <1>4, <1>5 DEF SendList

(* The data half of a session's turn.                                        *)
LEMMA DataStepKeeps ==
    ASSUME IInv, TransferStep \/ TransferBlocks \/ TransferUnblocks \/ SkipData
    PROVE  IInv'
<1>1. CASE TransferBlocks
  BY <1>1 DEF TransferBlocks, IInv, TypeOK, DescriptorsOwned, AcceptPending,
              OpeningPending
<1>2. ASSUME at \in {"data", "transfer"}, AfterData(World(cur)) PROVE IInv'
  BY <1>2, HandlerStart, AfterDataKeeps
<1>3. ASSUME at \in {"data", "transfer"}, Progress(World(cur)) PROVE IInv'
  BY <1>3, SendFileKeeps, ReceiveFileKeeps, SendListKeeps DEF Progress
<1>4. QED BY <1>1, <1>2, <1>3 DEF TransferStep, TransferUnblocks, SkipData

-----------------------------------------------------------------------------
(* Sessions and the loop.                                                    *)
LEMMA ZeroedIsSession ==
    /\ Zeroed \in Session
    /\ \A r \in Roles : ~(Zeroed.fd[r] > 0)
<1>1. 0 \in 0..MaxLen /\ 0 \in -1..MaxLen /\ 0 \in Fds
  BY BoundsAssumption DEF Fds
<1>2. Zeroed.fd \in [Roles -> Fds \cup {None}]
  BY <1>1 DEF Zeroed
<1>3. QED BY <1>1, <1>2 DEF Zeroed, Session, None

(* memset() drops the handles, and only them.                                *)
LEMMA ZeroedReaches ==
    ASSUME NEW w, Good(w)
    PROVE  Reaches(w, [w EXCEPT !.s = Zeroed])
  BY ZeroedIsSession DEF Reaches, Good, Worlds

(* The session that is served next is one of those left.                     *)
LEMMA FirstIsMember ==
    ASSUME NEW S, S \subseteq Slots, S # {}
    PROVE  First(S) \in S
<1>1. S \subseteq Nat
  BY DEF Slots
<1>2. PICK x \in S : \A y \in S : x <= y
  BY <1>1, LeastExists
<1>3. QED BY <1>2 DEF First

(* ftp_session_close, whatever the session was doing.                        *)
LEMMA CloseSessionKeeps ==
    ASSUME IInv, NEW s \in Slots, CloseSession(s), server' = server
    PROVE  /\ sess' \in [Slots -> Session]
           /\ fdt' \in [Fds -> Uses]
           /\ DescriptorsOwned'
           /\ count' \in Int
           /\ inbox' \in [Slots -> 0..MaxLines]
           /\ link' \in [Slots -> {"up", "closed", "reset"}]
<1> DEFINE w == World(s)
           c == CloseSocket(w, "control")
           e == DataTransferEnd(c)
           z == [e EXCEPT !.s = Zeroed]
<1>1. Good(w)
  BY WorldIsGood
<1>2. Reaches(w, c) /\ Good(c)
  BY <1>1, CloseSocketReaches, ReachedWorld DEF Roles
<1>3. Reaches(w, e) /\ Good(e)
  BY <1>2, TransferEndReaches, ReachedWorld, ReachesTransitive
<1>4. Commit(z)
  BY DEF CloseSession, SessionClosed
<1> HIDE DEF e
<1>5. Reaches(w, z)
  BY <1>3, ZeroedReaches, ReachesTransitive
<1> HIDE DEF z
<1>6. /\ sess' \in [Slots -> Session]
      /\ fdt' \in [Fds -> Uses]
      /\ DescriptorsOwned'
  BY <1>4, <1>5, CommitKeeps
<1>7. 0 \in 0..MaxLines
  BY BoundsAssumption
<1>8. /\ count \in Int
      /\ inbox \in [Slots -> 0..MaxLines]
      /\ link \in [Slots -> {"up", "closed", "reset"}]
  BY DEF IInv, TypeOK
<1>9. /\ count' = count - 1
      /\ inbox' = [inbox EXCEPT ![s] = 0]
      /\ link' = [link EXCEPT ![s] = "up"]
  BY DEF CloseSession
<1>10. /\ count' \in Int
       /\ inbox' \in [Slots -> 0..MaxLines]
       /\ link' \in [Slots -> {"up", "closed", "reset"}]
  BY <1>7, <1>8, <1>9
<1>11. QED BY <1>6, <1>10

(* A session that is closed by its client.                                   *)
LEMMA HangupKeeps ==
    ASSUME IInv, Hangup
    PROVE  IInv'
<1>1. cur \in Slots /\ CloseSession(cur) /\ server' = server
  BY DEF Hangup, IInv, TypeOK
<1>2. /\ sess' \in [Slots -> Session]
      /\ fdt' \in [Fds -> Uses]
      /\ DescriptorsOwned'
      /\ count' \in Int
      /\ inbox' \in [Slots -> 0..MaxLines]
      /\ link' \in [Slots -> {"up", "closed", "reset"}]
  BY <1>1, CloseSessionKeeps
<1>3. /\ rev' \in [accept : BOOLEAN, control : [Slots -> {"none", "in", "err"}],
                   data : [Slots -> BOOLEAN]]
      /\ rev'.accept = rev.accept
  BY DEF Hangup, IInv, TypeOK
<1>4. TypeOK'
  BY <1>2, <1>3 DEF Hangup, IInv, TypeOK
<1>5. AcceptPending' /\ OpeningPending'
  BY <1>3 DEF Hangup, IInv, AcceptPending, OpeningPending
<1>6. QED BY <1>2, <1>4, <1>5 DEF IInv

(* ftpsrv_exit, session by session.                                          *)
LEMMA ExitKeeps ==
    ASSUME IInv, Exit
    PROVE  IInv'
<1>1. CASE Active # {}
  <2>1. First(Active) \in Slots
    BY <1>1, FirstIsMember DEF Active
  <2>2. CloseSession(First(Active)) /\ server' = server
    BY <1>1 DEF Exit
  <2>3. /\ sess' \in [Slots -> Session]
        /\ fdt' \in [Fds -> Uses]
        /\ DescriptorsOwned'
        /\ count' \in Int
        /\ inbox' \in [Slots -> 0..MaxLines]
        /\ link' \in [Slots -> {"up", "closed", "reset"}]
    BY <2>1, <2>2, CloseSessionKeeps
  <2>4. TypeOK'
    BY <1>1, <2>3 DEF Exit, IInv, TypeOK
  <2>5. AcceptPending' /\ OpeningPending'
    BY <1>1 DEF Exit, IInv, AcceptPending, OpeningPending
  <2>6. QED BY <2>3, <2>4, <2>5 DEF IInv
<1>2. CASE Active = {}
  <2>1. server \in Fds \cup {None} /\ fdt \in [Fds -> Uses]
        /\ sess \in [Slots -> Session]
    BY DEF IInv, TypeOK
  <2>2. sess' = sess
    BY <1>2 DEF Exit
  <2>3. fdt' \in [Fds -> Uses]
    BY <1>2, <2>1 DEF Exit, Uses
  <2>4. TypeOK'
    BY <1>2, <2>2, <2>3, BoundsAssumption DEF Exit, IInv, TypeOK
  <2>5. ASSUME server' > 0 PROVE fdt'[server'] = Listener
    BY <1>2, <2>1, <2>5 DEF Exit, None
  <2>6. ASSUME NEW j \in Slots, NEW r \in Roles, sess'[j].fd[r] > 0
        PROVE  fdt'[sess'[j].fd[r]] = Owner(j, r)
    <3>1. fdt[sess[j].fd[r]] = Owner(j, r)
      BY <2>2, <2>6 DEF IInv, DescriptorsOwned
    <3>2. server > 0 => sess[j].fd[r] # server
      BY <3>1 DEF IInv, DescriptorsOwned, Listener, Owner, Slots
    <3>3. sess[j].fd[r] \in Fds
      BY <2>1, <2>2, <2>6 DEF Session, None
    <3>4. QED BY <1>2, <2>1, <2>2, <3>1, <3>2, <3>3 DEF Exit
  <2>7. DescriptorsOwned'
    BY <2>5, <2>6 DEF DescriptorsOwned
  <2>8. AcceptPending' /\ OpeningPending'
    BY <1>2 DEF Exit, IInv, AcceptPending, OpeningPending
  <2>9. QED BY <2>4, <2>7, <2>8 DEF IInv
<1>3. QED BY <1>1, <1>2

(* ftpsrv_init.                                                              *)
LEMMA StartKeeps ==
    ASSUME IInv, Start
    PROVE  IInv'
<1> DEFINE f == LowestFree(fdt)
<1>1. f \in Fds
  BY LowestFreeIsFree DEF Start
<1>2. server' = f /\ fdt' = [fdt EXCEPT ![f] = Listener]
      /\ sess' = [s \in Slots |-> Zeroed] /\ count' = 0 /\ at' = "poll"
  BY DEF Start
<1> HIDE DEF f
<1>3. sess' \in [Slots -> Session] /\ fdt' \in [Fds -> Uses]
  BY <1>1, <1>2, ZeroedIsSession DEF IInv, TypeOK, Uses
<1>4. TypeOK'
  BY <1>1, <1>2, <1>3 DEF Start, IInv, TypeOK
<1>5. fdt'[server'] = Listener
  BY <1>1, <1>2 DEF IInv, TypeOK
<1>6. DescriptorsOwned'
  BY <1>2, <1>5, ZeroedIsSession DEF DescriptorsOwned
<1>7. AcceptPending' /\ OpeningPending'
  BY <1>2 DEF Start, IInv, AcceptPending, OpeningPending
<1>8. QED BY <1>4, <1>6, <1>7 DEF IInv

(* poll().                                                                   *)
LEMMA PollKeeps ==
    ASSUME IInv, Poll
    PROVE  IInv'
<1>1. PICK other \in {"none", "in"}, ready \in SUBSET Transferring :
        rev' = [accept |-> backlog > 0,
                control |-> [s \in Slots |-> ControlEvent(s, other)],
                data |-> [s \in Slots |-> s \in ready]]
  BY DEF Poll
<1>2. ASSUME NEW s \in Slots
      PROVE  ControlEvent(s, other) \in {"none", "in", "err"}
  BY DEF ControlEvent
<1>3. /\ rev' \in [accept : BOOLEAN, control : [Slots -> {"none", "in", "err"}],
                   data : [Slots -> BOOLEAN]]
      /\ rev'.accept => backlog > 0
  <2> DEFINE a == backlog > 0
             c == [s \in Slots |-> ControlEvent(s, other)]
             d == [s \in Slots |-> s \in ready]
  <2>1. a \in BOOLEAN /\ c \in [Slots -> {"none", "in", "err"}]
    BY <1>2
  <2>2. d \in [Slots -> BOOLEAN]
    OBVIOUS
  <2>3. rev' = [accept |-> a, control |-> c, data |-> d]
    BY <1>1
  <2>4. rev'.accept => backlog > 0
    BY <1>1
  <2> HIDE DEF a, c, d
  <2>5. QED BY <2>1, <2>2, <2>3, <2>4
<1>4. TypeOK'
  BY <1>3 DEF Poll, IInv, TypeOK
<1>5. DescriptorsOwned' /\ AcceptPending' /\ OpeningPending'
  BY <1>3 DEF Poll, IInv, DescriptorsOwned, AcceptPending, OpeningPending
<1>6. QED BY <1>4, <1>5 DEF IInv

(* A client is accepted.                                                     *)
LEMMA AcceptKeeps ==
    ASSUME IInv, Accept
    PROVE  IInv'
<1> DEFINE s == First(Inactive)
           z == [World(s) EXCEPT !.s = Zeroed]
           w == OpenFd(z, "control")
           v == [w EXCEPT !.s.active = TRUE]
           x == [w.s EXCEPT !.active = TRUE]
<1>1. s \in Slots
  BY FirstIsMember DEF Accept, AcceptDue, Inactive
<1>2. /\ at' = "control"
      /\ rev' = [rev EXCEPT !.accept = FALSE]
      /\ \/ UNCHANGED <<sess, fdt, count, backlog>>
         \/ Commit(v) /\ count' = count + 1 /\ backlog' = backlog - 1
      /\ UNCHANGED <<server, cur, lines, opener, inbox, link>>
      /\ backlog > 0
  BY DEF Accept, AcceptDue, IInv, AcceptPending
<1> HIDE DEF s
<1>3. Reaches(World(s), z)
  BY <1>1, WorldIsGood, ZeroedReaches
<1> HIDE DEF z
<1>4. Reaches(World(s), w)
  BY <1>3, ReachedWorld, OpenReaches, ReachesTransitive DEF Roles
<1>5. w \in Worlds /\ w.s \in Session /\ Good(w)
  BY <1>4, ReachedWorld
<1> HIDE DEF w
<1>6. x \in Session /\ x.fd = w.s.fd
  BY <1>5 DEF Session
<1>7. v = [w EXCEPT !.s = x]
  BY <1>5 DEF Worlds
<1> HIDE DEF x, v
<1>8. Reaches(World(s), v)
  BY <1>4, <1>5, <1>6, <1>7, SessionReaches, ReachesTransitive
<1>9. /\ sess' \in [Slots -> Session]
      /\ fdt' \in [Fds -> Uses]
      /\ DescriptorsOwned'
  <2>1. CASE Commit(v)
    BY <1>1, <1>2, <1>8, <2>1, CommitKeeps
  <2>2. CASE UNCHANGED <<sess, fdt>>
    BY <1>2, <2>2 DEF IInv, TypeOK, DescriptorsOwned
  <2>3. QED BY <1>2, <2>1, <2>2
<1>10. count' \in Int /\ backlog' \in 0..MaxBacklog
  BY <1>2, BoundsAssumption DEF IInv, TypeOK
<1>11. /\ rev' \in [accept : BOOLEAN, control : [Slots -> {"none", "in", "err"}],
                    data : [Slots -> BOOLEAN]]
       /\ ~rev'.accept
  BY <1>2 DEF IInv, TypeOK
<1>12. TypeOK'
  BY <1>2, <1>9, <1>10, <1>11 DEF IInv, TypeOK
<1>13. AcceptPending' /\ OpeningPending'
  BY <1>2, <1>11 DEF AcceptPending, OpeningPending
<1>14. QED BY <1>9, <1>12, <1>13 DEF IInv

(* The steps that only move the loop on.                                     *)
LEMMA LoopKeeps ==
    ASSUME IInv, SkipAccept \/ Receive \/ SkipControl \/ LinesDone \/ LoopError
    PROVE  IInv'
<1>1. sess' = sess /\ fdt' = fdt /\ server' = server
  BY DEF SkipAccept, Receive, SkipControl, LinesDone, LoopError
<1>2. DescriptorsOwned'
  BY <1>1 DEF IInv, DescriptorsOwned
<1>3. 0 \in 0..MaxLines
  BY BoundsAssumption
<1>4. CASE SkipAccept
  BY <1>2, <1>4 DEF SkipAccept, IInv, TypeOK, AcceptPending, OpeningPending
<1>5. CASE Receive
  BY <1>2, <1>3, <1>5 DEF Receive, IInv, TypeOK, AcceptPending, OpeningPending
<1>6. CASE SkipControl
  BY <1>2, <1>6 DEF SkipControl, IInv, TypeOK, AcceptPending, OpeningPending
<1>7. CASE LinesDone
  BY <1>2, <1>7 DEF LinesDone, IInv, TypeOK, AcceptPending, OpeningPending
<1>8. CASE LoopError
  BY <1>2, <1>8 DEF LoopError, IInv, TypeOK, AcceptPending, OpeningPending
<1>9. QED BY <1>4, <1>5, <1>6, <1>7, <1>8

(* What clients do.                                                          *)
LEMMA ClientKeeps ==
    ASSUME IInv, Client
    PROVE  IInv'
<1>1. sess' = sess /\ fdt' = fdt /\ server' = server
  BY DEF Client, ClientConnects, ClientSends, ClientLeaves
<1>2. DescriptorsOwned'
  BY <1>1 DEF IInv, DescriptorsOwned
<1>3. CASE ClientConnects
  BY <1>2, <1>3, BoundsAssumption
     DEF ClientConnects, Waiting, IInv, TypeOK, AcceptPending, OpeningPending
<1>4. ASSUME NEW s \in Slots, ClientSends(s) PROVE IInv'
  <2>1. inbox' \in [Slots -> 0..MaxLines]
    BY <1>4, BoundsAssumption DEF ClientSends, IInv, TypeOK
  <2>2. QED BY <1>2, <1>4, <2>1
            DEF ClientSends, IInv, TypeOK, AcceptPending, OpeningPending
<1>5. ASSUME NEW s \in Slots, ClientLeaves(s) PROVE IInv'
  <2>1. link' \in [Slots -> {"up", "closed", "reset"}]
    BY <1>5 DEF ClientLeaves, IInv, TypeOK
  <2>2. QED BY <1>2, <1>5, <2>1
            DEF ClientLeaves, IInv, TypeOK, AcceptPending, OpeningPending
<1>6. QED BY <1>3, <1>4, <1>5 DEF Client

-----------------------------------------------------------------------------
(* The invariant is inductive.                                               *)
LEMMA InitIInv == Init => IInv
<1> SUFFICES ASSUME Init PROVE IInv
  OBVIOUS
<1>1. 0 \in Fds /\ 1 \in Slots /\ 0 \in 0..MaxLines /\ 0 \in 0..MaxBacklog
  BY BoundsAssumption DEF Fds, Slots
<1>2. sess \in [Slots -> Session] /\ fdt \in [Fds -> Uses]
  BY ZeroedIsSession DEF Init, Uses
<1>3. /\ rev \in [accept : BOOLEAN, control : [Slots -> {"none", "in", "err"}],
                  data : [Slots -> BOOLEAN]]
      /\ ~rev.accept
  BY DEF Init, NoEvents
<1>4. TypeOK
  BY <1>1, <1>2, <1>3 DEF Init, TypeOK
<1>5. DescriptorsOwned
  BY ZeroedIsSession DEF Init, DescriptorsOwned
<1>6. QED BY <1>3, <1>4, <1>5 DEF Init, IInv, AcceptPending, OpeningPending

(* Every handler.                                                            *)
LEMMA HandlerKeeps ==
    ASSUME IInv, Handler
    PROVE  IInv'
  BY RejectKeeps, USERKeeps, PASSKeeps, PORTKeeps, PASVKeeps, RESTKeeps,
     RenameKeeps, ABORKeeps, RETRKeeps, UploadKeeps, ListKeeps DEF Handler

(* Every step keeps the invariant.                                           *)
LEMMA NextIInv == IInv /\ [Next]_vars => IInv'
<1> SUFFICES ASSUME IInv, [Next]_vars PROVE IInv'
  OBVIOUS
<1>1. CASE Handler
  BY <1>1, HandlerKeeps
<1>2. CASE Accept
  BY <1>2, AcceptKeeps
<1>3. CASE Hangup
  BY <1>3, HangupKeeps
<1>4. CASE Exit
  BY <1>4, ExitKeeps
<1>5. CASE Start
  BY <1>5, StartKeeps
<1>6. CASE Poll
  BY <1>6, PollKeeps
<1>7. CASE SkipAccept \/ Receive \/ SkipControl \/ LinesDone \/ LoopError
  BY <1>7, LoopKeeps
<1>8. CASE TransferStep \/ TransferBlocks \/ TransferUnblocks \/ SkipData
  BY <1>8, DataStepKeeps
<1>9. CASE PeerConnects \/ OpenFails
  BY <1>9, PeerConnectsKeeps, OpenFailsKeeps
<1>10. CASE Client
  BY <1>10, ClientKeeps
<1>11. CASE UNCHANGED vars
  BY <1>11 DEF vars, IInv, TypeOK, DescriptorsOwned, AcceptPending,
               OpeningPending
<1>12. QED BY <1>1, <1>2, <1>3, <1>4, <1>5, <1>6, <1>7, <1>8, <1>9, <1>10,
             <1>11 DEF Next, Running, Replying, Peer

(* The inductive invariant holds in every state of the server.               *)
THEOREM Invariance == Spec => []IInv
  BY InitIInv, NextIInv, PTL DEF Spec

(* Every variable keeps its type, whatever clients, peers and the kernel do. *)
THEOREM TypeCorrect == Spec => []TypeOK
<1>1. IInv => TypeOK
  BY DEF IInv
<1>2. QED BY <1>1, Invariance, PTL

(* No close ever hits a descriptor of another session, of the listener or of *)
(* another purpose: what a session holds under a number above 0 is what it   *)
(* opened there, in every order of commands, transfers, disconnects, errors  *)
(* and restarts, with either kind of file handle.                            *)
THEOREM Ownership == Spec => []DescriptorsOwned
<1>1. IInv => DescriptorsOwned
  BY DEF IInv
<1>2. QED BY <1>1, Invariance, PTL
=============================================================================
