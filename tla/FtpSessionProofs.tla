-------------------------- MODULE FtpSessionProofs --------------------------
(* More about FtpServer, for every value of its constants: what a session    *)
(* holds between transfers and during one, that each command is answered     *)
(* once, that a transfer gives everything back however it ends, which data   *)
(* sockets are lost, and that the server's count of its sessions is right.   *)
(*                                                                           *)
(* A session is Settled or Moving, or in the one place where its handler     *)
(* blocks, Pending. Helpers touch one handle (Touches), and the end of a     *)
(* handler carries the state its session reached back to the invariant. What *)
(* is said of descriptors above 0 assumes ~ZeroFileOpen: with ZeroFileOpen   *)
(* descriptor 0 may be closed, and opened again for anything.                *)
EXTENDS FtpServerProofs, FiniteSetTheorems

-----------------------------------------------------------------------------
(* What a session may hold.                                                  *)
FileModes == {"retr", "stor"}

Opened(h) == h # None /\ (h > 0 \/ ZeroFileOpen)

NoFiles(x) == ~(x.fd["file"] > 0) /\ x.fd["dir"] = None

Connected(x) ==
    /\ x.dc # "passive" => ~(x.fd["pasv"] > 0)
    /\ x.dc = "none" => ~(x.fd["data"] > 0)

Prepared(x, m) ==
    /\ x.auth = "valid"
    /\ IF m \in FileModes
       THEN Opened(x.fd["file"]) /\ x.fd["dir"] = None
       ELSE ~(x.fd["file"] > 0) /\ x.temp \in {"list", "devices"}

(* A session that waits for its client to connect has no data socket.        *)
Listening(x) == x.dc = "passive" => ~(x.fd["data"] > 0)

Settled(x) ==
    Connected(x) /\ Listening(x) /\ NoFiles(x) /\ x.mode = "none" /\ x.owed = 0

(* A transfer command that has its file, but not yet its connection.         *)
Begun(x, m) == Connected(x) /\ Prepared(x, m) /\ x.mode = "none" /\ x.owed = 0

Pending(x, m) ==
    /\ Begun(x, m) /\ Listening(x)
    /\ x.dc # "none"
    /\ x.dc = "active" => Opened(x.fd["data"])

Moving(x) ==
    /\ Connected(x) /\ x.mode # "none" /\ Prepared(x, x.mode)
    /\ x.dc # "none"
    /\ Opened(x.fd["data"])
    /\ x.owed = 1

Rests(x) == Settled(x) \/ Moving(x)

(* The descriptor table has nothing of a session that the session does not   *)
(* know of, but a data socket.                                               *)
Tidy(w) ==
    ~ZeroFileOpen =>
        /\ w.t[0] = Std
        /\ w.s.fd["dir"] # 0
        /\ \A f \in Fds, r \in Roles \ {"data"} :
             w.t[f] = Owner(w.me, r) => w.s.fd[r] = f

(* The data sockets a session does not know of any more, and the one that a  *)
(* transfer command may add to them: that of a connect() that failed.        *)
Lost(w) == {f \in Fds : w.t[f] = Owner(w.me, "data") /\ w.s.fd["data"] # f}

Retried ==
    {f \in Fds : /\ at = "lines"
                 /\ sess[cur].fd["data"] = f
                 /\ sess[cur].dc = "active"
                 /\ sess[cur].mode = "none"}

Keeps(w, v) == ~ZeroFileOpen => Lost(v) \subseteq Lost(w) \cup Retried

(* What is opened next loses no other socket.                                *)
Spare(x) == x.fd["data"] > 0 => x.dc = "active" /\ x.fd["data"] \in Retried

(* The fields those conditions read, handles apart.                          *)
Alike(x, y) ==
    /\ y.active = x.active /\ y.auth = x.auth /\ y.dc = x.dc
    /\ y.mode = x.mode /\ y.temp = x.temp /\ y.owed = x.owed

(* From w to v, nothing changed but the handle of r and its descriptor.      *)
Touches(w, v, r) ==
    /\ Reaches(w, v) /\ Tidy(v) /\ Keeps(w, v)
    /\ Alike(w.s, v.s)
    /\ \A q \in Roles \ {r} : v.s.fd[q] = w.s.fd[q]

(* What has to be given back as a transfer ends.                             *)
GivenBack(x) ==
    /\ x.mode = "none" /\ x.dc = "none"
    /\ x.off = 0 /\ x.size = 0
    /\ x.temp = "empty"
    /\ \A r \in Roles \ {"control"} : x.fd[r] <= 0

-----------------------------------------------------------------------------
(* The helpers.                                                              *)

(* A session's handles are descriptors or none.                              *)
LEMMA HandleType ==
    ASSUME NEW w, Good(w), NEW r \in Roles
    PROVE  w.s.fd[r] \in Int /\ w.s.fd[r] \in Fds \cup {None}
  BY BoundsAssumption DEF Good, Worlds, Session, Fds, None

(* A call after another, and a change of what is no handle.                  *)
LEMMA KeepsTransitive ==
    ASSUME NEW w, NEW v, NEW u, Keeps(w, v), Keeps(v, u)
    PROVE  Keeps(w, u)
  BY DEF Keeps

LEMMA KeepsSame ==
    ASSUME NEW w, NEW v, v.t = w.t, v.me = w.me, v.s.fd["data"] = w.s.fd["data"]
    PROVE  Keeps(w, v)
  BY DEF Keeps, Lost

(* A handle is written over, that names nothing or may be lost.              *)
LEMMA KeepsOthers ==
    ASSUME NEW w, Tidy(w), NEW v, v.me = w.me, NEW r \in Roles,
           w.s.fd[r] > 0 => r = "data" /\ w.s.fd[r] \in Retried,
           \A q \in Roles \ {r} : v.s.fd[q] = w.s.fd[q],
           \A g \in Lost(v) : w.t[g] = Owner(w.me, "data")
    PROVE  Keeps(w, v)
<1>1. SUFFICES ASSUME ~ZeroFileOpen, NEW g \in Lost(v), w.s.fd["data"] = g
               PROVE  g \in Retried
  BY DEF Keeps, Lost
<1>2. w.t[g] = Owner(w.me, "data") /\ w.t[0] = Std
  BY <1>1 DEF Tidy
<1>3. g \in Fds /\ g > 0 /\ v.s.fd["data"] # g
  BY <1>1, <1>2 DEF Std, Owner, Fds, Lost
<1>4. r = "data"
  BY <1>1, <1>3 DEF Roles
<1>5. QED BY <1>1, <1>3, <1>4

(* A new descriptor, for a role that has none.                               *)
LEMMA OpenTouches ==
    ASSUME NEW w, Good(w), Tidy(w), NEW r \in Roles,
           w.s.fd[r] > 0 => r = "data" /\ w.s.fd[r] \in Retried
    PROVE  /\ Touches(w, OpenFd(w, r), r)
           /\ OpenFd(w, r).s.fd[r] # None => Opened(OpenFd(w, r).s.fd[r])
<1> DEFINE f == LowestFree(w.t)
           v == OpenFd(w, r)
<1>1. Reaches(w, v)
  BY OpenReaches
<1>2. CASE \E g \in Fds : w.t[g] = Free
  <2>1. f \in Fds /\ w.t[f] = Free
    BY <1>2, LowestFreeIsFree
  <2> HIDE DEF f
  <2>2. v = [me |-> w.me,
             s  |-> [w.s EXCEPT !.fd = [w.s.fd EXCEPT ![r] = f]],
             t  |-> [w.t EXCEPT ![f] = Owner(w.me, r)]]
    BY <1>2 DEF OpenFd, Good, Worlds, Session, f
  <2> HIDE DEF v
  <2>3. Alike(w.s, v.s) /\ v.s.fd[r] = f
        /\ \A q \in Roles \ {r} : v.s.fd[q] = w.s.fd[q]
    BY <2>2 DEF Alike, Good, Worlds, Session
  <2>4. ~ZeroFileOpen => f > 0
    BY <2>1 DEF Tidy, Std, Free, Fds
  <2>5. ASSUME ~ZeroFileOpen PROVE v.t[0] = Std /\ v.s.fd["dir"] # 0
    <3>1. v.t[0] = Std
      BY <2>1, <2>2, <2>4, <2>5 DEF Tidy, Good, Worlds, Fds
    <3>2. v.s.fd["dir"] # 0
      BY <2>3, <2>4, <2>5 DEF Tidy, Roles
    <3>3. QED BY <3>1, <3>2
  <2>6. ASSUME ~ZeroFileOpen, NEW g \in Fds, NEW q \in Roles \ {"data"},
               v.t[g] = Owner(v.me, q)
        PROVE  v.s.fd[q] = g
    <3>1. v.me = w.me /\ w.t \in [Fds -> Uses]
      BY <2>2 DEF Good, Worlds
    <3>2. CASE g = f
      <4>1. v.t[g] = Owner(w.me, r)
        BY <2>2, <3>1, <3>2
      <4>2. q = r
        BY <2>6, <3>1, <4>1 DEF Owner
      <4>3. QED BY <2>3, <3>2, <4>2
    <3>3. CASE g # f
      <4>1. w.t[g] = Owner(w.me, q)
        BY <2>2, <2>6, <3>1, <3>3
      <4>2. w.s.fd[q] = g
        BY <2>6, <4>1 DEF Tidy
      <4>3. w.t[0] = Std
        BY <2>6 DEF Tidy
      <4>4. g > 0
        BY <4>1, <4>3 DEF Std, Owner, Roles, Fds
      <4>5. q # r
        BY <4>2, <4>4
      <4>6. QED BY <2>3, <4>2, <4>5
    <3>4. QED BY <3>2, <3>3
  <2>7. Tidy(v)
    BY <2>5, <2>6 DEF Tidy
  <2>8. v.s.fd[r] # None => Opened(v.s.fd[r])
    BY <2>3, <2>4 DEF Opened
  <2>9. Keeps(w, v)
    <3>1. v.me = w.me
      BY <2>2
    <3>2. ASSUME NEW g \in Lost(v) PROVE w.t[g] = Owner(w.me, "data")
      <4>1. g \in Fds /\ v.t[g] = Owner(w.me, "data") /\ v.s.fd["data"] # g
        BY <3>1, <3>2 DEF Lost
      <4>2. CASE g = f
        <5>1. v.t[g] = Owner(w.me, r)
          BY <2>1, <2>2, <4>2 DEF Good, Worlds
        <5>2. r = "data"
          BY <4>1, <5>1 DEF Owner
        <5>3. QED BY <2>3, <4>1, <4>2, <5>2
      <4>3. CASE g # f
        BY <2>2, <4>1, <4>3 DEF Good, Worlds
      <4>4. QED BY <4>2, <4>3
    <3>3. QED BY <2>3, <3>1, <3>2, KeepsOthers
  <2>10. QED BY <1>1, <2>3, <2>7, <2>8, <2>9 DEF Touches, v
<1>3. CASE ~ \E g \in Fds : w.t[g] = Free
  <2>1. v = [me |-> w.me,
             s  |-> [w.s EXCEPT !.fd = [w.s.fd EXCEPT ![r] = None]],
             t  |-> w.t]
    BY <1>3 DEF OpenFd, Good, Worlds, Session
  <2> HIDE DEF v
  <2>2. Alike(w.s, v.s) /\ v.s.fd[r] = None /\ v.t = w.t /\ v.me = w.me
        /\ \A q \in Roles \ {r} : v.s.fd[q] = w.s.fd[q]
    BY <2>1 DEF Alike, Good, Worlds, Session
  <2>3. ASSUME ~ZeroFileOpen, NEW g \in Fds, NEW q \in Roles \ {"data"},
               v.t[g] = Owner(v.me, q)
        PROVE  v.s.fd[q] = g
    <3>1. w.t[g] = Owner(w.me, q) /\ w.s.fd[q] = g /\ w.t[0] = Std
      BY <2>2, <2>3 DEF Tidy
    <3>2. g > 0
      BY <3>1 DEF Std, Owner, Roles, Fds
    <3>3. QED BY <2>2, <3>1, <3>2
  <2>4. Tidy(v)
    BY <2>2, <2>3 DEF Tidy, None, Roles
  <2>5. Keeps(w, v)
    <3>1. \A g \in Lost(v) : w.t[g] = Owner(w.me, "data")
      BY <2>2 DEF Lost
    <3>2. QED BY <2>2, <3>1, KeepsOthers
  <2>6. QED BY <1>1, <2>2, <2>4, <2>5 DEF Touches, v
<1>4. QED BY <1>2, <1>3

(* A close of a handle that names a descriptor of the session.               *)
LEMMA CloseTouches ==
    ASSUME NEW w, Good(w), Tidy(w), NEW r \in Roles, w.s.fd[r] \in Fds,
           w.s.fd[r] > 0 \/ ZeroFileOpen
    PROVE  Touches(w, CloseFd(w, r), r) /\ CloseFd(w, r).s.fd[r] = None
<1> DEFINE f == w.s.fd[r]
           v == CloseFd(w, r)
<1>1. Reaches(w, v)
  BY CloseReaches
<1>2. v = [w EXCEPT !.s.fd[r] = None, !.t[f] = Free] /\ f \in Fds
  BY DEF CloseFd
<1>3. f = w.s.fd[r]
  OBVIOUS
<1> HIDE DEF f, v
<1>4. v = [me |-> w.me,
           s  |-> [w.s EXCEPT !.fd = [w.s.fd EXCEPT ![r] = None]],
           t  |-> [w.t EXCEPT ![f] = Free]]
  BY <1>2 DEF Good, Worlds, Session
<1>5. Alike(w.s, v.s) /\ v.s.fd[r] = None /\ v.me = w.me
      /\ \A q \in Roles \ {r} : v.s.fd[q] = w.s.fd[q]
  BY <1>4 DEF Alike, Good, Worlds, Session
<1>6. \A g \in Fds : v.t[g] = IF g = f THEN Free ELSE w.t[g]
  BY <1>2, <1>4 DEF Good, Worlds
<1>7. ASSUME ~ZeroFileOpen PROVE v.t[0] = Std /\ v.s.fd["dir"] # 0
  <2>1. 0 \in Fds /\ f # 0
    BY <1>3, <1>7, BoundsAssumption DEF Fds
  <2>2. QED BY <1>5, <1>6, <1>7, <2>1 DEF Tidy, None, Roles
<1>8. ASSUME ~ZeroFileOpen, NEW g \in Fds, NEW q \in Roles \ {"data"},
             v.t[g] = Owner(v.me, q)
      PROVE  v.s.fd[q] = g
  <2>1. g # f /\ w.t[g] = Owner(w.me, q)
    <3>1. CASE g = f
      <4>1. v.t[g] = Free
        BY <1>6, <3>1
      <4>2. q # "free"
        BY DEF Roles
      <4>3. QED BY <1>8, <4>1, <4>2 DEF Owner, Free
    <3>2. CASE g # f
      <4>1. v.t[g] = w.t[g]
        BY <1>6, <3>2
      <4>2. QED BY <1>5, <1>8, <3>2, <4>1
    <3>3. QED BY <3>1, <3>2
  <2>2. w.s.fd[q] = g
    BY <1>8, <2>1 DEF Tidy
  <2>3. QED BY <1>5, <1>3, <2>1, <2>2
<1>9. Tidy(v)
  BY <1>7, <1>8 DEF Tidy
<1>10. Keeps(w, v)
  <2>1. ASSUME NEW g \in Lost(v) PROVE g \in Lost(w)
    <3>1. g \in Fds /\ v.t[g] = Owner(w.me, "data") /\ v.s.fd["data"] # g
      BY <1>5, <2>1 DEF Lost
    <3>2. Free # Owner(w.me, "data")
      BY DEF Free, Owner
    <3>3. g # f /\ w.t[g] = Owner(w.me, "data")
      BY <1>6, <3>1, <3>2
    <3>4. w.s.fd["data"] # g
      BY <1>5, <1>3, <3>1, <3>3 DEF Roles
    <3>5. QED BY <3>1, <3>3, <3>4 DEF Lost
  <2>2. QED BY <2>1 DEF Keeps
<1>11. QED BY <1>1, <1>5, <1>9, <1>10 DEF Touches, v

(* Nothing happens.                                                          *)
LEMMA TouchesNothing ==
    ASSUME NEW w, Good(w), Tidy(w), NEW r
    PROVE  Touches(w, w, r)
  BY ReachesReflexive DEF Touches, Alike, Keeps

(* close() of a socket, if there is one.                                     *)
LEMMA CloseSocketTouches ==
    ASSUME NEW w, Good(w), Tidy(w), NEW r \in Roles
    PROVE  Touches(w, CloseSocket(w, r), r) /\ ~(CloseSocket(w, r).s.fd[r] > 0)
<1>1. w.s.fd[r] > 0 => w.s.fd[r] \in Fds
  BY HandleType DEF None
<1>2. ~(None > 0)
  BY DEF None
<1>3. QED BY <1>1, <1>2, CloseTouches, TouchesNothing DEF CloseSocket

(* ftp_vfs_close.                                                            *)
LEMMA VfsCloseTouches ==
    ASSUME NEW w, Good(w), Tidy(w)
    PROVE  Touches(w, VfsClose(w), "file") /\ ~(VfsClose(w).s.fd["file"] > 0)
<1>1. "file" \in Roles /\ ~(None > 0)
  BY DEF Roles, None
<1>2. IsFileOpen(w) => w.s.fd["file"] \in Fds /\ (w.s.fd["file"] > 0 \/ ZeroFileOpen)
  BY <1>1, HandleType DEF IsFileOpen, None
<1>3. ~IsFileOpen(w) => ~(w.s.fd["file"] > 0)
  BY DEF IsFileOpen
<1>4. QED BY <1>1, <1>2, <1>3, CloseTouches, TouchesNothing DEF VfsClose

(* ftp_vfs_closedir.                                                         *)
LEMMA VfsCloseDirTouches ==
    ASSUME NEW w, Good(w), Tidy(w)
    PROVE  Touches(w, VfsCloseDir(w), "dir") /\ VfsCloseDir(w).s.fd["dir"] = None
<1>1. "dir" \in Roles
  BY DEF Roles
<1>2. w.s.fd["dir"] # None => w.s.fd["dir"] \in Fds /\ (w.s.fd["dir"] > 0 \/ ZeroFileOpen)
  BY <1>1, HandleType, BoundsAssumption DEF Tidy, Fds
<1>3. QED BY <1>1, <1>2, CloseTouches, TouchesNothing DEF VfsCloseDir

(* A handle that names nothing is overwritten, or that of a data socket.     *)
LEMMA ForgetTouches ==
    ASSUME NEW w, Good(w), Tidy(w), NEW r \in Roles,
           w.s.fd[r] > 0 => r = "data" /\ w.s.fd[r] \in Retried
    PROVE  /\ Touches(w, [w EXCEPT !.s.fd[r] = None], r)
           /\ [w EXCEPT !.s.fd[r] = None].s.fd[r] = None
<1> DEFINE v == [w EXCEPT !.s.fd[r] = None]
<1>1. Reaches(w, v)
  BY ForgetReaches
<1>2. v = [me |-> w.me,
           s  |-> [w.s EXCEPT !.fd = [w.s.fd EXCEPT ![r] = None]],
           t  |-> w.t]
  BY DEF Good, Worlds, Session
<1> HIDE DEF v
<1>3. Alike(w.s, v.s) /\ v.s.fd[r] = None /\ v.t = w.t /\ v.me = w.me
      /\ \A q \in Roles \ {r} : v.s.fd[q] = w.s.fd[q]
  BY <1>2 DEF Alike, Good, Worlds, Session
<1>4. ASSUME ~ZeroFileOpen, NEW g \in Fds, NEW q \in Roles \ {"data"},
             v.t[g] = Owner(v.me, q)
      PROVE  v.s.fd[q] = g
  <2>1. w.t[g] = Owner(w.me, q) /\ w.s.fd[q] = g /\ w.t[0] = Std
    BY <1>3, <1>4 DEF Tidy
  <2>2. g > 0
    BY <2>1 DEF Std, Owner, Roles, Fds
  <2>3. QED BY <1>3, <2>1, <2>2
<1>5. Tidy(v)
  BY <1>3, <1>4 DEF Tidy, None, Roles
<1>6. Keeps(w, v)
  <2>1. \A g \in Lost(v) : w.t[g] = Owner(w.me, "data")
    BY <1>3 DEF Lost
  <2>2. QED BY <1>3, <2>1, KeepsOthers
<1>7. QED BY <1>1, <1>3, <1>5, <1>6 DEF Touches, v

(* ftp_data_transfer_end gives back all that belongs to the transfer, from   *)
(* whatever state the session is in, and lets go of nothing else.            *)
LEMMA TransferEndGivesBack ==
    ASSUME NEW w, Good(w), Tidy(w), Connected(w.s)
    PROVE  LET e == DataTransferEnd(w)
           IN  /\ Reaches(w, e) /\ Tidy(e) /\ Keeps(w, e)
               /\ GivenBack(e.s) /\ NoFiles(e.s) /\ Connected(e.s)
               /\ e.s.active = w.s.active /\ e.s.auth = w.s.auth
               /\ e.s.owed = w.s.owed
               /\ e.s.fd["control"] = w.s.fd["control"]
<1> DEFINE d == CloseSocket(w, "data")
           p == CloseSocket(d, "pasv")
           a == CloseDataSockets(w)
           b == VfsClose(a)
           c == VfsCloseDir(b)
           e == DataTransferEnd(w)
<1>1. "data" \in Roles /\ "pasv" \in Roles /\ "file" \in Roles /\ "dir" \in Roles
  BY DEF Roles
<1>2. Touches(w, d, "data") /\ ~(d.s.fd["data"] > 0) /\ Good(d) /\ Tidy(d)
  BY <1>1, CloseSocketTouches DEF Touches, Reaches
<1> HIDE DEF d
<1>3. Touches(d, p, "pasv") /\ ~(p.s.fd["pasv"] > 0) /\ Good(p) /\ Tidy(p)
  BY <1>1, <1>2, CloseSocketTouches DEF Touches, Reaches
<1>4. a = CASE w.s.dc = "none" -> w [] w.s.dc = "active" -> d [] w.s.dc = "passive" -> p
  BY DEF CloseDataSockets, d, p
<1> HIDE DEF p, a
<1>5. w.s.dc \in {"none", "active", "passive"}
  BY DEF Good, Worlds, Session
<1>6. /\ Reaches(w, a) /\ Good(a) /\ Tidy(a) /\ Alike(w.s, a.s) /\ Keeps(w, a)
      /\ ~(a.s.fd["data"] > 0) /\ ~(a.s.fd["pasv"] > 0)
      /\ a.s.fd["control"] = w.s.fd["control"]
  <2>1. CASE w.s.dc = "none"
    <3>1. a = w
      BY <1>4, <2>1
    <3>2. QED BY <1>1, <2>1, <3>1, ReachesReflexive DEF Connected, Alike, Keeps
  <2>2. CASE w.s.dc = "active"
    <3>1. a = d
      BY <1>4, <2>2
    <3>2. d.s.fd["pasv"] = w.s.fd["pasv"] /\ d.s.fd["control"] = w.s.fd["control"]
      BY <1>2 DEF Touches, Roles
    <3>3. QED BY <1>2, <2>2, <3>1, <3>2 DEF Connected, Touches
  <2>3. CASE w.s.dc = "passive"
    <3>1. a = p
      BY <1>4, <2>3
    <3>2. p.s.fd["data"] = d.s.fd["data"] /\ p.s.fd["control"] = w.s.fd["control"]
      BY <1>2, <1>3 DEF Touches, Roles
    <3>3. Reaches(w, p) /\ Alike(w.s, p.s)
      BY <1>2, <1>3, ReachesTransitive DEF Touches, Alike
    <3>4. Keeps(w, p)
      BY <1>2, <1>3, KeepsTransitive DEF Touches
    <3>5. QED BY <1>2, <1>3, <3>1, <3>2, <3>3, <3>4
  <2>4. QED BY <1>5, <2>1, <2>2, <2>3
<1>7. Touches(a, b, "file") /\ ~(b.s.fd["file"] > 0) /\ Good(b) /\ Tidy(b)
  BY <1>6, VfsCloseTouches DEF Touches, Reaches
<1> HIDE DEF b
<1>8. Touches(b, c, "dir") /\ c.s.fd["dir"] = None /\ Good(c) /\ Tidy(c)
  BY <1>7, VfsCloseDirTouches DEF Touches, Reaches
<1>9. e = [c EXCEPT !.s.temp = "empty", !.s.off = 0, !.s.size = 0,
                    !.s.mode = "none", !.s.dc = "none"]
  BY DEF DataTransferEnd, a, b, c
<1> HIDE DEF c
<1>10. /\ Reaches(w, c) /\ Alike(w.s, c.s) /\ Keeps(w, c)
       /\ ~(c.s.fd["data"] > 0) /\ ~(c.s.fd["pasv"] > 0) /\ ~(c.s.fd["file"] > 0)
       /\ c.s.fd["control"] = w.s.fd["control"]
  <2>1. Reaches(w, b) /\ Reaches(w, c)
    BY <1>6, <1>7, <1>8, ReachesTransitive DEF Touches
  <2>2. Alike(w.s, b.s) /\ Alike(w.s, c.s)
    BY <1>6, <1>7, <1>8 DEF Touches, Alike
  <2>3. /\ b.s.fd["data"] = a.s.fd["data"] /\ b.s.fd["pasv"] = a.s.fd["pasv"]
        /\ c.s.fd["data"] = b.s.fd["data"] /\ c.s.fd["pasv"] = b.s.fd["pasv"]
        /\ c.s.fd["file"] = b.s.fd["file"]
        /\ b.s.fd["control"] = a.s.fd["control"] /\ c.s.fd["control"] = b.s.fd["control"]
    BY <1>7, <1>8 DEF Touches, Roles
  <2>4. Keeps(w, b) /\ Keeps(w, c)
    BY <1>6, <1>7, <1>8, KeepsTransitive DEF Touches
  <2>5. QED BY <1>6, <1>7, <2>1, <2>2, <2>3, <2>4
<1>11. /\ e.me = c.me /\ e.t = c.t /\ e.s.fd = c.s.fd
       /\ e.s.temp = "empty" /\ e.s.off = 0 /\ e.s.size = 0
       /\ e.s.mode = "none" /\ e.s.dc = "none"
       /\ e.s.active = c.s.active /\ e.s.auth = c.s.auth /\ e.s.owed = c.s.owed
  <2> DEFINE x == [c.s EXCEPT !.temp = "empty", !.off = 0, !.size = 0,
                              !.mode = "none", !.dc = "none"]
  <2>1. c \in Worlds /\ c.s \in Session
    BY <1>8 DEF Good, Worlds
  <2>2. e = [me |-> c.me, s |-> x, t |-> c.t]
    BY <1>9, <2>1 DEF Worlds
  <2>3. /\ x.fd = c.s.fd /\ x.temp = "empty" /\ x.off = 0 /\ x.size = 0
        /\ x.mode = "none" /\ x.dc = "none"
        /\ x.active = c.s.active /\ x.auth = c.s.auth /\ x.owed = c.s.owed
    BY <2>1 DEF Session
  <2> HIDE DEF e, x
  <2>4. QED BY <2>2, <2>3
<1>12. Reaches(w, e)
  BY TransferEndReaches
<1> HIDE DEF e
<1>13. Tidy(e)
  BY <1>8, <1>11 DEF Tidy
<1>14. \A r \in Roles \ {"control"} : e.s.fd[r] <= 0
  <2>1. \A r \in Roles : c.s.fd[r] \in Int
    BY <1>8, HandleType
  <2>2. QED BY <1>8, <1>10, <1>11, <2>1 DEF Roles, None
<1>15. GivenBack(e.s) /\ NoFiles(e.s) /\ Connected(e.s)
  BY <1>8, <1>10, <1>11, <1>14 DEF GivenBack, NoFiles, Connected
<1>16. e.s.active = w.s.active /\ e.s.auth = w.s.auth /\ e.s.owed = w.s.owed
       /\ e.s.fd["control"] = w.s.fd["control"]
  BY <1>10, <1>11 DEF Alike
<1>17. Keeps(w, e)
  <2>1. Keeps(c, e)
    BY <1>11, KeepsSame
  <2>2. QED BY <1>10, <2>1, KeepsTransitive
<1>18. QED BY <1>12, <1>13, <1>15, <1>16, <1>17 DEF e

-----------------------------------------------------------------------------
(* The invariant.                                                            *)

SessionsFit ==
    \A s \in Slots :
        /\ IF Opening(s) THEN Pending(sess[s], opener) ELSE Rests(sess[s])
        /\ ~sess[s].active => sess[s] = Zeroed

TablesTidy == \A s \in Slots : Tidy(World(s))

CountRight == count = Cardinality(Active)

(* The thread is at an active session, and stops when there is none.         *)
ThreadPlaced ==
    /\ at \in {"lines", "opening", "transfer"} => sess[cur].active
    /\ at = "transfer" => sess[cur].mode # "none"
    /\ at = "stopped" => \A s \in Slots : ~sess[s].active

(* What poll() said of a control socket holds until its turn, and no longer. *)
EventsPending ==
    /\ \A s \in Slots : rev.control[s] # "none" => sess[s].active
    /\ at \in {"poll", "exit", "stopped"} =>
         \A s \in Slots : rev.control[s] = "none"
    /\ at \in {"lines", "opening", "data", "transfer"} =>
         \A s \in 1..cur : rev.control[s] = "none"
    /\ at = "control" => \A s \in 1..(cur - 1) : rev.control[s] = "none"
    /\ at \in {"poll", "accept", "exit", "stopped"} => cur = 1

(* An active session has its client's connection.                            *)
ClientsHeld ==
    ~ZeroFileOpen => \A s \in Slots : sess[s].active => sess[s].fd["control"] > 0

SInv ==
    /\ IInv /\ ClientsHeld
    /\ SessionsFit /\ TablesTidy
    /\ CountRight /\ ThreadPlaced /\ EventsPending

(* What TransferEndsClean says of a step.                                    *)
EndsClean ==
    \A s \in Slots :
        sess[s].mode # "none" /\ sess'[s].mode # sess[s].mode => GivenBack(sess'[s])

(* What DataSocketLostOnRetry says of it.                                    *)
OrphansKept == ~ZeroFileOpen => Orphans' \subseteq Orphans \cup Retried

StepFits == EndsClean /\ OrphansKept

(* What the handler of the current session has reached.                      *)
Carried(v) ==
    /\ Reaches(World(cur), v) /\ Tidy(v) /\ Keeps(World(cur), v)
    /\ v.s.active /\ v.s.fd["control"] = sess[cur].fd["control"]

InHandler == at \in {"lines", "opening"} /\ lines > 0

-----------------------------------------------------------------------------
(* From a handler back to the invariant.                                     *)

(* A descriptor that no session knows of is lost to the one it is open for.  *)
LEMMA OrphansAreLost ==
    ASSUME TypeOK, NEW f
    PROVE  f \in Orphans <=> \E s \in Slots : f \in Lost(World(s))
<1>1. ASSUME f \in Fds, fdt[f].role = "data"
      PROVE  fdt[f].slot \in Slots /\ fdt[f] = Owner(fdt[f].slot, "data")
  <2>1. fdt[f] \in Uses
    BY <1>1 DEF TypeOK
  <2>2. fdt[f] \notin {Free, Std, Listener}
    BY ONLY <1>1 DEF Free, Std, Listener
  <2>3. fdt[f] \in [slot : Slots, role : Roles]
    BY ONLY <2>1, <2>2 DEF Uses
  <2>4. QED BY ONLY <1>1, <2>3 DEF Owner
<1>2. \A s : Owner(s, "data").role = "data" /\ Owner(s, "data").slot = s
  BY DEF Owner
<1>3. \A s : World(s).t = fdt /\ World(s).s = sess[s] /\ World(s).me = s
  BY DEF World
<1>4. QED BY <1>1, <1>2, <1>3 DEF Orphans, Lost

(* Where a step of the current session starts.                               *)
LEMMA CurrentWorld ==
    ASSUME SInv
    PROVE  /\ cur \in Slots /\ sess[cur] \in Session
           /\ Reaches(World(cur), World(cur)) /\ Good(World(cur))
           /\ Keeps(World(cur), World(cur))
           /\ World(cur) \in Worlds /\ Tidy(World(cur))
           /\ World(cur).s = sess[cur] /\ World(cur).me = cur
           /\ at \in {"lines", "transfer"} => Rests(sess[cur]) /\ sess[cur].active
           /\ at = "opening" => Pending(sess[cur], opener) /\ sess[cur].active
           /\ at = "data" => Rests(sess[cur])
<1>1. cur \in Slots /\ World(cur).s = sess[cur] /\ World(cur).me = cur
  BY DEF SInv, IInv, TypeOK, World
<1>2. Reaches(World(cur), World(cur)) /\ Good(World(cur)) /\ World(cur) \in Worlds
      /\ sess[cur] \in Session
  BY <1>1, HandlerStart DEF SInv
<1>3. Tidy(World(cur))
  BY <1>1 DEF SInv, TablesTidy
<1>4. /\ at \in {"lines", "transfer"} => Rests(sess[cur]) /\ sess[cur].active
      /\ at = "opening" => Pending(sess[cur], opener) /\ sess[cur].active
      /\ at = "data" => Rests(sess[cur])
  BY <1>1 DEF SInv, SessionsFit, Opening, ThreadPlaced
<1>5. Keeps(World(cur), World(cur))
  BY DEF Keeps
<1>6. QED BY <1>1, <1>2, <1>3, <1>4, <1>5

(* A change of fields that are no handles.                                   *)
LEMMA FieldsCarry ==
    ASSUME NEW w, Good(w), Tidy(w), NEW x \in Session, x.fd = w.s.fd,
           NEW v, v = [w EXCEPT !.s = x]
    PROVE  Reaches(w, v) /\ Tidy(v) /\ Keeps(w, v) /\ v.s = x /\ Good(v)
<1>1. Reaches(w, v)
  BY SessionReaches
<1>2. v.s = x /\ v.t = w.t /\ v.me = w.me
  BY DEF Good, Worlds
<1>3. Tidy(v)
  BY <1>2 DEF Tidy
<1>4. Keeps(w, v)
  BY <1>2, KeepsSame
<1>5. QED BY <1>1, <1>2, <1>3, <1>4 DEF Reaches

(* What one session opens and closes leaves the others tidy.                 *)
LEMMA CommitTidies ==
    ASSUME SInv, NEW i \in Slots, NEW v, Reaches(World(i), v), Tidy(v),
           Keeps(World(i), v), Commit(v)
    PROVE  TablesTidy' /\ sess' = [sess EXCEPT ![i] = v.s] /\ OrphansKept
<1>1. v.me = i /\ v.s \in Session /\ v.t \in [Fds -> Uses]
  BY DEF Reaches, Good, Worlds, World
<1>2. sess' = [sess EXCEPT ![i] = v.s] /\ fdt' = v.t
  BY <1>1 DEF Commit
<1>3. sess \in [Slots -> Session] /\ fdt \in [Fds -> Uses]
  BY DEF SInv, IInv, TypeOK
<1>4. ASSUME ~ZeroFileOpen, NEW s \in Slots
      PROVE  /\ fdt'[0] = Std
             /\ sess'[s].fd["dir"] # 0
             /\ \A f \in Fds, r \in Roles \ {"data"} :
                  fdt'[f] = Owner(s, r) => sess'[s].fd[r] = f
  <2>1. v.t[0] = Std /\ v.s.fd["dir"] # 0
        /\ \A f \in Fds, r \in Roles \ {"data"} :
             v.t[f] = Owner(i, r) => v.s.fd[r] = f
    BY <1>1, <1>4 DEF Tidy
  <2>2. CASE s = i
    BY <1>2, <1>3, <2>1, <2>2
  <2>3. CASE s # i
    <3>1. sess'[s] = sess[s]
      BY <1>2, <1>3, <2>3
    <3>2. fdt[0] = Std /\ sess[s].fd["dir"] # 0
          /\ \A f \in Fds, r \in Roles \ {"data"} :
               fdt[f] = Owner(s, r) => sess[s].fd[r] = f
      BY <1>4 DEF SInv, TablesTidy, Tidy, World
    <3>3. ASSUME NEW f \in Fds, NEW r \in Roles \ {"data"}, fdt'[f] = Owner(s, r)
          PROVE  sess[s].fd[r] = f
      <4>1. f # 0
        BY <1>2, <2>1, <3>3 DEF Std, Owner, Roles
      <4>2. fdt'[f].slot = s /\ s # 0
        BY <3>3 DEF Owner, Slots
      <4>3. fdt'[f] \notin Mine(i)
        BY <2>3, <4>2, MineIs DEF Free
      <4>4. fdt[f] = fdt'[f]
        BY <1>2, <4>1, <4>3 DEF Reaches, World
      <4>5. QED BY <3>2, <3>3, <4>4
    <3>4. QED BY <1>2, <2>1, <3>1, <3>2, <3>3
  <2>4. QED BY <2>2, <2>3
<1>5. TablesTidy'
  BY <1>4 DEF TablesTidy, Tidy, World
<1>6. OrphansKept
  <2>1. SUFFICES ASSUME ~ZeroFileOpen, NEW f \in Orphans'
                 PROVE  f \in Orphans \cup Retried
    BY DEF OrphansKept
  <2>2. sess' \in [Slots -> Session] /\ fdt' \in [Fds -> Uses]
    BY <1>1, <1>2, <1>3
  <2>3. TypeOK
    BY DEF SInv, IInv
  <2>4. PICK s \in Slots : f \in Fds /\ fdt'[f] = Owner(s, "data") /\ sess'[s].fd["data"] # f
    <3>1. fdt'[f] \in Uses /\ fdt'[f].role = "data" /\ f \in Fds
      BY <2>1, <2>2 DEF Orphans
    <3>2. fdt'[f] \notin {Free, Std, Listener}
      BY ONLY <3>1 DEF Free, Std, Listener
    <3>3. fdt'[f] \in [slot : Slots, role : Roles]
      BY ONLY <3>1, <3>2 DEF Uses
    <3>4. fdt'[f].slot \in Slots /\ fdt'[f] = Owner(fdt'[f].slot, "data")
      BY ONLY <3>1, <3>3 DEF Owner
    <3>5. sess'[fdt'[f].slot].fd["data"] # f
      BY <2>1 DEF Orphans
    <3>6. QED BY <3>1, <3>4, <3>5
  <2>5. CASE s = i
    <3>1. f \in Lost(v)
      BY <1>1, <1>2, <1>3, <2>4, <2>5 DEF Lost
    <3>2. f \in Lost(World(i)) \/ f \in Retried
      BY <2>1, <3>1 DEF Keeps
    <3>3. QED BY <2>3, <3>2, OrphansAreLost
  <2>6. CASE s # i
    <3>1. sess'[s] = sess[s]
      BY <1>2, <1>3, <2>6
    <3>2. v.t[0] = Std
      BY <2>1 DEF Tidy
    <3>3. f # 0
      BY <1>2, <2>4, <3>2 DEF Std, Owner
    <3>4. fdt'[f].slot = s /\ s # 0
      BY <2>4 DEF Owner, Slots
    <3>5. fdt'[f] \notin Mine(i)
      BY <2>6, <3>4, MineIs DEF Free
    <3>6. fdt[f] = fdt'[f]
      BY <1>2, <2>4, <3>3, <3>5 DEF Reaches, World
    <3>7. f \in Lost(World(s))
      BY <2>4, <3>1, <3>6 DEF Lost, World
    <3>8. QED BY <2>3, <3>7, OrphansAreLost
  <2>7. QED BY <2>5, <2>6
<1>7. QED BY <1>2, <1>5, <1>6

(* The parts of the invariant a handler ends with, if the session it leaves  *)
(* fits: the others are as they were.                                        *)
LEMMA HandlerEnds ==
    ASSUME SInv, InHandler, NEW x \in Session, x.active,
           x.fd["control"] = sess[cur].fd["control"],
           sess' = [sess EXCEPT ![cur] = x],
           UNCHANGED <<count, cur, rev>>,
           \/ at' = "lines" /\ Rests(x)
           \/ at' = "opening" /\ Pending(x, opener'),
           sess[cur].mode # "none" /\ x.mode # sess[cur].mode => GivenBack(x)
    PROVE  SessionsFit' /\ CountRight' /\ ThreadPlaced' /\ EventsPending' /\ EndsClean
           /\ ClientsHeld'
<1>1. cur \in Slots /\ sess[cur].active /\ sess \in [Slots -> Session]
  BY CurrentWorld DEF InHandler, SInv, IInv, TypeOK
<1>2. \A s \in Slots : sess'[s] = IF s = cur THEN x ELSE sess[s]
  BY <1>1
<1>3. \A s \in Slots : sess'[s].active = sess[s].active
  BY <1>1, <1>2 DEF Session
<1>4. SessionsFit'
  <2>1. ASSUME NEW s \in Slots
        PROVE  /\ IF at' = "opening" /\ cur' = s
                  THEN Pending(sess'[s], opener') ELSE Rests(sess'[s])
               /\ ~sess'[s].active => sess'[s] = Zeroed
    <3>1. CASE s = cur
      BY <1>1, <1>2, <3>1
    <3>2. CASE s # cur
      BY <1>2, <3>2 DEF SInv, SessionsFit, Opening
    <3>3. QED BY <3>1, <3>2
  <2>2. QED BY <2>1 DEF SessionsFit, Opening, Pending, Rests, Settled, Listening, Moving,
                        Begun, Connected, NoFiles, Prepared, Opened
<1>5. Active' = Active
  BY <1>3 DEF Active
<1>6. CountRight'
  BY <1>5 DEF SInv, CountRight
<1>7. ThreadPlaced'
  BY <1>1, <1>2 DEF ThreadPlaced
<1>8. EventsPending'
  BY <1>3 DEF SInv, EventsPending, InHandler
<1>9. EndsClean
  BY <1>2 DEF EndsClean
<1>10. ClientsHeld'
  BY <1>1, <1>2 DEF SInv, ClientsHeld
<1>11. QED BY <1>4, <1>6, <1>7, <1>8, <1>9, <1>10

(* A handler returns.                                                        *)
LEMMA AnswersEnds ==
    ASSUME SInv, InHandler, NEW v, Carried(v), NEW n \in Int, Answers(v, n),
           NEW x, x = [v.s EXCEPT !.owed = @ + 1 - n], Rests(x),
           sess[cur].mode # "none" /\ x.mode # sess[cur].mode => GivenBack(x)
    PROVE  SInv' /\ StepFits
<1> DEFINE u == [v EXCEPT !.s.owed = @ + 1 - n]
<1>1. Good(v) /\ Tidy(v) /\ v \in Worlds /\ v.s \in Session /\ cur \in Slots
  BY ReachedWorld, CurrentWorld DEF Carried
<1>2. x \in Session /\ x.fd = v.s.fd /\ x.active
  BY <1>1 DEF Session, Carried
<1>3. u = [v EXCEPT !.s = x]
  BY <1>1 DEF Worlds
<1>4. Commit(u) /\ at' = "lines" /\ UNCHANGED <<count, cur, rev>>
  BY DEF Answers, u
<1> HIDE DEF u
<1>5. Reaches(v, u) /\ Tidy(u) /\ Keeps(v, u) /\ u.s = x
  <2>1. x \in Session
    BY <1>2
  <2>2. x.fd = v.s.fd
    BY <1>2
  <2>3. Good(v) /\ Tidy(v)
    BY <1>1
  <2>4. QED BY ONLY <2>1, <2>2, <2>3, <1>3, FieldsCarry
<1>6. Reaches(World(cur), u) /\ Keeps(World(cur), u)
  BY <1>5, ReachesTransitive, KeepsTransitive DEF Carried
<1>7. TablesTidy' /\ sess' = [sess EXCEPT ![cur] = x] /\ OrphansKept
  BY <1>1, <1>4, <1>5, <1>6, CommitTidies
<1>8. SessionsFit' /\ CountRight' /\ ThreadPlaced' /\ EventsPending' /\ EndsClean
      /\ ClientsHeld'
  BY <1>2, <1>4, <1>7, HandlerEnds DEF Carried
<1>9. IInv'
  BY AnswersKeeps DEF SInv, InHandler, Carried
<1>10. QED BY <1>7, <1>8, <1>9 DEF SInv, StepFits

(* It returns with one reply from a session between transfers.               *)
LEMMA SettledAnswers ==
    ASSUME SInv, InHandler, sess[cur].mode = "none",
           NEW v, Carried(v), Settled(v.s), Answers(v, 1)
    PROVE  SInv' /\ StepFits
<1> DEFINE x == [v.s EXCEPT !.owed = @ + 1 - 1]
<1>1. v.s \in Session
  BY ReachedWorld DEF Carried
<1>2. Settled(x)
  BY <1>1 DEF Settled, Listening, Connected, NoFiles, Session
<1> HIDE DEF x
<1>3. QED BY <1>2, AnswersEnds DEF Rests, x

(* It stops in accept() or connect().                                        *)
LEMMA WaitEnds ==
    ASSUME SInv, InHandler, at = "lines", sess[cur].mode = "none",
           NEW v, Carried(v), NEW m \in Transfers, Pending(v.s, m), WaitForPeer(v, m)
    PROVE  SInv' /\ StepFits
<1>1. v.s \in Session /\ cur \in Slots /\ v.s.active
  BY ReachedWorld, CurrentWorld DEF Carried
<1>2. Commit(v) /\ at' = "opening" /\ opener' = m /\ UNCHANGED <<count, cur, rev>>
  BY DEF WaitForPeer
<1>3. TablesTidy' /\ sess' = [sess EXCEPT ![cur] = v.s] /\ OrphansKept
  BY <1>1, <1>2, CommitTidies DEF Carried
<1>4. SessionsFit' /\ CountRight' /\ ThreadPlaced' /\ EventsPending' /\ EndsClean
      /\ ClientsHeld'
  BY <1>1, <1>2, <1>3, HandlerEnds DEF Carried
<1>5. IInv'
  BY WaitKeeps DEF SInv, InHandler, Carried
<1>6. QED BY <1>3, <1>4, <1>5 DEF SInv, StepFits

-----------------------------------------------------------------------------
(* The data connection.                                                      *)

(* A step of the helpers after another.                                      *)
LEMMA CarriedOn ==
    ASSUME NEW v, Carried(v), NEW u, NEW r, r # "control", Touches(v, u, r)
    PROVE  Carried(u) /\ Good(u)
  BY ReachesTransitive, KeepsTransitive, ReachedWorld DEF Carried, Touches, Alike, Roles

(* A data socket opened or forgotten changes nothing of what is begun.       *)
LEMMA DataTouchesBegun ==
    ASSUME NEW m, NEW v, NEW u, Begun(v.s, m), v.s.dc # "none", Touches(v, u, "data")
    PROVE  Begun(u.s, m) /\ u.s.dc = v.s.dc
<1>1. /\ u.s.fd["pasv"] = v.s.fd["pasv"] /\ u.s.fd["file"] = v.s.fd["file"]
      /\ u.s.fd["dir"] = v.s.fd["dir"]
  BY DEF Touches, Roles
<1>2. Alike(v.s, u.s)
  BY DEF Touches
<1>3. QED BY <1>1, <1>2 DEF Begun, Connected, Prepared, Alike

(* 425: a file or a directory that was opened for the transfer is closed.    *)
LEMMA DataOpenFailedEnds ==
    ASSUME SInv, InHandler, sess[cur].mode = "none", NEW m,
           NEW v, Carried(v), Begun(v.s, m), Listening(v.s), DataOpenFailed(v, m)
    PROVE  SInv' /\ StepFits
<1>1. Good(v) /\ Tidy(v)
  BY ReachedWorld DEF Carried
<1>2. CASE m \in FileModes
  <2> DEFINE c == VfsClose(v)
  <2>1. Touches(v, c, "file") /\ ~(c.s.fd["file"] > 0)
    BY <1>1, VfsCloseTouches
  <2>2. Answers(c, 1)
    BY <1>2 DEF DataOpenFailed, FileModes
  <2> HIDE DEF c
  <2>3. /\ c.s.fd["pasv"] = v.s.fd["pasv"] /\ c.s.fd["data"] = v.s.fd["data"]
        /\ c.s.fd["dir"] = v.s.fd["dir"] /\ Alike(v.s, c.s)
    BY <2>1 DEF Touches, Roles
  <2>4. Settled(c.s)
    BY <1>2, <2>1, <2>3 DEF Begun, Connected, Prepared, Settled, Listening, NoFiles, Alike
  <2>5. Carried(c)
    BY <2>1, CarriedOn
  <2>6. QED BY <2>2, <2>4, <2>5, SettledAnswers
<1>3. CASE m \notin FileModes
  <2> DEFINE c == VfsCloseDir(v)
  <2>1. Touches(v, c, "dir") /\ c.s.fd["dir"] = None
    BY <1>1, VfsCloseDirTouches
  <2>2. Answers(c, 1)
    BY <1>3 DEF DataOpenFailed, FileModes
  <2> HIDE DEF c
  <2>3. /\ c.s.fd["pasv"] = v.s.fd["pasv"] /\ c.s.fd["data"] = v.s.fd["data"]
        /\ c.s.fd["file"] = v.s.fd["file"] /\ Alike(v.s, c.s)
    BY <2>1 DEF Touches, Roles
  <2>4. Settled(c.s)
    BY <1>3, <2>1, <2>3 DEF Begun, Connected, Prepared, Settled, Listening, NoFiles, Alike
  <2>5. Carried(c)
    BY <2>1, CarriedOn
  <2>6. QED BY <2>2, <2>4, <2>5, SettledAnswers
<1>4. QED BY <1>2, <1>3

(* 150 or 125: the transfer begins with all it needs.                        *)
LEMMA DataOpenedEnds ==
    ASSUME SInv, InHandler, sess[cur].mode = "none", NEW m \in Transfers,
           NEW v, Carried(v), Begun(v.s, m), v.s.dc # "none",
           Opened(v.s.fd["data"]), NEW rc \in Int, DataOpened(v, m, rc)
    PROVE  SInv' /\ StepFits
<1> DEFINE b == rc > 0
           x == [v.s EXCEPT !.mode = m, !.nonblock = b]
           u == [v EXCEPT !.s.mode = m, !.s.nonblock = b]
           y == [x EXCEPT !.owed = @ + 1 - 0]
<1>1. Good(v) /\ Tidy(v) /\ v \in Worlds /\ v.s \in Session /\ b \in BOOLEAN
  BY ReachedWorld DEF Carried
<1>2. Answers(u, 0)
  BY DEF DataOpened
<1> HIDE DEF b
<1>3. x \in Session /\ x.fd = v.s.fd /\ x.active = v.s.active /\ x.mode = m
      /\ x.auth = v.s.auth /\ x.dc = v.s.dc /\ x.temp = v.s.temp /\ x.owed = v.s.owed
  BY <1>1 DEF Session, Transfers
<1>4. u = [v EXCEPT !.s = x]
  <2>1. u = [[v EXCEPT !.s.mode = m] EXCEPT !.s.nonblock = b]
    OBVIOUS
  <2>2. QED BY <1>1, <2>1 DEF Worlds
<1> HIDE DEF u, x
<1>5. Reaches(v, u) /\ Tidy(u) /\ Keeps(v, u) /\ u.s = x
  BY ONLY <1>1, <1>3, <1>4, FieldsCarry
<1>6. Carried(u)
  BY <1>3, <1>5, ReachesTransitive, KeepsTransitive DEF Carried
<1>7. y = [u.s EXCEPT !.owed = @ + 1 - 0]
  BY <1>5
<1>8. Moving(y)
  <2>1. y.fd = x.fd /\ y.mode = m /\ y.auth = x.auth /\ y.dc = x.dc
        /\ y.temp = x.temp /\ y.owed = x.owed + 1
    BY <1>3 DEF Session
  <2> HIDE DEF y
  <2>2. QED BY <1>3, <2>1 DEF Moving, Begun, Connected, Prepared, Transfers
<1> HIDE DEF y
<1>9. QED BY <1>2, <1>6, <1>7, <1>8, AnswersEnds DEF Rests

(* ftp_data_open, wherever it stops.                                         *)
LEMMA DataOpenEnds ==
    ASSUME SInv, InHandler, at = "lines", sess[cur].mode = "none",
           NEW m \in Transfers, NEW v, Carried(v), Begun(v.s, m), Spare(v.s), DataOpen(v, m)
    PROVE  SInv' /\ StepFits
<1> DEFINE o == OpenFd(v, "data")
           h == o.s.fd["data"]
<1>1. Good(v) /\ Tidy(v)
  BY ReachedWorld DEF Carried
<1>2. Touches(v, o, "data") /\ (h # None => Opened(h))
  BY <1>1, OpenTouches DEF Roles, Spare
<1>3. \/ DataOpenFailed(v, m)
      \/ v.s.dc = "passive" /\ WaitForPeer(v, m)
      \/ /\ v.s.dc = "active"
         /\ \/ DataOpenFailed(o, m)
            \/ h = 0 /\ DataOpened(o, m, 0)
            \/ h > 0 /\ WaitForPeer(o, m)
  BY DEF DataOpen
<1> HIDE DEF o
<1>4. Listening(v.s) /\ (o.s.dc = "active" => Listening(o.s))
  BY DEF Listening, Spare
<1>5. CASE DataOpenFailed(v, m)
  BY <1>5, <1>4, DataOpenFailedEnds
<1>6. CASE v.s.dc = "passive" /\ WaitForPeer(v, m)
  <2>1. Pending(v.s, m)
    BY <1>6, <1>4 DEF Pending
  <2>2. QED BY <1>6, <2>1, WaitEnds
<1>7. ASSUME v.s.dc = "active"
      PROVE  Carried(o) /\ Begun(o.s, m) /\ o.s.dc = "active"
  BY <1>2, <1>7, CarriedOn, DataTouchesBegun
<1>8. CASE v.s.dc = "active" /\ DataOpenFailed(o, m)
  BY <1>7, <1>8, <1>4, DataOpenFailedEnds
<1>9. CASE v.s.dc = "active" /\ h = 0 /\ DataOpened(o, m, 0)
  <2>1. Opened(h)
    BY <1>2, <1>9 DEF None
  <2>2. QED BY <1>7, <1>9, <2>1, DataOpenedEnds
<1>10. CASE v.s.dc = "active" /\ h > 0 /\ WaitForPeer(o, m)
  <2>1. Opened(h)
    BY <1>2, <1>10 DEF None
  <2>2. Pending(o.s, m)
    BY <1>7, <1>10, <1>4, <2>1 DEF Pending
  <2>3. QED BY <1>7, <1>10, <2>2, WaitEnds
<1>11. QED BY <1>3, <1>5, <1>6, <1>8, <1>9, <1>10

(* accept() or connect() returns, either way.                                *)
LEMMA OpeningEnds ==
    ASSUME SInv, PeerConnects \/ OpenFails
    PROVE  SInv' /\ StepFits
<1> DEFINE w == World(cur)
           a == OpenFd(w, "data")
           f == [w EXCEPT !.s.fd["data"] = None]
           m == opener
<1>1. at = "opening" /\ InHandler /\ m \in Transfers
  BY DEF PeerConnects, OpenFails, SInv, IInv, OpeningPending, InHandler
<1>2. /\ Good(w) /\ Tidy(w) /\ Pending(w.s, m) /\ Carried(w)
      /\ sess[cur].mode = "none" /\ w.s = sess[cur]
  BY <1>1, CurrentWorld DEF Carried, Pending, Begun
<1>3. w.s.dc # "active" => ~(w.s.fd["data"] > 0)
  <2>1. w.s.dc \in {"none", "active", "passive"}
    BY <1>2 DEF Good, Worlds, Session
  <2>2. QED BY <1>2, <2>1 DEF Pending, Begun, Connected, Listening
<1>4. w.s.dc # "active" =>
        /\ Touches(w, a, "data")
        /\ a.s.fd["data"] # None => Opened(a.s.fd["data"])
  BY <1>2, <1>3, OpenTouches DEF Roles
<1>5. w.s.dc # "active" => Touches(w, f, "data") /\ f.s.fd["data"] = None
  BY <1>2, <1>3, ForgetTouches DEF Roles
<1>6. \/ w.s.dc = "active" /\ DataOpened(w, m, 0)
      \/ w.s.dc # "active" /\ a.s.fd["data"] = None /\ DataOpenFailed(a, m)
      \/ w.s.dc # "active" /\ a.s.fd["data"] # None /\ DataOpened(a, m, a.s.fd["data"])
      \/ w.s.dc = "active" /\ DataOpenFailed(w, m)
      \/ w.s.dc # "active" /\ DataOpenFailed(f, m)
  BY DEF PeerConnects, OpenFails
<1> HIDE DEF w, a, f, m
<1>7. Begun(w.s, m) /\ w.s.dc # "none"
  BY <1>2 DEF Pending
<1>8. w.s.dc # "active" =>
        /\ Begun(a.s, m) /\ a.s.dc # "none" /\ Carried(a) /\ Good(a)
        /\ Begun(f.s, m) /\ Carried(f)
  BY <1>2, <1>4, <1>5, <1>7, DataTouchesBegun, CarriedOn
<1>9. CASE w.s.dc = "active" /\ DataOpened(w, m, 0)
  <2>1. Opened(w.s.fd["data"])
    BY <1>2, <1>9 DEF Pending
  <2>2. QED BY <1>1, <1>2, <1>7, <1>9, <2>1, DataOpenedEnds
<1>10. CASE w.s.dc # "active" /\ a.s.fd["data"] # None /\ DataOpened(a, m, a.s.fd["data"])
  <2>1. a.s.fd["data"] \in Int
    BY <1>8, <1>10, HandleType DEF Roles
  <2>2. QED BY <1>1, <1>2, <1>4, <1>8, <1>10, <2>1, DataOpenedEnds
<1>11. CASE w.s.dc = "active" /\ DataOpenFailed(w, m)
  <2>1. Listening(w.s)
    BY <1>11 DEF Listening
  <2>2. QED BY <1>1, <1>2, <1>7, <1>11, <2>1, DataOpenFailedEnds
<1>12. CASE w.s.dc # "active" /\ a.s.fd["data"] = None /\ DataOpenFailed(a, m)
  <2>1. Listening(a.s)
    BY <1>12 DEF Listening, None
  <2>2. QED BY <1>1, <1>2, <1>8, <1>12, <2>1, DataOpenFailedEnds
<1>13. CASE w.s.dc # "active" /\ DataOpenFailed(f, m)
  <2>1. Listening(f.s)
    BY <1>5, <1>13 DEF Listening, None
  <2>2. QED BY <1>1, <1>2, <1>8, <1>13, <2>1, DataOpenFailedEnds
<1>14. QED BY <1>6, <1>9, <1>10, <1>11, <1>12, <1>13

-----------------------------------------------------------------------------
(* The handlers.                                                             *)

(* Where a handler that is not ABOR starts.                                  *)
LEMMA DispatchStart ==
    ASSUME SInv, NEW c, c # "ABOR", Dispatches(c)
    PROVE  LET w == World(cur)
           IN  /\ at = "lines" /\ InHandler /\ sess[cur].mode = "none"
               /\ Carried(w) /\ Good(w) /\ Tidy(w) /\ w \in Worlds /\ w.s \in Session
               /\ Settled(w.s) /\ Spare(w.s)
               /\ AuthRequired(c) => w.s.auth = "valid"
<1>1. at = "lines" /\ InHandler /\ sess[cur].mode = "none"
  BY DEF Dispatches, InHandler
<1>2. Rests(sess[cur])
  BY <1>1, CurrentWorld
<1>3. Settled(sess[cur])
  BY <1>1, <1>2 DEF Rests, Moving
<1>4. Spare(sess[cur])
  <2>1. sess[cur] \in Session /\ Connected(sess[cur]) /\ Listening(sess[cur])
    BY <1>3, CurrentWorld DEF Settled
  <2>2. sess[cur].fd["data"] > 0 => sess[cur].dc = "active" /\ sess[cur].fd["data"] \in Fds
    BY <2>1 DEF Session, Connected, Listening, Roles, None
  <2>3. QED BY <1>1, <2>2 DEF Spare, Retried
<1>5. QED BY <1>1, <1>3, <1>4, CurrentWorld DEF Dispatches, Carried

(* A line that is refused, in a transfer too.                                *)
LEMMA RejectEnds ==
    ASSUME SInv, Reject \/ AnswerOnlyCommand
    PROVE  SInv' /\ StepFits
<1> DEFINE w == World(cur)
           n == 1
           x == [w.s EXCEPT !.owed = @ + 1 - n]
<1>1. at = "lines" /\ InHandler /\ Answers(w, n)
  BY DEF Reject, AnswerOnlyCommand, Dispatches, InHandler
<1>2. Carried(w) /\ w.s \in Session /\ w.s = sess[cur] /\ Rests(w.s)
  BY <1>1, CurrentWorld DEF Carried
<1>3. x = w.s
  BY <1>2 DEF Session
<1>4. n \in Int /\ x = [w.s EXCEPT !.owed = @ + 1 - n]
  OBVIOUS
<1> HIDE DEF w, x, n
<1>5. QED BY <1>1, <1>2, <1>3, <1>4, AnswersEnds

(* An answer after a change of login, marker or path only.                   *)
LEMMA FieldsEnd ==
    ASSUME SInv, InHandler, sess[cur].mode = "none",
           NEW v, Carried(v), Settled(v.s),
           NEW x \in Session, x.fd = v.s.fd, x.active = v.s.active,
           x.dc = v.s.dc, x.mode = v.s.mode, x.owed = v.s.owed,
           NEW u, u = [v EXCEPT !.s = x], Answers(u, 1)
    PROVE  SInv' /\ StepFits
<1>1. Good(v) /\ Tidy(v)
  BY ReachedWorld DEF Carried
<1>2. Reaches(v, u) /\ Tidy(u) /\ Keeps(v, u) /\ u.s = x
  BY ONLY <1>1, x \in Session, x.fd = v.s.fd, u = [v EXCEPT !.s = x], FieldsCarry
<1>3. Carried(u)
  BY <1>2, ReachesTransitive, KeepsTransitive DEF Carried
<1>4. Settled(u.s)
  BY <1>2 DEF Settled, Listening, Connected, NoFiles
<1>5. QED BY <1>3, <1>4, SettledAnswers

(* USER, PASS and RNTO.                                                      *)
LEMMA LoginEnds ==
    ASSUME SInv, USER \/ PASS \/ RNTO
    PROVE  SInv' /\ StepFits
<1> DEFINE w == World(cur)
           X(a) == [w.s EXCEPT !.auth = a]
           y == [w.s EXCEPT !.temp = "empty"]
<1>1. /\ InHandler /\ sess[cur].mode = "none" /\ Carried(w) /\ w \in Worlds
      /\ w.s \in Session /\ Settled(w.s)
  BY DispatchStart DEF USER, PASS, RNTO
<1>2. \/ Answers(w, 1)
      \/ \E a \in {"valid", "need_pass"} : Answers([w EXCEPT !.s.auth = a], 1)
      \/ Answers([w EXCEPT !.s.temp = "empty"], 1)
  <2>1. (IF Anon THEN "valid" ELSE "need_pass") \in {"valid", "need_pass"}
    OBVIOUS
  <2>2. QED BY <2>1 DEF USER, PASS, RNTO
<1>3. ASSUME NEW a \in {"valid", "need_pass"}, Answers([w EXCEPT !.s.auth = a], 1)
      PROVE  SInv' /\ StepFits
  <2>1. X(a) \in Session /\ X(a).fd = w.s.fd /\ X(a).active = w.s.active
        /\ X(a).dc = w.s.dc /\ X(a).mode = w.s.mode /\ X(a).owed = w.s.owed
    BY <1>1 DEF Session
  <2>2. [w EXCEPT !.s.auth = a] = [w EXCEPT !.s = X(a)]
    BY <1>1 DEF Worlds
  <2> HIDE DEF w, X
  <2>3. QED BY <1>1, <1>3, <2>1, <2>2, FieldsEnd
<1>4. CASE Answers([w EXCEPT !.s.temp = "empty"], 1)
  <2>1. y \in Session /\ y.fd = w.s.fd /\ y.active = w.s.active
        /\ y.dc = w.s.dc /\ y.mode = w.s.mode /\ y.owed = w.s.owed
    BY <1>1 DEF Session
  <2>2. [w EXCEPT !.s.temp = "empty"] = [w EXCEPT !.s = y]
    BY <1>1 DEF Worlds
  <2> HIDE DEF w, y
  <2>3. QED BY <1>1, <1>4, <2>1, <2>2, FieldsEnd
<1>5. CASE Answers(w, 1)
  BY <1>1, <1>5, SettledAnswers
<1>6. QED BY <1>2, <1>3, <1>4, <1>5

(* REST and RNFR.                                                            *)
LEMMA MarkerEnds ==
    ASSUME SInv, REST \/ RNFR
    PROVE  SInv' /\ StepFits
<1> DEFINE w == World(cur)
           X(n) == [w.s EXCEPT !.marker = n]
           y == [w.s EXCEPT !.temp = "rename"]
<1>1. /\ InHandler /\ sess[cur].mode = "none" /\ Carried(w) /\ w \in Worlds
      /\ w.s \in Session /\ Settled(w.s)
  BY DispatchStart DEF REST, RNFR
<1>2. \/ Answers(w, 1)
      \/ \E n \in 0..MaxLen : Answers([w EXCEPT !.s.marker = n], 1)
      \/ Answers([w EXCEPT !.s.temp = "rename"], 1)
  BY DEF REST, RNFR
<1>3. ASSUME NEW n \in 0..MaxLen, Answers([w EXCEPT !.s.marker = n], 1)
      PROVE  SInv' /\ StepFits
  <2>1. X(n) \in Session /\ X(n).fd = w.s.fd /\ X(n).active = w.s.active
        /\ X(n).dc = w.s.dc /\ X(n).mode = w.s.mode /\ X(n).owed = w.s.owed
    BY <1>1, BoundsAssumption DEF Session
  <2>2. [w EXCEPT !.s.marker = n] = [w EXCEPT !.s = X(n)]
    BY <1>1 DEF Worlds
  <2> HIDE DEF w, X
  <2>3. QED BY <1>1, <1>3, <2>1, <2>2, FieldsEnd
<1>4. CASE Answers([w EXCEPT !.s.temp = "rename"], 1)
  <2>1. y \in Session /\ y.fd = w.s.fd /\ y.active = w.s.active
        /\ y.dc = w.s.dc /\ y.mode = w.s.mode /\ y.owed = w.s.owed
    BY <1>1 DEF Session
  <2>2. [w EXCEPT !.s.temp = "rename"] = [w EXCEPT !.s = y]
    BY <1>1 DEF Worlds
  <2> HIDE DEF w, y
  <2>3. QED BY <1>1, <1>4, <2>1, <2>2, FieldsEnd
<1>5. CASE Answers(w, 1)
  BY <1>1, <1>5, SettledAnswers
<1>6. QED BY <1>2, <1>3, <1>4, <1>5

(* A session that has given all back is settled, if no reply is due.         *)
LEMMA GivenBackSettles ==
    ASSUME NEW w, Good(w), Tidy(w), Connected(w.s), NEW i, Reaches(i, w), Keeps(i, w), w.s.active
    PROVE  LET e == DataTransferEnd(w)
           IN  /\ Reaches(i, e) /\ Tidy(e) /\ Keeps(i, e) /\ Good(e) /\ e.s.active
               /\ GivenBack(e.s) /\ Connected(e.s) /\ NoFiles(e.s)
               /\ e.s.owed = w.s.owed /\ e.s.auth = w.s.auth
               /\ e.s.fd["control"] = w.s.fd["control"]
<1> DEFINE e == DataTransferEnd(w)
<1>1. /\ Reaches(w, e) /\ Tidy(e) /\ Keeps(w, e)
      /\ GivenBack(e.s) /\ NoFiles(e.s) /\ Connected(e.s)
      /\ e.s.active = w.s.active /\ e.s.auth = w.s.auth
      /\ e.s.owed = w.s.owed /\ e.s.fd["control"] = w.s.fd["control"]
  BY TransferEndGivesBack
<1> HIDE DEF e
<1>2. Reaches(i, e) /\ Keeps(i, e) /\ Good(e)
  BY <1>1, ReachesTransitive, KeepsTransitive, ReachedWorld
<1>3. QED BY <1>1, <1>2 DEF e

(* PORT and PASV.                                                            *)
LEMMA ConnectionEnds ==
    ASSUME SInv, PORT \/ PASV
    PROVE  SInv' /\ StepFits
<1> DEFINE w == World(cur)
           e == DataTransferEnd(w)
           o == OpenFd(e, "pasv")
           c == CloseSocket(o, "pasv")
           x == [e.s EXCEPT !.dc = "active"]
           y == [o.s EXCEPT !.dc = "passive"]
<1>1. InHandler /\ sess[cur].mode = "none" /\ Carried(w) /\ Good(w) /\ Tidy(w)
      /\ Settled(w.s)
  BY DispatchStart DEF PORT, PASV
<1>2. /\ Carried(e) /\ Good(e) /\ Tidy(e)
      /\ GivenBack(e.s) /\ Connected(e.s) /\ NoFiles(e.s) /\ e.s.owed = 0
  BY <1>1, GivenBackSettles DEF Carried, Settled, Listening
<1>3. \/ Answers(e, 1)
      \/ Answers([e EXCEPT !.s.dc = "active"], 1)
      \/ o.s.fd["pasv"] = None /\ Answers(o, 1)
      \/ Answers(c, 1)
      \/ Answers([o EXCEPT !.s.dc = "passive"], 1)
  BY DEF PORT, PASV
<1> HIDE DEF w, e
<1>4. Settled(e.s)
  BY <1>2 DEF Settled, Listening, GivenBack
<1>5. /\ ~(e.s.fd["pasv"] > 0) /\ ~(e.s.fd["data"] > 0) /\ e.s.dc = "none"
  BY <1>2 DEF Connected, GivenBack
<1>6. Touches(e, o, "pasv")
  BY <1>2, <1>5, OpenTouches DEF Roles
<1> HIDE DEF o
<1>7. Carried(o) /\ Good(o) /\ Tidy(o)
  BY <1>2, <1>6, CarriedOn DEF Touches
<1>8. Touches(o, c, "pasv") /\ ~(c.s.fd["pasv"] > 0) /\ Carried(c)
  BY <1>7, CloseSocketTouches, CarriedOn DEF Roles
<1> HIDE DEF c
<1>9. /\ o.s.fd["data"] = e.s.fd["data"] /\ o.s.fd["file"] = e.s.fd["file"]
      /\ o.s.fd["dir"] = e.s.fd["dir"] /\ Alike(e.s, o.s)
      /\ c.s.fd["data"] = e.s.fd["data"] /\ c.s.fd["file"] = e.s.fd["file"]
      /\ c.s.fd["dir"] = e.s.fd["dir"] /\ Alike(e.s, c.s)
  BY <1>6, <1>8 DEF Touches, Alike, Roles
<1>10. CASE Answers(e, 1)
  BY <1>1, <1>2, <1>4, <1>10, SettledAnswers
<1>11. CASE Answers([e EXCEPT !.s.dc = "active"], 1)
  <2>1. e.s \in Session /\ e \in Worlds
    BY <1>2 DEF Good, Worlds
  <2>2. /\ x \in Session /\ x.fd = e.s.fd /\ x.active = e.s.active /\ x.dc = "active"
        /\ x.mode = e.s.mode /\ x.owed = e.s.owed
    BY <2>1 DEF Session
  <2>3. [e EXCEPT !.s.dc = "active"] = [e EXCEPT !.s = x]
    BY <2>1 DEF Worlds
  <2> HIDE DEF x
  <2>4. PICK u : u = [e EXCEPT !.s = x]
    OBVIOUS
  <2>5. Reaches(e, u) /\ Tidy(u) /\ Keeps(e, u) /\ u.s = x
    BY ONLY <1>2, <2>2, <2>4, FieldsCarry
  <2>6. Carried(u)
    BY <1>2, <2>2, <2>5, ReachesTransitive, KeepsTransitive DEF Carried
  <2>7. Settled(u.s)
    BY <1>4, <1>5, <2>2, <2>5 DEF Settled, Listening, Connected, NoFiles
  <2>8. QED BY <1>1, <1>11, <2>3, <2>4, <2>6, <2>7, SettledAnswers
<1>12. CASE o.s.fd["pasv"] = None /\ Answers(o, 1)
  <2>1. Settled(o.s)
    BY <1>4, <1>5, <1>9, <1>12 DEF Settled, Listening, Connected, NoFiles, Alike, None
  <2>2. QED BY <1>1, <1>7, <1>12, <2>1, SettledAnswers
<1>13. CASE Answers(c, 1)
  <2>1. Settled(c.s)
    BY <1>4, <1>5, <1>8, <1>9 DEF Settled, Listening, Connected, NoFiles, Alike
  <2>2. QED BY <1>1, <1>8, <1>13, <2>1, SettledAnswers
<1>14. CASE Answers([o EXCEPT !.s.dc = "passive"], 1)
  <2>1. o.s \in Session /\ o \in Worlds
    BY <1>7 DEF Good, Worlds
  <2>2. /\ y \in Session /\ y.fd = o.s.fd /\ y.active = o.s.active /\ y.dc = "passive"
        /\ y.mode = o.s.mode /\ y.owed = o.s.owed
    BY <2>1 DEF Session
  <2>3. [o EXCEPT !.s.dc = "passive"] = [o EXCEPT !.s = y]
    BY <2>1 DEF Worlds
  <2> HIDE DEF y
  <2>4. PICK u : u = [o EXCEPT !.s = y]
    OBVIOUS
  <2>5. Reaches(o, u) /\ Tidy(u) /\ Keeps(o, u) /\ u.s = y
    BY ONLY <1>7, <2>2, <2>4, FieldsCarry
  <2>6. Carried(u)
    BY <1>7, <2>2, <2>5, ReachesTransitive, KeepsTransitive DEF Carried
  <2>7. Settled(u.s)
    BY <1>4, <1>5, <1>9, <2>2, <2>5 DEF Settled, Listening, Connected, NoFiles, Alike
  <2>8. QED BY <1>1, <1>14, <2>3, <2>4, <2>6, <2>7, SettledAnswers
<1>15. QED BY <1>3, <1>10, <1>11, <1>12, <1>13, <1>14

(* ABOR, with its two replies in a transfer.                                 *)
LEMMA ABOREnds ==
    ASSUME SInv, ABOR
    PROVE  SInv' /\ StepFits
<1> DEFINE w == World(cur)
           e == DataTransferEnd(w)
           n == IF w.s.mode = "none" THEN 1 ELSE 2
           x == [e.s EXCEPT !.owed = @ + 1 - n]
<1>1. at = "lines" /\ InHandler
  BY DEF ABOR, Dispatches, InHandler
<1>2. Carried(w) /\ Good(w) /\ Tidy(w) /\ w.s = sess[cur] /\ Rests(w.s)
      /\ w.s \in Session
  BY <1>1, CurrentWorld DEF Carried
<1>3. \/ w.s.dc = "none" /\ Answers(w, 1)
      \/ Answers(e, n)
  BY DEF ABOR
<1> HIDE DEF w
<1>4. Connected(w.s)
  BY <1>2 DEF Rests, Settled, Listening, Moving
<1>5. /\ Carried(e) /\ Good(e)
      /\ GivenBack(e.s) /\ Connected(e.s) /\ NoFiles(e.s) /\ e.s.owed = w.s.owed
  BY <1>2, <1>4, GivenBackSettles DEF Carried
<1> HIDE DEF e
<1>6. CASE w.s.dc = "none" /\ Answers(w, 1)
  <2>1. Settled(w.s) /\ w.s.mode = "none"
    BY <1>2, <1>6 DEF Rests, Moving, Settled, Listening
  <2>2. QED BY <1>1, <1>2, <1>6, <2>1, SettledAnswers
<1>7. CASE Answers(e, n)
  <2>1. w.s.owed = n - 1 /\ n \in Int
    BY <1>2 DEF Rests, Moving, Settled, Listening
  <2> HIDE DEF n
  <2>2. e.s \in Session
    BY <1>5 DEF Good, Worlds
  <2>3. /\ x.fd = e.s.fd /\ x.mode = e.s.mode /\ x.dc = e.s.dc /\ x.off = e.s.off
        /\ x.size = e.s.size /\ x.temp = e.s.temp /\ x.owed = 0
    BY <1>5, <2>1, <2>2 DEF Session
  <2>4. x = [e.s EXCEPT !.owed = @ + 1 - n]
    OBVIOUS
  <2> HIDE DEF x
  <2>5. Rests(x) /\ GivenBack(x)
    BY <1>5, <2>3 DEF Rests, Settled, Listening, GivenBack, Connected, NoFiles
  <2>6. QED BY <1>1, <1>5, <1>7, <2>1, <2>4, <2>5, AnswersEnds
<1>8. QED BY <1>3, <1>6, <1>7

(* A change of marker, offset, size or path, before a transfer.              *)
LEMMA FieldsSettle ==
    ASSUME NEW v, Carried(v), Settled(v.s),
           NEW x \in Session, x.fd = v.s.fd, x.active = v.s.active, x.auth = v.s.auth,
           x.dc = v.s.dc, x.mode = v.s.mode, x.owed = v.s.owed,
           NEW u, u = [v EXCEPT !.s = x]
    PROVE  Carried(u) /\ Settled(u.s) /\ u.s = x /\ u.me = v.me /\ u.t = v.t
           /\ Good(u) /\ Tidy(u) /\ u \in Worlds
<1>1. Good(v) /\ Tidy(v)
  BY ReachedWorld DEF Carried
<1>2. Reaches(v, u) /\ Tidy(u) /\ Keeps(v, u) /\ u.s = x
  BY ONLY <1>1, x \in Session, x.fd = v.s.fd, u = [v EXCEPT !.s = x], FieldsCarry
<1>3. Carried(u)
  BY <1>2, ReachesTransitive, KeepsTransitive DEF Carried
<1>4. Settled(u.s)
  BY <1>2 DEF Settled, Listening, Connected, NoFiles
<1>5. Good(u) /\ u \in Worlds
  BY <1>2, ReachedWorld
<1>6. u.me = v.me /\ u.t = v.t
  BY <1>1 DEF Good, Worlds
<1>7. QED BY <1>2, <1>3, <1>4, <1>5, <1>6

(* The file of an upload or a download is open.                              *)
LEMMA FileOpenBegins ==
    ASSUME NEW v, Carried(v), Settled(v.s), v.s.auth = "valid", NEW m \in FileModes,
           OpenFd(v, "file").s.fd["file"] # None
    PROVE  LET o == OpenFd(v, "file")
           IN  Carried(o) /\ Begun(o.s, m) /\ Good(o) /\ Tidy(o)
               /\ o.s.dc = v.s.dc /\ o.s.fd["data"] = v.s.fd["data"]
<1> DEFINE o == OpenFd(v, "file")
<1>1. Good(v) /\ Tidy(v) /\ ~(v.s.fd["file"] > 0) /\ v.s.fd["dir"] = None
  BY ReachedWorld DEF Carried, Settled, Listening, NoFiles
<1>2. Touches(v, o, "file") /\ Opened(o.s.fd["file"])
  BY <1>1, OpenTouches DEF Roles
<1> HIDE DEF o
<1>3. Carried(o) /\ Good(o) /\ Tidy(o)
  BY <1>2, CarriedOn DEF Carried
<1>4. /\ o.s.fd["pasv"] = v.s.fd["pasv"] /\ o.s.fd["data"] = v.s.fd["data"]
      /\ o.s.fd["dir"] = v.s.fd["dir"] /\ Alike(v.s, o.s)
  BY <1>2 DEF Touches, Roles
<1>5. Begun(o.s, m)
  BY <1>1, <1>2, <1>4 DEF Begun, Settled, Listening, Connected, Prepared, Alike
<1>6. QED BY <1>3, <1>4, <1>5 DEF o, Alike

(* It cannot be opened: the handle says so.                                  *)
LEMMA FileRefusedSettles ==
    ASSUME NEW v, Carried(v), Settled(v.s),
           NEW u, u = [v EXCEPT !.s.fd["file"] = None]
    PROVE  Carried(u) /\ Settled(u.s)
<1>1. Good(v) /\ Tidy(v) /\ ~(v.s.fd["file"] > 0)
  BY ReachedWorld DEF Carried, Settled, Listening, NoFiles
<1>2. Touches(v, u, "file") /\ u.s.fd["file"] = None
  BY <1>1, ForgetTouches DEF Roles
<1>3. /\ u.s.fd["pasv"] = v.s.fd["pasv"] /\ u.s.fd["data"] = v.s.fd["data"]
      /\ u.s.fd["dir"] = v.s.fd["dir"] /\ Alike(v.s, u.s)
  BY <1>2 DEF Touches, Roles
<1>4. Settled(u.s)
  BY <1>2, <1>3 DEF Settled, Listening, Connected, NoFiles, Alike, None
<1>5. QED BY <1>2, <1>4, CarriedOn

(* ftp_cmd_RETR, from the open of the file to that of the connection.        *)
LEMMA RETREnds ==
    ASSUME SInv, RETR
    PROVE  SInv' /\ StepFits
<1> DEFINE w == World(cur)
           o == OpenFd(w, "file")
           f == [w EXCEPT !.s.fd["file"] = None]
           restart == w.s.marker > 0
           a == IF restart THEN w.s.marker ELSE 0
           k == IF restart THEN 0 ELSE w.s.marker
           X(n) == [o.s EXCEPT !.off = a, !.size = n, !.marker = k]
<1>1. /\ at = "lines" /\ InHandler /\ sess[cur].mode = "none"
      /\ Carried(w) /\ Settled(w.s) /\ w \in Worlds /\ w.s \in Session
      /\ w.s.auth = "valid" /\ Spare(w.s)
  <2>1. Dispatches("RETR") /\ AuthRequired("RETR") /\ "RETR" # "ABOR"
    BY DEF RETR, AuthRequired
  <2>2. QED BY <2>1, DispatchStart
<1>2. \/ Answers(w, 1)
      \/ Answers(f, 1)
      \/ /\ o.s.fd["file"] # None
         /\ \/ Answers(VfsClose(o), 1)
            \/ \E n \in 0..MaxLen :
                 LET p == [o EXCEPT !.s.off = a, !.s.size = n,
                                    !.s.marker = IF restart THEN 0 ELSE @]
                 IN Answers(VfsClose(p), 1) \/ DataOpen(p, "retr")
  BY DEF RETR
<1>3. o.s.marker = w.s.marker
  BY <1>1 DEF OpenFd, Worlds, Session
<1>4. a \in 0..MaxLen /\ k \in -1..MaxLen
  BY <1>1, BoundsAssumption DEF Session
<1>5. Carried(f) /\ Settled(f.s)
  BY <1>1, FileRefusedSettles
<1>6. o.s.fd["file"] # None =>
        /\ Carried(o) /\ Begun(o.s, "retr") /\ Good(o) /\ Tidy(o)
        /\ o.s.dc = w.s.dc /\ o.s.fd["data"] = w.s.fd["data"]
  BY <1>1, FileOpenBegins DEF FileModes
<1>7. ASSUME NEW x, x.dc = w.s.dc, x.fd["data"] = w.s.fd["data"]
       PROVE  Spare(x) /\ Listening(x)
  BY <1>1, <1>7 DEF Spare, Listening
<1> HIDE DEF o, f, w
<1>8. CASE Answers(w, 1) \/ Answers(f, 1)
  BY <1>1, <1>5, <1>8, SettledAnswers
<1>9. ASSUME NEW p, Carried(p), Begun(p.s, "retr"), Listening(p.s), Answers(VfsClose(p), 1)
      PROVE  SInv' /\ StepFits
  <2>1. DataOpenFailed(p, "retr")
    BY <1>9 DEF DataOpenFailed
  <2>2. QED BY <1>1, <1>9, <2>1, DataOpenFailedEnds
<1>10. ASSUME o.s.fd["file"] # None, NEW n \in 0..MaxLen, NEW p,
             p = [o EXCEPT !.s.off = a, !.s.size = n,
                           !.s.marker = IF restart THEN 0 ELSE @]
      PROVE  Carried(p) /\ Begun(p.s, "retr") /\ Spare(p.s) /\ Listening(p.s)
  <2>1. o \in Worlds /\ o.s \in Session /\ Good(o) /\ Tidy(o)
    BY <1>6, <1>10 DEF Good, Worlds
  <2> HIDE DEF a
  <2>2. p = [o EXCEPT !.s.off = a, !.s.size = n, !.s.marker = k]
    BY <1>3, <1>10, <2>1 DEF Worlds, Session
  <2> HIDE DEF k
  <2>3. /\ X(n) \in Session /\ X(n).fd = o.s.fd /\ X(n).active = o.s.active
        /\ X(n).auth = o.s.auth /\ X(n).dc = o.s.dc /\ X(n).mode = o.s.mode
        /\ X(n).temp = o.s.temp /\ X(n).owed = o.s.owed
    BY <1>4, <2>1 DEF Session
  <2>4. p = [o EXCEPT !.s = X(n)]
    BY <2>1, <2>2 DEF Worlds
  <2> HIDE DEF X
  <2>5. Reaches(o, p) /\ Tidy(p) /\ Keeps(o, p) /\ p.s = X(n)
    BY ONLY <2>1, <2>3, <2>4, FieldsCarry
  <2>6. Carried(p)
    BY <1>6, <1>10, <2>3, <2>5, ReachesTransitive, KeepsTransitive DEF Carried
  <2>7. Begun(p.s, "retr")
    BY <1>6, <1>10, <2>3, <2>5 DEF Begun, Connected, Prepared
  <2>8. Spare(p.s) /\ Listening(p.s)
    BY <1>6, <1>10, <1>7, <2>3, <2>5
  <2>9. QED BY <2>6, <2>7, <2>8
<1>11. "retr" \in Transfers
  BY DEF Transfers
<1> HIDE DEF a, restart
<1>12. o.s.fd["file"] # None => Listening(o.s)
  BY <1>6, <1>7
<1>13. QED BY <1>1, <1>2, <1>6, <1>8, <1>9, <1>10, <1>11, <1>12, DataOpenEnds

(* What STOR and APPE share.                                                 *)
LEMMA StoreEnds ==
    ASSUME SInv, InHandler, at = "lines", sess[cur].mode = "none",
           NEW w, Carried(w), Settled(w.s), Spare(w.s), w.s.auth = "valid", Store(w)
    PROVE  SInv' /\ StepFits
<1> DEFINE k == IF w.s.marker = -1 THEN 0 ELSE w.s.marker
           x == [w.s EXCEPT !.marker = k]
           m == [w EXCEPT !.s.marker = IF @ = -1 THEN 0 ELSE @]
           o == OpenFd(m, "file")
           f == [m EXCEPT !.s.fd["file"] = None]
<1>1. w \in Worlds /\ w.s \in Session
  BY ReachedWorld DEF Carried
<1>2. k \in -1..MaxLen
  BY <1>1, BoundsAssumption DEF Session
<1>3. m = [w EXCEPT !.s = x]
  BY <1>1 DEF Worlds, Session
<1>4. \/ Answers(w, 1)
      \/ Answers(m, 1)
      \/ Answers(f, 1)
      \/ o.s.fd["file"] # None /\ DataOpen(o, "stor")
  BY DEF Store
<1> HIDE DEF k, m
<1>5. /\ x \in Session /\ x.fd = w.s.fd /\ x.active = w.s.active /\ x.auth = w.s.auth
      /\ x.dc = w.s.dc /\ x.mode = w.s.mode /\ x.owed = w.s.owed
  BY <1>1, <1>2 DEF Session
<1> HIDE DEF x
<1>6. Carried(m) /\ Settled(m.s) /\ m.s = x
  BY <1>3, <1>5, FieldsSettle
<1>7. Carried(f) /\ Settled(f.s)
  BY <1>6, FileRefusedSettles
<1>8. o.s.fd["file"] # None => Carried(o) /\ Begun(o.s, "stor") /\ Spare(o.s)
  BY <1>5, <1>6, FileOpenBegins DEF FileModes, Spare
<1>9. "stor" \in Transfers
  BY DEF Transfers
<1> HIDE DEF o, f
<1>10. QED BY <1>4, <1>6, <1>7, <1>8, <1>9, SettledAnswers, DataOpenEnds

(* STOR and APPE.                                                            *)
LEMMA UploadEnds ==
    ASSUME SInv, STOR \/ APPE
    PROVE  SInv' /\ StepFits
<1> DEFINE w == World(cur)
           x == [w.s EXCEPT !.marker = -1]
           m == [w EXCEPT !.s.marker = -1]
<1>1. /\ at = "lines" /\ InHandler /\ sess[cur].mode = "none"
      /\ Carried(w) /\ Settled(w.s) /\ w \in Worlds /\ w.s \in Session
      /\ w.s.auth = "valid" /\ Spare(w.s)
  BY DispatchStart DEF STOR, APPE, AuthRequired
<1>2. Store(w) \/ Store(m)
  BY DEF STOR, APPE
<1>3. m = [w EXCEPT !.s = x]
  BY <1>1 DEF Worlds
<1>4. /\ x \in Session /\ x.fd = w.s.fd /\ x.active = w.s.active /\ x.auth = w.s.auth
      /\ x.dc = w.s.dc /\ x.mode = w.s.mode /\ x.owed = w.s.owed
  BY <1>1, BoundsAssumption DEF Session
<1> HIDE DEF w, x, m
<1>5. Carried(m) /\ Settled(m.s) /\ m.s.auth = "valid" /\ Spare(m.s)
  BY <1>1, <1>3, <1>4, FieldsSettle DEF Spare
<1>6. QED BY <1>1, <1>2, <1>5, StoreEnds

(* LIST and NLST: the devices, a directory, or one file.                     *)
LEMMA ListEnds ==
    ASSUME SInv, LIST \/ NLST
    PROVE  SInv' /\ StepFits
<1> DEFINE w == World(cur)
           X(p) == [w.s EXCEPT !.temp = p]
           U(p) == [w EXCEPT !.s.temp = p]
           l == U("list")
           v == U("devices")
           d == OpenFd(l, "dir")
           Y(n) == [l.s EXCEPT !.size = n]
<1>1. PICK m \in {"list", "nlst"} : List(w, m)
  BY DEF LIST, NLST
<1>2. /\ at = "lines" /\ InHandler /\ sess[cur].mode = "none"
      /\ Carried(w) /\ Settled(w.s) /\ w \in Worlds /\ w.s \in Session
      /\ w.s.auth = "valid" /\ Spare(w.s) /\ m \in Transfers /\ m \notin FileModes
  BY DispatchStart DEF LIST, NLST, AuthRequired, Transfers, FileModes
<1>3. \/ Answers(l, 1)
      \/ DataOpen(v, m)
      \/ d.s.fd["dir"] # None /\ DataOpen(d, m)
      \/ \E n \in 1..MaxLen : DataOpen([l EXCEPT !.s.size = n], m)
  BY <1>1 DEF List
<1>4. ASSUME NEW p \in {"list", "devices"}
      PROVE  /\ Carried(U(p)) /\ Settled(U(p).s) /\ Begun(U(p).s, m)
             /\ Good(U(p)) /\ Tidy(U(p)) /\ U(p) \in Worlds /\ Spare(U(p).s)
  <2>1. /\ X(p) \in Session /\ X(p).fd = w.s.fd /\ X(p).active = w.s.active
        /\ X(p).auth = w.s.auth /\ X(p).temp = p
        /\ X(p).dc = w.s.dc /\ X(p).mode = w.s.mode /\ X(p).owed = w.s.owed
    BY <1>2 DEF Session
  <2>2. U(p) = [w EXCEPT !.s = X(p)]
    BY <1>2 DEF Worlds
  <2> HIDE DEF w, X, U
  <2>3. /\ Carried(U(p)) /\ Settled(U(p).s) /\ U(p).s = X(p)
        /\ Good(U(p)) /\ Tidy(U(p)) /\ U(p) \in Worlds
    BY <1>2, <2>1, <2>2, FieldsSettle
  <2>4. Begun(U(p).s, m)
    BY <1>2, <2>1, <2>3 DEF Begun, Settled, Listening, Prepared, NoFiles
  <2>5. Spare(U(p).s)
    BY <1>2, <2>1, <2>3 DEF Spare
  <2>6. QED BY <2>3, <2>4, <2>5
<1>5. /\ Carried(l) /\ Settled(l.s) /\ Begun(l.s, m) /\ Good(l) /\ Tidy(l)
      /\ l \in Worlds /\ Carried(v) /\ Begun(v.s, m) /\ Spare(l.s) /\ Spare(v.s)
  BY <1>4
<1> HIDE DEF l, v
<1>6. Touches(l, d, "dir")
  <2>1. ~(l.s.fd["dir"] > 0)
    BY <1>5 DEF Settled, Listening, NoFiles, None
  <2>2. QED BY <1>5, <2>1, OpenTouches DEF Roles
<1> HIDE DEF d
<1>7. Carried(d) /\ Begun(d.s, m) /\ Spare(d.s)
  <2>1. /\ d.s.fd["pasv"] = l.s.fd["pasv"] /\ d.s.fd["data"] = l.s.fd["data"]
        /\ d.s.fd["file"] = l.s.fd["file"] /\ Alike(l.s, d.s)
    BY <1>6 DEF Touches, Roles
  <2>2. Begun(d.s, m)
    BY <1>2, <1>5, <2>1 DEF Begun, Connected, Prepared, Alike
  <2>3. Spare(d.s)
    BY <1>5, <2>1 DEF Spare, Alike
  <2>4. QED BY <1>5, <1>6, <2>2, <2>3, CarriedOn
<1>8. ASSUME NEW n \in 1..MaxLen, DataOpen([l EXCEPT !.s.size = n], m)
      PROVE  SInv' /\ StepFits
  <2>1. l.s \in Session /\ n \in 0..MaxLen
    BY <1>5, BoundsAssumption DEF Worlds
  <2>2. /\ Y(n) \in Session /\ Y(n).fd = l.s.fd /\ Y(n).active = l.s.active
        /\ Y(n).auth = l.s.auth /\ Y(n).dc = l.s.dc /\ Y(n).mode = l.s.mode
        /\ Y(n).temp = l.s.temp /\ Y(n).owed = l.s.owed
    BY <2>1 DEF Session
  <2>3. [l EXCEPT !.s.size = n] = [l EXCEPT !.s = Y(n)]
    BY <1>5 DEF Worlds
  <2> HIDE DEF Y
  <2>4. PICK u : u = [l EXCEPT !.s = Y(n)]
    OBVIOUS
  <2>5. Carried(u) /\ u.s = Y(n)
    BY <1>5, <2>2, <2>4, FieldsSettle
  <2>6. Begun(u.s, m) /\ Spare(u.s)
    BY <1>2, <1>5, <2>2, <2>5 DEF Begun, Connected, Prepared, Spare
  <2>7. QED BY <1>2, <1>8, <2>3, <2>4, <2>5, <2>6, DataOpenEnds
<1>9. QED BY <1>2, <1>3, <1>5, <1>7, <1>8, SettledAnswers, DataOpenEnds

-----------------------------------------------------------------------------
(* The data half of a turn.                                                  *)

(* The session's turn ends; it is as it was, moves on, or has given back.    *)
LEMMA AfterDataEnds ==
    ASSUME SInv, at \in {"data", "transfer"},
           NEW v, Reaches(World(cur), v), Tidy(v), Keeps(World(cur), v), AfterData(v),
           v.s.active = sess[cur].active,
           v.s.fd["control"] = sess[cur].fd["control"], ~v.s.active => v.s = sess[cur], Rests(v.s),
           sess[cur].mode # "none" /\ v.s.mode # sess[cur].mode => GivenBack(v.s)
    PROVE  SInv' /\ StepFits
<1>1. cur \in Slots /\ sess \in [Slots -> Session] /\ v.s \in Session
  BY ReachedWorld, CurrentWorld DEF SInv, IInv, TypeOK
<1>2. Commit(v) /\ UNCHANGED count /\ NextSession
  BY DEF AfterData
<1>3. TablesTidy' /\ sess' = [sess EXCEPT ![cur] = v.s] /\ OrphansKept
  BY <1>1, <1>2, CommitTidies
<1>4. \A s \in Slots : sess'[s] = IF s = cur THEN v.s ELSE sess[s]
  BY <1>1, <1>3
<1>5. \A s \in Slots : sess'[s].active = sess[s].active
  BY <1>1, <1>4
<1>6. /\ rev'.control = rev.control
      /\ \/ cur = MaxSessions /\ at' = "poll" /\ cur' = 1
         \/ cur # MaxSessions /\ at' = "control" /\ cur' = cur + 1
  BY <1>2 DEF NextSession, SInv, IInv, TypeOK
<1>7. SessionsFit'
  <2>1. ASSUME NEW s \in Slots
        PROVE  Rests(sess'[s]) /\ (~sess'[s].active => sess'[s] = Zeroed)
    <3>1. ~sess[s].active => sess[s] = Zeroed
      BY DEF SInv, SessionsFit
    <3>2. s # cur => Rests(sess[s])
      BY DEF SInv, SessionsFit, Opening
    <3>3. QED BY <1>4, <3>1, <3>2
  <2>2. at' # "opening"
    BY <1>6
  <2>3. QED BY <2>1, <2>2
            DEF SessionsFit, Opening, Pending, Rests, Settled, Listening, Moving, Begun,
                Connected, NoFiles, Prepared, Opened
<1>8. CountRight'
  <2>1. Active' = Active
    BY <1>5 DEF Active
  <2>2. QED BY <1>2, <2>1 DEF SInv, CountRight
<1>9. ThreadPlaced'
  BY <1>6 DEF ThreadPlaced
<1>10. EventsPending'
  <2>1. \A s \in Slots : rev'.control[s] # "none" => sess'[s].active
    BY <1>5, <1>6 DEF SInv, EventsPending
  <2>2. \A s \in 1..cur : rev.control[s] = "none"
    BY DEF SInv, EventsPending
  <2>3. CASE cur = MaxSessions
    BY <1>6, <2>1, <2>2, <2>3 DEF EventsPending, Slots
  <2>4. CASE cur # MaxSessions
    <3>1. cur' - 1 = cur
      BY <1>1, <1>6, <2>4, BoundsAssumption DEF Slots
    <3>2. QED BY <1>6, <2>1, <2>2, <2>4, <3>1 DEF EventsPending
  <2>5. QED BY <2>3, <2>4
<1>11. EndsClean
  BY <1>4 DEF EndsClean
<1>12. IInv'
  BY AfterDataKeeps DEF SInv
<1>13. ClientsHeld'
  BY <1>4 DEF SInv, ClientsHeld
<1>14. QED BY <1>3, <1>7, <1>8, <1>9, <1>10, <1>11, <1>12, <1>13 DEF SInv, StepFits

(* 226 or 426, after the step that moved offset and size.                    *)
LEMMA TransferOverEnds ==
    ASSUME SInv, at \in {"data", "transfer"}, sess[cur].active, sess[cur].mode # "none",
           NEW v, Reaches(World(cur), v), Tidy(v), Keeps(World(cur), v), v.s.active,
           Moving(v.s), v.s.fd["control"] = sess[cur].fd["control"], TransferOver(v)
    PROVE  SInv' /\ StepFits
<1> DEFINE e == DataTransferEnd(v)
           x == [e.s EXCEPT !.owed = @ - 1]
           u == [e EXCEPT !.s.owed = @ - 1]
<1>1. Good(v) /\ Connected(v.s) /\ v.s.owed = 1
  BY ReachedWorld DEF Moving
<1>2. /\ Reaches(World(cur), e) /\ Tidy(e) /\ Keeps(World(cur), e) /\ Good(e)
      /\ e.s.active /\ e.s.fd["control"] = sess[cur].fd["control"]
      /\ GivenBack(e.s) /\ Connected(e.s) /\ NoFiles(e.s) /\ e.s.owed = 1
  BY <1>1, GivenBackSettles
<1>3. AfterData(u)
  BY DEF TransferOver
<1> HIDE DEF e
<1>4. e.s \in Session /\ e \in Worlds
  BY <1>2 DEF Good, Worlds
<1>5. /\ x \in Session /\ x.fd = e.s.fd /\ x.active = e.s.active
      /\ x.owed = e.s.owed - 1
      /\ x.mode = e.s.mode /\ x.dc = e.s.dc /\ x.off = e.s.off
      /\ x.size = e.s.size /\ x.temp = e.s.temp
  BY <1>4 DEF Session
<1>6. u = [e EXCEPT !.s = x]
  BY <1>4 DEF Worlds
<1> HIDE DEF u, x
<1>7. Reaches(e, u) /\ Tidy(u) /\ Keeps(e, u) /\ u.s = x
  BY ONLY <1>2, <1>5, <1>6, FieldsCarry
<1>8. Reaches(World(cur), u) /\ Keeps(World(cur), u)
  BY <1>2, <1>7, ReachesTransitive, KeepsTransitive
<1>9. /\ Rests(u.s) /\ GivenBack(u.s) /\ u.s.active
      /\ u.s.fd["control"] = sess[cur].fd["control"]
  <2>1. x.owed = 0 /\ x.active
    BY <1>2, <1>5
  <2>2. GivenBack(x)
    BY <1>2, <1>5 DEF GivenBack
  <2>3. Settled(x)
    BY <1>2, <1>5, <2>1, <2>2 DEF Settled, Listening, GivenBack, Connected, NoFiles
  <2>4. QED BY <1>2, <1>5, <1>7, <2>1, <2>2, <2>3 DEF Rests
<1>10. QED BY <1>3, <1>7, <1>8, <1>9, AfterDataEnds

(* A change of offset and size in a transfer.                                *)
LEMMA WindowMoves ==
    ASSUME SInv, at \in {"data", "transfer"}, sess[cur].active, sess[cur].mode # "none",
           NEW a \in 0..MaxLen, NEW b \in 0..MaxLen,
           NEW x, x = [sess[cur] EXCEPT !.off = a, !.size = b],
           NEW u, u = [World(cur) EXCEPT !.s = x],
           AfterData(u) \/ TransferOver(u)
    PROVE  SInv' /\ StepFits
<1> DEFINE w == World(cur)
<1>1. /\ Reaches(w, w) /\ Good(w) /\ Tidy(w) /\ w \in Worlds /\ w.s \in Session
      /\ w.s = sess[cur] /\ Rests(sess[cur])
  BY CurrentWorld
<1>2. Moving(w.s)
  BY <1>1 DEF Rests, Settled, Listening
<1>3. /\ x \in Session /\ x.fd = w.s.fd /\ x.active = w.s.active
      /\ x.auth = w.s.auth /\ x.dc = w.s.dc /\ x.mode = w.s.mode
      /\ x.temp = w.s.temp /\ x.owed = w.s.owed /\ x.off = a /\ x.size = b
  BY <1>1 DEF Session
<1>4. u = [w EXCEPT !.s = x]
  OBVIOUS
<1>5. Reaches(w, u) /\ Tidy(u) /\ Keeps(w, u) /\ u.s = x
  BY ONLY <1>1, <1>3, <1>4, FieldsCarry
<1>6. /\ Moving(u.s) /\ u.s.active /\ u.s.mode = sess[cur].mode
      /\ u.s.fd["control"] = sess[cur].fd["control"]
  <2>1. Moving(x)
    BY ONLY <1>2, <1>3 DEF Moving, Connected, Prepared
  <2>2. x.active /\ x.mode = sess[cur].mode /\ x.fd = sess[cur].fd
    BY <1>1, <1>3
  <2>3. QED BY ONLY <1>5, <2>1, <2>2
<1>7. CASE AfterData(u)
  BY <1>5, <1>6, <1>7, AfterDataEnds DEF Rests
<1>8. CASE TransferOver(u)
  BY <1>5, <1>6, <1>8, TransferOverEnds
<1>9. QED BY <1>7, <1>8

(* One step of ftp_data_transfer_progress.                                   *)
LEMMA ProgressEnds ==
    ASSUME SInv, at \in {"data", "transfer"}, sess[cur].active, sess[cur].mode # "none",
           Progress(World(cur))
    PROVE  SInv' /\ StepFits
<1> DEFINE w == World(cur)
           Cut(n) == IF w.s.off + n > MaxLen THEN MaxLen ELSE w.s.off + n
<1>1. w \in Worlds /\ w.s \in Session /\ w.s = sess[cur]
  BY CurrentWorld
<1>2. w.s.off \in 0..MaxLen /\ w.s.size \in 0..MaxLen
  BY <1>1 DEF Session
<1>3. \A n \in 1..MaxLen : Cut(n) \in 0..MaxLen
  BY <1>2, BoundsAssumption
<1>4. ASSUME NEW a \in 0..MaxLen, NEW b \in 0..MaxLen,
              NEW u, u = [w EXCEPT !.s.off = a, !.s.size = b],
              AfterData(u) \/ TransferOver(u)
       PROVE  SInv' /\ StepFits
  <2> DEFINE x == [sess[cur] EXCEPT !.off = a, !.size = b]
  <2>1. u = [World(cur) EXCEPT !.s = x]
    BY <1>1, <1>4 DEF Worlds
  <2>2. x = [sess[cur] EXCEPT !.off = a, !.size = b]
    OBVIOUS
  <2> HIDE DEF x
  <2>3. QED BY <1>4, <2>1, <2>2, WindowMoves
<1>5. Progress(w)
  OBVIOUS
<1> HIDE DEF w
<1>6. CASE TransferOver(w)
  <2>1. w = [w EXCEPT !.s.off = w.s.off, !.s.size = w.s.size]
    BY <1>1 DEF Worlds, Session
  <2>2. QED BY <1>2, <1>6, <1>4, <2>1
<1>7. ASSUME NEW a \in 0..MaxLen, NEW p, p = [w EXCEPT !.s.off = a]
      PROVE  (AfterData(p) \/ TransferOver(p)) => SInv' /\ StepFits
  <2>1. p = [w EXCEPT !.s.off = a, !.s.size = w.s.size]
    BY <1>1, <1>7 DEF Worlds, Session
  <2>2. QED BY <1>2, <1>4, <2>1
<1>8. CASE SendFile(w)
  <2>1. ASSUME NEW n \in 1..(MaxLen - w.s.off), NEW p, p = [w EXCEPT !.s.off = @ + n],
               AfterData(p) \/ TransferOver(p)
        PROVE  SInv' /\ StepFits
    <3>1. w.s.off + n \in 0..MaxLen /\ p = [w EXCEPT !.s.off = w.s.off + n]
      BY <1>2, <2>1, BoundsAssumption
    <3>2. QED BY <1>7, <2>1, <3>1
  <2>2. QED BY <1>6, <1>8, <2>1 DEF SendFile
<1>9. CASE ReceiveFile(w)
  <2>1. ASSUME NEW n \in 1..MaxLen,
               AfterData([w EXCEPT !.s.off = IF @ + n > MaxLen THEN MaxLen ELSE @ + n])
        PROVE  SInv' /\ StepFits
    <3>1. [w EXCEPT !.s.off = IF @ + n > MaxLen THEN MaxLen ELSE @ + n]
            = [w EXCEPT !.s.off = Cut(n)]
      OBVIOUS
    <3> HIDE DEF Cut
    <3>2. QED BY <1>3, <1>7, <2>1, <3>1
  <2>2. QED BY <1>6, <1>9, <2>1 DEF ReceiveFile
<1>10. CASE SendList(w)
  <2>1. ASSUME NEW n \in 1..(w.s.size - 1),
               AfterData([w EXCEPT !.s.off = IF @ + n > MaxLen THEN MaxLen ELSE @ + n,
                                   !.s.size = @ - n])
        PROVE  SInv' /\ StepFits
    <3>1. n \in 1..MaxLen /\ w.s.size - n \in 0..MaxLen
      BY <1>2, BoundsAssumption
    <3>2. [w EXCEPT !.s.off = IF @ + n > MaxLen THEN MaxLen ELSE @ + n,
                    !.s.size = @ - n]
            = [w EXCEPT !.s.off = Cut(n), !.s.size = w.s.size - n]
      BY <1>1 DEF Worlds, Session
    <3>3. Cut(n) \in 0..MaxLen
      BY <1>3, <3>1
    <3>4. PICK u : u = [w EXCEPT !.s.off = Cut(n), !.s.size = w.s.size - n]
      OBVIOUS
    <3>5. AfterData(u)
      BY <2>1, <3>2, <3>4
    <3> HIDE DEF Cut
    <3>6. QED BY <1>4, <3>1, <3>3, <3>4, <3>5
  <2>2. ASSUME NEW a \in 0..(MaxLen - 1), NEW n \in 1..(MaxLen - a),
               AfterData([w EXCEPT !.s.off = a, !.s.size = n])
        PROVE  SInv' /\ StepFits
    <3>1. a \in 0..MaxLen /\ n \in 0..MaxLen
      BY BoundsAssumption
    <3>2. PICK u : u = [w EXCEPT !.s.off = a, !.s.size = n]
      OBVIOUS
    <3>3. AfterData(u)
      BY <2>2, <3>2
    <3>4. QED BY <1>4, <3>1, <3>2, <3>3
  <2>3. QED BY <1>6, <1>10, <2>1, <2>2 DEF SendList
<1>11. QED BY <1>8, <1>9, <1>10, <1>5 DEF Progress

(* The turn of a session on its data connection.                             *)
LEMMA DataStepEnds ==
    ASSUME SInv, TransferStep \/ TransferBlocks \/ TransferUnblocks \/ SkipData
    PROVE  SInv' /\ StepFits
<1> DEFINE w == World(cur)
<1>1. CASE TransferBlocks
  <2>1. IInv'
    BY <1>1, DataStepKeeps DEF SInv
  <2>2. /\ at = "data" /\ DataReady /\ at' = "transfer"
        /\ UNCHANGED <<sess, count, fdt, cur, opener, rev>>
    BY <1>1 DEF TransferBlocks
  <2>3. SessionsFit' /\ TablesTidy'
    BY <2>2 DEF SInv, SessionsFit, TablesTidy, Opening, Tidy, World, Pending, Rests,
                Settled, Listening, Moving, Begun, Connected, NoFiles, Prepared, Opened
  <2>4. CountRight'
    BY <2>2 DEF SInv, CountRight, Active
  <2>5. ThreadPlaced' /\ EventsPending' /\ EndsClean /\ ClientsHeld'
    BY <2>2 DEF SInv, ThreadPlaced, ClientsHeld, EventsPending, EndsClean, DataReady
  <2>6. OrphansKept
    BY <2>2 DEF OrphansKept, Orphans
  <2>7. QED BY <2>1, <2>3, <2>4, <2>5, <2>6 DEF SInv, StepFits
<1>2. ASSUME at \in {"data", "transfer"}, AfterData(w) PROVE SInv' /\ StepFits
  <2>1. Reaches(w, w) /\ Tidy(w) /\ Keeps(w, w) /\ w.s = sess[cur] /\ Rests(w.s)
    BY <1>2, CurrentWorld
  <2>2. QED BY <1>2, <2>1, AfterDataEnds
<1>3. CASE TransferStep
  BY <1>2, <1>3, ProgressEnds DEF TransferStep, DataReady
<1>4. CASE TransferUnblocks
  BY <1>4, ProgressEnds DEF TransferUnblocks, SInv, ThreadPlaced
<1>5. CASE SkipData
  BY <1>2, <1>5 DEF SkipData
<1>6. QED BY <1>1, <1>3, <1>4, <1>5

-----------------------------------------------------------------------------
(* Sessions and the loop.                                                    *)

(* A session that was never used is settled, and has nothing to give back.   *)
LEMMA ZeroedSettles ==
    Settled(Zeroed) /\ GivenBack(Zeroed) /\ Zeroed.fd["dir"] # 0 /\ ~Zeroed.active
    /\ \A r \in Roles : ~(Zeroed.fd[r] > 0)
  BY ZeroedIsSession
     DEF Zeroed, Settled, Listening, GivenBack, Connected, NoFiles, Roles, None

(* There are finitely many sessions.                                         *)
LEMMA ActiveIsFinite ==
    IsFiniteSet(Active) /\ IsFiniteSet(Active') /\ Cardinality(Active) \in Nat
<1>1. IsFiniteSet(1..MaxSessions)
  BY BoundsAssumption, FS_Interval
<1>2. Active \subseteq 1..MaxSessions /\ Active' \subseteq 1..MaxSessions
  BY DEF Active, Slots
<1>3. QED BY <1>1, <1>2, FS_Subset, FS_CardinalityType

(* ftp_session_close, in mid-transfer or not.                                *)
LEMMA CloseSessionEnds ==
    ASSUME SInv, at # "opening", NEW s \in Slots, sess[s].active, CloseSession(s)
    PROVE  /\ TablesTidy' /\ sess' = [sess EXCEPT ![s] = Zeroed]
           /\ CountRight' /\ StepFits
<1> DEFINE w == World(s)
           c == CloseSocket(w, "control")
           e == DataTransferEnd(c)
           z == [e EXCEPT !.s = Zeroed]
<1>1. /\ Good(w) /\ Tidy(w) /\ w.s = sess[s] /\ Rests(sess[s])
      /\ sess \in [Slots -> Session]
  <2>1. Good(w)
    BY WorldIsGood DEF SInv
  <2>2. Tidy(w) /\ Rests(sess[s]) /\ w.s = sess[s]
    BY DEF SInv, TablesTidy, SessionsFit, Opening, World
  <2>3. QED BY <2>1, <2>2 DEF SInv, IInv, TypeOK
<1>2. Commit(z) /\ count' = count - 1
  BY DEF CloseSession, SessionClosed
<1> HIDE DEF w
<1>3. Touches(w, c, "control") /\ ~(c.s.fd["control"] > 0) /\ Good(c) /\ Tidy(c)
  BY <1>1, CloseSocketTouches, ReachedWorld DEF Roles, Touches
<1> HIDE DEF c
<1>4. Connected(c.s)
  <2>1. /\ c.s.fd["pasv"] = w.s.fd["pasv"] /\ c.s.fd["data"] = w.s.fd["data"]
        /\ Alike(w.s, c.s)
    BY <1>3 DEF Touches, Roles
  <2>2. Connected(w.s)
    BY <1>1 DEF Rests, Settled, Listening, Moving
  <2>3. QED BY <2>1, <2>2 DEF Connected, Alike
<1>5. Reaches(c, e) /\ Tidy(e) /\ Keeps(c, e) /\ Good(e) /\ GivenBack(e.s)
      /\ e.s.fd["control"] = c.s.fd["control"]
  BY <1>3, <1>4, TransferEndGivesBack, ReachedWorld
<1> HIDE DEF e
<1>6. \A r \in Roles : ~(e.s.fd[r] > 0)
  <2>1. \A r \in Roles : e.s.fd[r] \in Int
    BY <1>5, HandleType
  <2>2. QED BY <1>3, <1>5, <2>1 DEF GivenBack
<1>7. Reaches(World(s), z)
  <2>1. Reaches(w, e)
    BY <1>3, <1>5, ReachesTransitive DEF Touches
  <2>2. Reaches(e, z)
    BY <1>5, ZeroedReaches
  <2>3. QED BY <2>1, <2>2, ReachesTransitive DEF w
<1>8. z.s = Zeroed /\ z.t = e.t /\ z.me = e.me
  BY <1>5 DEF Good, Worlds
<1>9. Tidy(z)
  <2>1. ASSUME ~ZeroFileOpen, NEW f \in Fds, NEW r \in Roles \ {"data"}
        PROVE  e.t[f] # Owner(e.me, r)
    <3>1. SUFFICES ASSUME e.t[f] = Owner(e.me, r) PROVE FALSE
      OBVIOUS
    <3>2. e.s.fd[r] = f /\ e.t[0] = Std
      BY <1>5, <2>1, <3>1 DEF Tidy
    <3>3. f > 0
      BY <3>1, <3>2 DEF Std, Owner, Roles, Fds
    <3>4. QED BY <1>6, <3>2, <3>3
  <2>2. QED BY <1>5, <1>8, <2>1, ZeroedSettles DEF Tidy
<1>10. Keeps(World(s), z)
  <2>1. ASSUME ~ZeroFileOpen, NEW f \in Lost(z) PROVE f \in Lost(e)
    <3>1. f \in Fds /\ e.t[f] = Owner(e.me, "data") /\ e.t[0] = Std
      BY <1>5, <1>8, <2>1 DEF Lost, Tidy
    <3>2. f > 0
      BY <3>1 DEF Std, Owner, Fds
    <3>3. e.s.fd["data"] # f
      BY <1>6, <3>2 DEF Roles
    <3>4. QED BY <3>1, <3>3 DEF Lost
  <2>2. Keeps(e, z)
    BY <2>1 DEF Keeps
  <2>3. QED BY <1>3, <1>5, <2>2, KeepsTransitive DEF Touches, w
<1> HIDE DEF z
<1>11. TablesTidy' /\ sess' = [sess EXCEPT ![s] = Zeroed] /\ OrphansKept
  BY <1>2, <1>7, <1>8, <1>9, <1>10, CommitTidies
<1>12. CountRight'
  <2>1. Active' = Active \ {s} /\ s \in Active
    BY <1>1, <1>11, ZeroedSettles DEF Active
  <2>2. Cardinality(Active') = Cardinality(Active) - 1
    BY <2>1, ActiveIsFinite, FS_RemoveElement
  <2>3. QED BY <1>2, <2>2 DEF SInv, CountRight
<1>13. EndsClean
  BY <1>1, <1>11, ZeroedSettles DEF EndsClean
<1>14. QED BY <1>11, <1>12, <1>13 DEF StepFits

(* Closing a session leaves the others as they were.                         *)
LEMMA OthersFit ==
    ASSUME SInv, at # "opening", at' # "opening", NEW s \in Slots,
           NEW x, x.active \/ x = Zeroed, Rests(x),
           ~ZeroFileOpen /\ x.active => x.fd["control"] > 0,
           sess' = [sess EXCEPT ![s] = x]
    PROVE  SessionsFit' /\ ClientsHeld'
<1>1. \A i \in Slots : sess'[i] = IF i = s THEN x ELSE sess[i]
  BY DEF SInv, IInv, TypeOK
<1>2. \A i \in Slots : Rests(sess'[i]) /\ (~sess'[i].active => sess'[i] = Zeroed)
  BY <1>1 DEF SInv, SessionsFit, Opening
<1>3. SessionsFit'
  BY <1>2 DEF SessionsFit, Opening, Pending, Rests, Settled, Listening, Moving, Begun,
                      Connected, NoFiles, Prepared, Opened
<1>4. ClientsHeld'
  BY <1>1 DEF SInv, ClientsHeld
<1>5. QED BY <1>3, <1>4

(* The client has gone.                                                      *)
LEMMA HangupEnds ==
    ASSUME SInv, Hangup
    PROVE  SInv' /\ StepFits
<1>1. IInv'
  BY HangupKeeps DEF SInv
<1>2. /\ at = "control" /\ at' = "data" /\ CloseSession(cur) /\ cur' = cur
      /\ rev.control[cur] # "none" /\ cur \in Slots
      /\ rev' = [rev EXCEPT !.control[cur] = "none"]
      /\ sess[cur].active
  BY CurrentWorld DEF Hangup, SInv, EventsPending
<1>3. /\ TablesTidy' /\ sess' = [sess EXCEPT ![cur] = Zeroed]
      /\ CountRight' /\ StepFits
  BY <1>2, CloseSessionEnds
<1>4. SessionsFit' /\ ClientsHeld'
  BY <1>2, <1>3, ZeroedSettles, OthersFit DEF Rests
<1>5. ThreadPlaced'
  BY <1>2 DEF ThreadPlaced
<1>6. EventsPending'
  <2>1. sess \in [Slots -> Session] /\ rev.control \in [Slots -> {"none", "in", "err"}]
        /\ rev'.control = [rev.control EXCEPT ![cur] = "none"]
    BY <1>2 DEF SInv, IInv, TypeOK
  <2>2. \A i \in Slots : rev'.control[i] # "none" => sess'[i].active
    BY <1>2, <1>3, <2>1 DEF SInv, EventsPending
  <2>3. \A i \in 1..cur : rev'.control[i] = "none"
    <3>1. \A i \in 1..(cur - 1) : rev.control[i] = "none"
      BY <1>2 DEF SInv, EventsPending
    <3>2. \A i \in 1..cur : i \in Slots /\ (i = cur \/ i \in 1..(cur - 1))
      BY <1>2, BoundsAssumption DEF Slots
    <3>3. QED BY <2>1, <3>1, <3>2
  <2>4. QED BY <1>2, <2>2, <2>3 DEF EventsPending
<1>7. QED BY <1>1, <1>3, <1>4, <1>5, <1>6 DEF SInv

(* ftpsrv_exit.                                                              *)
LEMMA ExitEnds ==
    ASSUME SInv, Exit
    PROVE  SInv' /\ StepFits
<1>1. IInv'
  BY ExitKeeps DEF SInv
<1>2. at = "exit" /\ cur' = cur /\ rev' = rev /\ opener' = opener
  BY DEF Exit
<1>3. CASE Active # {}
  <2> DEFINE s == First(Active)
  <2>1. s \in Slots /\ sess[s].active
    BY <1>3, FirstIsMember DEF Active
  <2>2. CloseSession(s) /\ at' = at
    BY <1>3 DEF Exit
  <2> HIDE DEF s
  <2>3. /\ TablesTidy' /\ sess' = [sess EXCEPT ![s] = Zeroed]
        /\ CountRight' /\ StepFits
    BY <1>2, <2>1, <2>2, CloseSessionEnds
  <2>4. SessionsFit' /\ ClientsHeld'
    BY <1>2, <2>1, <2>2, <2>3, ZeroedSettles, OthersFit DEF Rests
  <2>5. ThreadPlaced' /\ EventsPending'
    BY <1>2, <2>2 DEF SInv, ThreadPlaced, EventsPending
  <2>6. QED BY <1>1, <2>3, <2>4, <2>5 DEF SInv
<1>4. CASE Active = {}
  <2>1. /\ sess' = sess /\ count' = count /\ at' = "stopped"
        /\ fdt' = IF server > 0 THEN [fdt EXCEPT ![server] = Free] ELSE fdt
    BY <1>4 DEF Exit
  <2>2. fdt \in [Fds -> Uses] /\ server \in Fds \cup {None}
    BY DEF SInv, IInv, TypeOK
  <2>3. TablesTidy'
    <3>1. ASSUME ~ZeroFileOpen, NEW s \in Slots
          PROVE  /\ fdt'[0] = Std /\ sess'[s].fd["dir"] # 0
                 /\ \A f \in Fds, r \in Roles \ {"data"} :
                      fdt'[f] = Owner(s, r) => sess'[s].fd[r] = f
      <4>1. /\ fdt[0] = Std /\ sess[s].fd["dir"] # 0
            /\ \A f \in Fds, r \in Roles \ {"data"} :
                 fdt[f] = Owner(s, r) => sess[s].fd[r] = f
        BY <3>1 DEF SInv, TablesTidy, Tidy, World
      <4>2. \A f \in Fds : fdt'[f] = fdt[f] \/ (fdt'[f] = Free /\ f # 0)
        BY <2>1, <2>2, BoundsAssumption DEF Fds, None
      <4>3. \A r \in Roles : Free # Owner(s, r)
        BY DEF Free, Owner, Roles
      <4>4. 0 \in Fds
        BY BoundsAssumption DEF Fds
      <4>5. QED BY <2>1, <4>1, <4>2, <4>3, <4>4
    <3>2. QED BY <3>1 DEF TablesTidy, Tidy, World
  <2>4. SessionsFit'
    <3>1. \A s \in Slots : ~ Opening(s) /\ ~ Opening(s)'
      BY <1>2, <2>1 DEF Opening
    <3>2. QED BY <2>1, <3>1 DEF SInv, SessionsFit
  <2>5. ThreadPlaced' /\ EventsPending'
    BY <1>2, <1>4, <2>1 DEF SInv, ThreadPlaced, EventsPending, Active
  <2>6. EndsClean
    BY <2>1 DEF EndsClean
  <2>7. CountRight' /\ ClientsHeld'
    BY <2>1 DEF SInv, CountRight, Active, ClientsHeld
  <2>8. OrphansKept
    <3>1. \A f \in Fds : fdt'[f] = fdt[f] \/ fdt'[f] = Free
      BY <2>1, <2>2
    <3>2. Free.role # "data"
      BY DEF Free
    <3>3. QED BY <2>1, <3>1, <3>2 DEF OrphansKept, Orphans
  <2>9. QED BY <1>1, <2>3, <2>4, <2>5, <2>6, <2>7, <2>8 DEF SInv, StepFits
<1>5. QED BY <1>3, <1>4

(* ftpsrv_init.                                                              *)
LEMMA StartEnds ==
    ASSUME SInv, Start
    PROVE  SInv' /\ StepFits
<1> DEFINE f == LowestFree(fdt)
<1>1. IInv'
  BY StartKeeps DEF SInv
<1>2. f \in Fds /\ fdt[f] = Free
  BY LowestFreeIsFree DEF Start
<1>3. /\ fdt' = [fdt EXCEPT ![f] = Listener]
      /\ sess' = [s \in Slots |-> Zeroed] /\ count' = 0
      /\ at = "stopped" /\ at' = "poll" /\ cur' = cur /\ rev' = rev
  BY DEF Start
<1> HIDE DEF f
<1>4. TablesTidy'
  <2>1. ASSUME ~ZeroFileOpen, NEW s \in Slots
        PROVE  /\ fdt'[0] = Std /\ sess'[s].fd["dir"] # 0
               /\ \A g \in Fds, r \in Roles \ {"data"} :
                    fdt'[g] = Owner(s, r) => sess'[s].fd[r] = g
    <3>1. fdt \in [Fds -> Uses] /\ 0 \in Fds
      BY BoundsAssumption DEF SInv, IInv, TypeOK, Fds
    <3>2. fdt[0] = Std /\ 0 # f
      BY <1>2, <2>1 DEF SInv, TablesTidy, Tidy, World, Std, Free
    <3>3. ASSUME NEW g \in Fds, NEW r \in Roles \ {"data"}
          PROVE  fdt'[g] # Owner(s, r)
      <4>1. Listener # Owner(s, r)
        BY DEF Listener, Owner, Slots
      <4>2. SUFFICES ASSUME fdt[g] = Owner(s, r) PROVE FALSE
        BY <1>3, <3>1, <4>1
      <4>3. sess[s].fd[r] = g /\ g # 0
        BY <2>1, <3>2, <4>2 DEF SInv, TablesTidy, Tidy, World, Std, Owner, Roles
      <4>4. sess[s].active
        BY <4>3, ZeroedSettles DEF SInv, SessionsFit, Fds
      <4>5. QED BY <1>3, <4>4 DEF SInv, ThreadPlaced
    <3>4. QED BY <1>3, <3>1, <3>2, <3>3, ZeroedSettles
  <2>2. QED BY <2>1 DEF TablesTidy, Tidy, World
<1>5. SessionsFit' /\ ThreadPlaced'
  BY <1>3, ZeroedSettles
     DEF SessionsFit, ThreadPlaced, Opening, Rests, Settled, Listening, Moving, Connected,
         NoFiles, Prepared, Opened, Pending, Begun
<1>6. CountRight'
  <2>1. Active' = {}
    BY <1>3, ZeroedSettles DEF Active
  <2>2. QED BY <1>3, <2>1, FS_EmptySet DEF CountRight
<1>7. EventsPending' /\ ClientsHeld'
  BY <1>3, ZeroedSettles DEF SInv, EventsPending, ClientsHeld
<1>8. EndsClean
  BY <1>3, ZeroedSettles DEF EndsClean
<1>9. OrphansKept
  <2>1. fdt \in [Fds -> Uses] /\ sess' = sess
    <3>1. \A s \in Slots : sess[s] = Zeroed
      BY <1>3 DEF SInv, SessionsFit, ThreadPlaced
    <3>2. QED BY <1>3, <3>1 DEF SInv, IInv, TypeOK
  <2>2. Listener.role # "data"
    BY DEF Listener
  <2>3. \A g \in Fds : fdt'[g] = fdt[g] \/ fdt'[g] = Listener
    BY <1>3, <2>1
  <2>4. QED BY <2>1, <2>2, <2>3 DEF OrphansKept, Orphans
<1>10. QED BY <1>1, <1>4, <1>5, <1>6, <1>7, <1>8, <1>9 DEF SInv, StepFits

(* poll() reports no event of a slot that is free.                           *)
LEMMA PollEnds ==
    ASSUME SInv, Poll
    PROVE  SInv' /\ StepFits
<1>1. IInv'
  BY PollKeeps DEF SInv
<1>2. PICK other \in {"none", "in"}, ready \in SUBSET Transferring :
        rev' = [accept |-> backlog > 0,
                control |-> [s \in Slots |-> ControlEvent(s, other)],
                data |-> [s \in Slots |-> s \in ready]]
  BY DEF Poll
<1>3. \A s \in Slots : rev'.control[s] # "none" => sess[s].active
  BY <1>2 DEF ControlEvent
<1>4. /\ at = "poll" /\ at' = "accept"
      /\ UNCHANGED <<sess, count, fdt, cur, opener>>
  BY DEF Poll
<1>5. SessionsFit' /\ TablesTidy'
  BY <1>4 DEF SInv, SessionsFit, TablesTidy, Opening, Tidy, World, Pending, Rests,
              Settled, Listening, Moving, Begun, Connected, NoFiles, Prepared, Opened
<1>6. CountRight' /\ ThreadPlaced' /\ EndsClean /\ ClientsHeld'
  BY <1>4 DEF SInv, ClientsHeld, CountRight, Active, ThreadPlaced, EndsClean
<1>7. EventsPending'
  BY <1>3, <1>4 DEF SInv, EventsPending
<1>8. OrphansKept
  BY <1>4 DEF OrphansKept, Orphans
<1>9. QED BY <1>1, <1>5, <1>6, <1>7, <1>8 DEF SInv, StepFits

(* ftp_session_init: a free slot is clean, and so is what it is given.       *)
LEMMA AcceptEnds ==
    ASSUME SInv, Accept
    PROVE  SInv' /\ StepFits
<1> DEFINE s == First(Inactive)
           z == [World(s) EXCEPT !.s = Zeroed]
           w == OpenFd(z, "control")
           x == [w.s EXCEPT !.active = TRUE]
           v == [w EXCEPT !.s.active = TRUE]
<1>1. IInv'
  BY AcceptKeeps DEF SInv
<1>2. s \in Slots /\ ~sess[s].active
  BY FirstIsMember DEF Accept, AcceptDue, Inactive, Active
<1>3. /\ at = "accept" /\ at' = "control" /\ cur' = cur /\ opener' = opener
      /\ rev' = [rev EXCEPT !.accept = FALSE]
      /\ \/ UNCHANGED <<sess, fdt, count>>
         \/ w.s.fd["control"] # None /\ Commit(v) /\ count' = count + 1
  BY DEF Accept
<1> HIDE DEF s
<1>4. rev'.control = rev.control
  BY <1>3 DEF SInv, IInv, TypeOK
<1>5. CASE UNCHANGED <<sess, fdt, count>>
  <2>1. SessionsFit' /\ TablesTidy'
    BY <1>3, <1>5
       DEF SInv, SessionsFit, TablesTidy, Opening, Tidy, World, Pending, Rests,
           Settled, Listening, Moving, Begun, Connected, NoFiles, Prepared, Opened
  <2>2. CountRight' /\ ThreadPlaced' /\ EndsClean /\ ClientsHeld'
    BY <1>3, <1>5 DEF SInv, ClientsHeld, CountRight, Active, ThreadPlaced, EndsClean
  <2>3. EventsPending'
    BY <1>3, <1>4, <1>5, BoundsAssumption DEF SInv, EventsPending
  <2>4. OrphansKept
    BY <1>5 DEF OrphansKept, Orphans
  <2>5. QED BY <1>1, <2>1, <2>2, <2>3, <2>4 DEF SInv, StepFits
<1>6. CASE w.s.fd["control"] # None /\ Commit(v) /\ count' = count + 1
  <2>1. sess[s] = Zeroed /\ World(s).s = Zeroed /\ Good(World(s)) /\ Tidy(World(s))
        /\ sess \in [Slots -> Session]
    <3>1. sess[s] = Zeroed /\ Tidy(World(s))
      BY <1>2 DEF SInv, SessionsFit, TablesTidy
    <3>2. QED BY <1>2, <3>1, WorldIsGood DEF SInv, IInv, TypeOK, World
  <2>2. z = World(s)
    BY <2>1 DEF World
  <2> HIDE DEF z
  <2>3. /\ Touches(z, w, "control") /\ ~(z.s.fd["control"] > 0)
        /\ Opened(w.s.fd["control"])
    BY <1>6, <2>1, <2>2, ZeroedSettles, OpenTouches DEF Roles
  <2> HIDE DEF w
  <2>4. Good(w) /\ Tidy(w) /\ w \in Worlds /\ w.s \in Session /\ Reaches(World(s), w)
    BY <2>2, <2>3, ReachedWorld DEF Touches
  <2>5. x \in Session /\ x.fd = w.s.fd /\ x.active
        /\ x.dc = w.s.dc /\ x.mode = w.s.mode /\ x.owed = w.s.owed
    BY <2>4 DEF Session
  <2>6. v = [w EXCEPT !.s = x]
    BY <2>4 DEF Worlds
  <2> HIDE DEF x, v
  <2>7. Reaches(w, v) /\ Tidy(v) /\ Keeps(w, v) /\ v.s = x
    BY ONLY <2>4, <2>5, <2>6, FieldsCarry
  <2>8. Settled(x)
    <3>1. /\ w.s.fd["pasv"] = Zeroed.fd["pasv"] /\ w.s.fd["data"] = Zeroed.fd["data"]
          /\ w.s.fd["file"] = Zeroed.fd["file"] /\ w.s.fd["dir"] = Zeroed.fd["dir"]
          /\ Alike(Zeroed, w.s)
      BY <2>1, <2>2, <2>3 DEF Touches, Roles
    <3>2. QED BY <2>5, <3>1, ZeroedSettles DEF Settled, Listening, Connected, NoFiles, Alike
  <2>9. Reaches(World(s), v) /\ Keeps(World(s), v)
    BY <2>2, <2>3, <2>4, <2>7, ReachesTransitive, KeepsTransitive DEF Touches
  <2>10. TablesTidy' /\ sess' = [sess EXCEPT ![s] = x] /\ OrphansKept
    BY <1>2, <1>6, <2>7, <2>9, CommitTidies
  <2>11. SessionsFit' /\ ClientsHeld'
    BY <2>3, <1>2, <1>3, <2>5, <2>8, <2>10, OthersFit DEF Rests, Opened
  <2>12. CountRight'
    <3>1. Active' = Active \cup {s} /\ s \notin Active
      BY <1>2, <2>1, <2>5, <2>10 DEF Active
    <3>2. Cardinality(Active') = Cardinality(Active) + 1
      BY <3>1, ActiveIsFinite, FS_AddElement
    <3>3. QED BY <1>6, <3>2 DEF SInv, CountRight
  <2>13. EndsClean
    BY <1>2, <2>1, <2>10 DEF EndsClean, Zeroed
  <2>14. ThreadPlaced'
    BY <1>3 DEF ThreadPlaced
  <2>15. EventsPending'
    <3>1. \A i \in Slots : rev.control[i] # "none" => sess'[i].active
      BY <1>2, <2>1, <2>5, <2>10 DEF SInv, EventsPending
    <3>2. cur' = 1
      BY <1>3 DEF SInv, EventsPending
    <3>3. QED BY <1>3, <1>4, <3>1, <3>2 DEF EventsPending
  <2>16. QED BY <1>1, <2>10, <2>11, <2>12, <2>13, <2>14, <2>15 DEF SInv, StepFits
<1>7. QED BY <1>3, <1>5, <1>6

(* The steps that only move the loop on.                                     *)
LEMMA LoopEnds ==
    ASSUME SInv, SkipAccept \/ Receive \/ SkipControl \/ LinesDone \/ LoopError
    PROVE  SInv' /\ StepFits
<1>1. IInv'
  BY LoopKeeps DEF SInv
<1>2. /\ UNCHANGED <<sess, count, fdt, cur, opener>>
      /\ at # "opening" /\ at' # "opening" /\ at' # "stopped"
  BY DEF SkipAccept, Receive, SkipControl, LinesDone, LoopError
<1>3. SessionsFit' /\ TablesTidy'
  BY <1>2 DEF SInv, SessionsFit, TablesTidy, Opening, Tidy, World, Pending, Rests,
              Settled, Listening, Moving, Begun, Connected, NoFiles, Prepared, Opened
<1>4. CountRight' /\ StepFits /\ ClientsHeld'
  BY <1>2 DEF SInv, ClientsHeld, CountRight, Active, StepFits,
              EndsClean, OrphansKept, Orphans
<1>5. rev.control \in [Slots -> {"none", "in", "err"}] /\ cur \in Slots
      /\ rev \in [accept : BOOLEAN, control : [Slots -> {"none", "in", "err"}],
                  data : [Slots -> BOOLEAN]]
  BY DEF SInv, IInv, TypeOK
<1>6. \A i \in 1..cur : i = cur \/ i \in 1..(cur - 1)
  BY <1>5 DEF Slots
<1>7. CASE SkipAccept
  <2>1. rev'.control = rev.control /\ at = "accept" /\ at' = "control"
    BY <1>5, <1>7 DEF SkipAccept
  <2>2. QED BY <1>1, <1>2, <1>3, <1>4, <2>1 DEF SInv, ThreadPlaced, EventsPending
<1>8. CASE Receive
  <2>1. /\ rev'.control = [rev.control EXCEPT ![cur] = "none"]
        /\ at = "control" /\ at' = "lines" /\ rev.control[cur] = "in"
    BY <1>5, <1>8 DEF Receive
  <2>2. \A i \in Slots : rev'.control[i] # "none" => sess'[i].active
    BY <1>2, <1>5, <2>1 DEF SInv, EventsPending
  <2>3. \A i \in 1..cur : rev'.control[i] = "none"
    <3>1. \A i \in 1..cur : i \in Slots
      BY <1>5, BoundsAssumption DEF Slots
    <3>2. QED BY <1>5, <1>6, <2>1, <3>1 DEF SInv, EventsPending
  <2>4. ThreadPlaced' /\ EventsPending'
    BY <1>2, <1>5, <2>1, <2>2, <2>3 DEF SInv, ThreadPlaced, EventsPending
  <2>5. QED BY <1>1, <1>3, <1>4, <2>4 DEF SInv
<1>9. CASE SkipControl
  <2>1. rev' = rev /\ at = "control" /\ at' = "data" /\ rev.control[cur] = "none"
    BY <1>9 DEF SkipControl
  <2>2. \A i \in 1..cur : rev.control[i] = "none"
    BY <1>6, <2>1 DEF SInv, EventsPending
  <2>3. QED BY <1>1, <1>2, <1>3, <1>4, <2>1, <2>2 DEF SInv, ThreadPlaced, EventsPending
<1>10. CASE LinesDone
  <2>1. rev' = rev /\ at = "lines" /\ at' = "data"
    BY <1>10 DEF LinesDone
  <2>2. QED BY <1>1, <1>2, <1>3, <1>4, <2>1 DEF SInv, ThreadPlaced, EventsPending
<1>11. CASE LoopError
  <2>1. rev' = rev /\ at = "poll" /\ at' = "exit"
    BY <1>11 DEF LoopError
  <2>2. QED BY <1>1, <1>2, <1>3, <1>4, <2>1 DEF SInv, ThreadPlaced, EventsPending
<1>12. QED BY <1>7, <1>8, <1>9, <1>10, <1>11

(* What clients do, and nothing.                                             *)
LEMMA ClientEnds ==
    ASSUME SInv, Client \/ UNCHANGED vars
    PROVE  SInv' /\ StepFits
<1>1. IInv'
  BY NextIInv DEF SInv, Next
<1>2. UNCHANGED <<sess, count, fdt, at, cur, opener, rev>>
  BY DEF Client, ClientConnects, ClientSends, ClientLeaves, vars
<1>3. SessionsFit' /\ TablesTidy'
  BY <1>2 DEF SInv, SessionsFit, TablesTidy, Opening, Tidy, World, Pending, Rests,
              Settled, Listening, Moving, Begun, Connected, NoFiles, Prepared, Opened
<1>4. CountRight' /\ ThreadPlaced' /\ EventsPending' /\ StepFits /\ ClientsHeld'
  BY <1>2 DEF SInv, ClientsHeld, CountRight, Active, ThreadPlaced, EventsPending, StepFits,
              EndsClean, OrphansKept, Orphans
<1>5. QED BY <1>1, <1>3, <1>4 DEF SInv

-----------------------------------------------------------------------------
(* The invariant is inductive, and every step ends transfers clean.          *)
LEMMA InitSInv == Init => SInv
<1> SUFFICES ASSUME Init PROVE SInv
  OBVIOUS
<1>1. IInv
  BY InitIInv
<1>2. TablesTidy
  <2>1. \A s \in Slots, f \in Fds, r \in Roles : fdt[f] # Owner(s, r)
    BY DEF Init, Std, Free, Owner, Roles
  <2>2. fdt[0] = Std
    BY BoundsAssumption DEF Init, Fds
  <2>3. QED BY <2>1, <2>2, ZeroedSettles DEF Init, TablesTidy, Tidy, World
<1>3. SessionsFit /\ ThreadPlaced
  BY ZeroedSettles DEF Init, SessionsFit, ThreadPlaced, Opening, Rests
<1>4. CountRight
  <2>1. Active = {}
    BY ZeroedSettles DEF Init, Active
  <2>2. QED BY <2>1, FS_EmptySet DEF Init, CountRight
<1>5. EventsPending /\ ClientsHeld
  BY ZeroedSettles DEF Init, EventsPending, NoEvents, ClientsHeld
<1>6. QED BY <1>1, <1>2, <1>3, <1>4, <1>5 DEF SInv

(* Every step.                                                               *)
LEMMA NextSInv == SInv /\ [Next]_vars => SInv' /\ StepFits
<1> SUFFICES ASSUME SInv, [Next]_vars PROVE SInv' /\ StepFits
  OBVIOUS
<1>1. CASE Handler
  BY <1>1, RejectEnds, LoginEnds, MarkerEnds, ConnectionEnds, ABOREnds, RETREnds,
     UploadEnds, ListEnds DEF Handler
<1>2. CASE Accept \/ Hangup \/ Exit \/ Start \/ Poll
  BY <1>2, AcceptEnds, HangupEnds, ExitEnds, StartEnds, PollEnds
<1>3. CASE SkipAccept \/ Receive \/ SkipControl \/ LinesDone \/ LoopError
  BY <1>3, LoopEnds
<1>4. CASE TransferStep \/ TransferBlocks \/ TransferUnblocks \/ SkipData
  BY <1>4, DataStepEnds
<1>5. CASE PeerConnects \/ OpenFails
  BY <1>5, OpeningEnds
<1>6. CASE Client \/ UNCHANGED vars
  BY <1>6, ClientEnds
<1>7. QED BY <1>1, <1>2, <1>3, <1>4, <1>5, <1>6 DEF Next, Running, Replying, Peer

(* The inductive invariant of the sessions holds in every state.             *)
THEOREM SessionInvariance == Spec => []SInv
<1>1. SInv /\ [Next]_vars => SInv'
  BY NextSInv
<1>2. QED BY <1>1, InitSInv, PTL DEF Spec

(* Each command is answered once: no path of a handler, an abort or a data   *)
(* step forgets the final reply or sends it twice.                           *)
THEOREM RepliesAreBalanced == Spec => []RepliesBalanced
<1>1. SInv => RepliesBalanced
  BY DEF SInv, SessionsFit, RepliesBalanced, Rests, Settled, Listening, Moving, Pending, Begun
<1>2. QED BY <1>1, SessionInvariance, PTL

(* session_count is the number of active sessions, and a slot that is free   *)
(* shows nothing of the session it held.                                     *)
THEOREM SessionsAreCounted == Spec => []SessionsCounted
<1>1. SInv => SessionsCounted
  BY DEF SInv, CountRight, SessionsFit, SessionsCounted, Inactive, Active
<1>2. QED BY <1>1, SessionInvariance, PTL

(* However a transfer ends, all it held is given back in that step.          *)
THEOREM TransfersEndClean == Spec => TransferEndsClean
<1>1. SInv /\ [Next]_vars =>
        [\A s \in Slots :
           sess[s].mode # "none" /\ sess'[s].mode # sess[s].mode =>
              /\ sess'[s].mode = "none" /\ sess'[s].dc = "none"
              /\ sess'[s].off = 0 /\ sess'[s].size = 0
              /\ sess'[s].temp = "empty"
              /\ \A r \in Roles \ {"control"} : sess'[s].fd[r] <= 0]_vars
  BY NextSInv DEF StepFits, EndsClean, GivenBack
<1>2. QED BY <1>1, SessionInvariance, PTL DEF Spec, TransferEndsClean

(* Between transfers a session holds no file and no directory, where a       *)
(* zeroed handle does not read as open.                                      *)
THEOREM IdleSessionsHoldNoFile ==
    ASSUME ~ZeroFileOpen
    PROVE  Spec => []IdleHoldsNoFile
<1>1. SInv => IdleHoldsNoFile
  BY DEF SInv, SessionsFit, IdleHoldsNoFile, Rests, Settled, Listening, Moving, NoFiles,
         IsFileOpen, World
<1>2. QED BY <1>1, SessionInvariance, PTL

(* A transfer keeps its login, its data connection and its file or path for  *)
(* as long as it lasts.                                                      *)
THEOREM TransfersAreEquipped ==
    ASSUME ~ZeroFileOpen
    PROVE  Spec => []TransferEquipped
<1>1. SInv => TransferEquipped
  BY DEF SInv, SessionsFit, TransferEquipped, Rests, Settled, Listening, Moving, Pending,
         Begun, Prepared, Opened, FileModes
<1>2. QED BY <1>1, SessionInvariance, PTL

(* A data socket is lost only where a transfer command is repeated after a   *)
(* connect() that failed.                                                    *)
THEOREM DataSocketsAreKept ==
    ASSUME ~ZeroFileOpen
    PROVE  Spec => DataSocketLostOnRetry
<1>1. SInv /\ [Next]_vars =>
        [Orphans' \subseteq Orphans \cup
           {f \in Fds : /\ at = "lines"
                        /\ sess[cur].fd["data"] = f
                        /\ sess[cur].dc = "active"
                        /\ sess[cur].mode = "none"}]_vars
  BY NextSInv DEF StepFits, OrphansKept, Retried
<1>2. QED BY <1>1, SessionInvariance, PTL DEF Spec, DataSocketLostOnRetry

(* The control socket of a session is its client's for as long as it is      *)
(* active: what zeroed file handles do to it happens with them alone.        *)
THEOREM ControlSocketsAreTheirOwn ==
    ASSUME ~ZeroFileOpen
    PROVE  Spec => []ControlSocketIsOwn
<1>1. SInv => ControlSocketIsOwn
  <2>1. SUFFICES ASSUME SInv, NEW s \in Active
                 PROVE  fdt[sess[s].fd["control"]] = Owner(s, "control")
    BY DEF ControlSocketIsOwn
  <2>2. s \in Slots /\ sess[s].fd["control"] > 0
    BY <2>1 DEF SInv, ClientsHeld, Active
  <2>3. QED BY <2>1, <2>2 DEF SInv, IInv, DescriptorsOwned, Roles
<1>2. QED BY <1>1, SessionInvariance, PTL

(* Nothing leaks: a descriptor that was opened for a session, but for a data *)
(* socket, is open only while that session holds it.                         *)
THEOREM DescriptorsAreHeld ==
    ASSUME ~ZeroFileOpen
    PROVE  Spec => []DescriptorsHeld
<1>1. SInv => DescriptorsHeld
  <2>1. SUFFICES ASSUME SInv, NEW f \in Fds, fdt[f].role \in Roles \ {"data"}
                 PROVE  sess[fdt[f].slot].fd[fdt[f].role] = f
    BY DEF DescriptorsHeld
  <2>2. fdt[f] \in Uses
    BY <2>1 DEF SInv, IInv, TypeOK
  <2>3. fdt[f] \in [slot : Slots, role : Roles]
    <3>1. fdt[f].role \notin {"free", "std", "server"}
      BY <2>1 DEF Roles
    <3>2. fdt[f] \notin {Free, Std, Listener}
      BY ONLY <3>1 DEF Free, Std, Listener
    <3>3. QED BY ONLY <2>2, <3>2 DEF Uses
  <2>4. fdt[f].slot \in Slots /\ fdt[f] = Owner(fdt[f].slot, fdt[f].role)
    BY <2>3 DEF Owner
  <2>5. QED BY <2>1, <2>4 DEF SInv, TablesTidy, Tidy, World
<1>2. QED BY <1>1, SessionInvariance, PTL
=============================================================================
