------------------------ MODULE ImportUpload_proofs ------------------------
(***************************************************************************)
(* Theorems about ImportUpload, for any number of requests at a time, any  *)
(* sizes of files and parts and any set of ids.                            *)
(***************************************************************************)
EXTENDS ImportUpload, TLAPS

(* Rounding down, by its bounds.                                           *)
LEMMA DivBounds ==
    ASSUME NEW a \in Int, NEW b \in Nat \ {0}
    PROVE  a \div b \in Int /\ b * (a \div b) <= a /\ a < b * (a \div b) + b
BY SMT

(* Multiples keep their order.                                             *)
LEMMA TimesMonotone ==
    ASSUME NEW a \in Int, NEW b \in Int, NEW c \in Nat, a <= b
    PROVE  a * c <= b * c
BY SMT

(* The parts of a file reach its end, and the last one begins before it.   *)
LEMMA ChunksCover ==
    ASSUME NEW n \in Nat
    PROVE  /\ ChunksTotal(n) \in Nat
           /\ ChunksTotal(n) * ChunkSize >= n
           /\ ChunksTotal(n) > 0 => (ChunksTotal(n) - 1) * ChunkSize < n
           /\ ChunksTotal(n) <= n
<1> DEFINE c == ChunkSize
           t == ChunksTotal(n)
<1>1. c \in Nat /\ c >= 1 /\ n + c - 1 \in Int
  BY UploadAssumption
<1>2. t \in Int /\ c * t <= n + c - 1 /\ n + c - 1 < c * t + c
  BY <1>1, DivBounds, UploadAssumption DEF ChunksTotal
<1> HIDE DEF t, c
<1>3. t * c = c * t /\ (t - 1) * c = c * t - c
  BY <1>1, <1>2
<1>4. t * c >= n /\ (t - 1) * c < n
  BY <1>1, <1>2, <1>3
<1>5. t >= 0
  <2>1. ASSUME t <= -1 PROVE FALSE
    <3>1. t * c <= (-1) * c
      BY <1>1, <1>2, <2>1, TimesMonotone
    <3> QED
      BY <1>1, <1>2, <1>4, <3>1
  <2> QED
    BY <1>2, <2>1
<1>6. t <= n
  <2>1. CASE t = 0
    BY <2>1
  <2>2. CASE t > 0
    <3>1. t - 1 <= (t - 1) * c
      <4>1. \A x \in Nat : x <= x * c
        BY <1>1
      <4> QED
        BY <1>2, <2>2, <4>1
    <3> QED
      BY <1>1, <1>2, <1>4, <3>1
  <2> QED
    BY <1>2, <1>5, <2>1, <2>2
<1> QED
  BY <1>2, <1>4, <1>5, <1>6 DEF t, c

(* Every part but the last is full, the last one has what is left.         *)
LEMMA ExpectedBytes ==
    ASSUME NEW n \in Nat, NEW k \in 0..(ChunksTotal(n) - 1)
    PROVE  Expected(n, k) = IF k + 1 < ChunksTotal(n) THEN ChunkSize
                            ELSE n - (ChunksTotal(n) - 1) * ChunkSize
<1> DEFINE c == ChunkSize
           t == ChunksTotal(n)
<1>1. /\ c \in Nat /\ c >= 1
      /\ t \in Nat /\ t > 0 /\ t * c >= n /\ (t - 1) * c < n
  BY ChunksCover, UploadAssumption
<1> HIDE DEF t, c
<1>2. k \in Nat /\ k <= t - 1
  BY <1>1 DEF t
<1>3. CASE k + 1 < t
  <2>1. (k + 1) * c <= (t - 1) * c
    BY <1>1, <1>2, <1>3, TimesMonotone
  <2>2. (k + 1) * c = k * c + c /\ k * c \in Int /\ (t - 1) * c \in Int
    BY <1>1, <1>2
  <2>3. n - k * c >= c
    <3> HIDE DEF c
    <3> QED
      BY <1>1, <2>1, <2>2
  <2> QED
    BY <1>1, <1>3, <2>2, <2>3 DEF Expected, t, c
<1>4. CASE k = t - 1
  <2>1. t * c = k * c + c /\ k * c \in Int
    BY <1>1, <1>2, <1>4
  <2>2. n - k * c <= c
    BY <1>1, <2>1
  <2>3. Expected(n, k) = n - k * c
    BY <1>1, <2>1, <2>2 DEF Expected, c
  <2> QED
    BY <1>1, <1>2, <1>4, <2>3 DEF t, c
<1> QED
  BY <1>1, <1>2, <1>3, <1>4

-----------------------------------------------------------------------------
UInv == TypeOK /\ UploadInv

(* An id that has been drawn is one, and its size a number.                *)
LEMMA DrawnType ==
    ASSUME TypeOK, NEW u \in Drawn
    PROVE  u \in Uploads /\ size[u] \in Sizes /\ size[u] \in Nat
BY UploadAssumption DEF TypeOK, Drawn, Sizes

(* A handler that has begun its work has a request on a drawn id.          *)
LEMMA HasRequest ==
    ASSUME UInv, NEW q \in Slots, pc[q] # "free"
    PROVE  /\ req[q] \in Handled
           /\ pc[q] # "create" => req[q].id \in Drawn /\ req[q].id \in Uploads
           /\ pc[q] = "create" =>
                  /\ req[q] \in [op: {"create"}, bytes: Sizes, id: Uploads \cup {None}]
                  /\ req[q].id \in Drawn \cup {None}
           /\ pc[q] = "meta" =>
                  req[q] \in [op: {"create"}, bytes: Sizes, id: Uploads \cup {None}]
           /\ pc[q] \in {"load", "temp", "write"} =>
                  req[q] \in [op: {"chunk"}, id: Uploads, index: -1..MaxBytes, bytes: Sizes]
<1>1. req[q] \in Handled
  BY DEF UInv, TypeOK, UploadInv, Serves
<1>2. /\ pc[q] \in {"create", "meta"} => req[q].op = "create"
      /\ pc[q] \in {"load", "temp", "write"} => req[q].op = "chunk"
      /\ req[q].id \in Drawn \/ (pc[q] = "create" /\ req[q].id = None)
  BY DEF UInv, UploadInv, Serves
<1>3. /\ req[q].op = "create" => req[q] \in [op: {"create"}, bytes: Sizes, id: Uploads \cup {None}]
      /\ req[q].op = "chunk" =>
             req[q] \in [op: {"chunk"}, id: Uploads, index: -1..MaxBytes, bytes: Sizes]
  BY <1>1 DEF Handled
<1> QED
  BY <1>1, <1>2, <1>3 DEF Drawn

(* What the handlers do to a directory leaves a directory.                 *)
LEMMA SessionType ==
    /\ NewDir \in Session
    /\ \A d \in Session :
          /\ \A b \in BOOLEAN : [d EXCEPT !.stale = b] \in Session
          /\ [d EXCEPT !.meta = TRUE] \in Session
          /\ \A q \in Slots : /\ [d EXCEPT !.temps = @ \cup {q}] \in Session
                             /\ [d EXCEPT !.temps = @ \ {q}] \in Session
          /\ [d EXCEPT !.temps = {None}] \in Session
BY DEF NewDir, NoParts, Session

(* A changed directory is one.                                             *)
LEMMA TouchType ==
    ASSUME TypeOK, NEW u, NEW d \in Session, Touch(u, d)
    PROVE  dir' \in [Uploads -> Session \cup {None}]
BY SessionType DEF TypeOK, Touch

(* A part that is saved is one.                                            *)
LEMMA SavedType ==
    ASSUME UInv, NEW q \in Slots, pc[q] = "write", HasTemp(q)
    PROVE  /\ Renamed(q) \in Session
           /\ Renamed(q).parts =
                  [dir[req[q].id].parts EXCEPT
                      ![req[q].index] = [index |-> req[q].index, bytes |-> req[q].bytes]]
           /\ Renamed(q).meta = dir[req[q].id].meta
           /\ Renamed(q).temps = dir[req[q].id].temps \ {q}
<1>1. dir[req[q].id] \in Session
  BY HasRequest DEF UInv, TypeOK, HasTemp, Exists
<1>2. req[q].index \in Sizes /\ req[q].bytes \in Sizes
  <2>1. req[q].index \in -1..MaxBytes /\ req[q].bytes \in Sizes
    BY HasRequest
  <2>2. req[q].index >= 0
    BY DEF UInv, UploadInv, Serves
  <2> QED
    BY <2>1, <2>2, UploadAssumption DEF Sizes
<1> QED
  BY <1>1, <1>2 DEF Renamed, SavedPart, Session, Part

(* A response frees its slot.                                              *)
LEMMA RespondType ==
    ASSUME TypeOK, NEW q \in Slots, Respond(q)
    PROVE  /\ req' \in [Slots -> Handled \cup {None}]
           /\ pc' \in [Slots -> {"free", "create", "unlink", "rmdir", "meta", "load",
                                 "temp", "write", "open", "parts"}]
           /\ opened' \in [Slots -> Seq(Part)]
BY DEF TypeOK, Respond, Goto

(* The parts are opened one by one, and each is there.                     *)
LEMMA OpenedNext ==
    ASSUME UInv, NEW q \in Slots, OpenPart(q), Usable(q, Len(opened[q]))
    PROVE  /\ Len(opened[q]) \in Sizes /\ Len(opened[q]) < ChunksTotal(size[req[q].id])
           /\ opened' = [opened EXCEPT ![q] =
                  Append(@, PartOf(size[req[q].id], Len(opened[q])))]
           /\ PartOf(size[req[q].id], Len(opened[q])) \in Part
<1> DEFINE u == req[q].id
           k == Len(opened[q])
<1>1. pc[q] = "parts" /\ k # ChunksTotal(size[u])
  BY DEF OpenPart, AllOpened
<1>2. u \in Drawn /\ u \in Uploads /\ size[u] \in Nat /\ size[u] \in Sizes
  BY <1>1, HasRequest, DrawnType DEF UInv
<1>3. k \in Nat /\ k <= ChunksTotal(size[u]) /\ opened[q] \in Seq(Part)
  BY <1>1 DEF UInv, TypeOK, UploadInv, Opening
<1>4. ChunksTotal(size[u]) \in Nat /\ ChunksTotal(size[u]) <= size[u]
  BY <1>2, ChunksCover
<1>5. k < ChunksTotal(size[u]) /\ k \in Sizes
  BY <1>1, <1>2, <1>3, <1>4, UploadAssumption DEF Sizes
<1>6. dir[u].parts[k] # None /\ dir[u] \in Session
  BY <1>2 DEF Usable, Exists, UInv, TypeOK
<1>7. dir[u].parts[k] = PartOf(size[u], k) /\ dir[u].parts[k] \in Part
  BY <1>2, <1>5, <1>6 DEF Usable, UInv, UploadInv, Placed, Session
<1> QED
  BY <1>5, <1>7 DEF OpenPart

-----------------------------------------------------------------------------
(* Every step keeps the types.                                             *)
LEMMA TypeNext == UInv /\ [Next]_vars => TypeOK'
<1> SUFFICES ASSUME UInv, [Next]_vars PROVE TypeOK'
  OBVIOUS
<1>1. TypeOK
  BY DEF UInv
<1>2. ASSUME NEW q \in Slots, NEW r \in Request, Arrive(q, r)
      PROVE  TypeOK'
  <2>1. r \in Handled /\ r.op \in {"create", "chunk", "complete", "delete"}
    BY DEF Request, Handled, Known, Drawn
  <2> QED
    BY <1>1, <1>2, <2>1 DEF Arrive, TypeOK, Goto, FirstStep
<1>3. ASSUME NEW q \in Slots, Unlink(q) \/ Rmdir(q)
      PROVE  TypeOK'
  <2>1. pc[q] # "free"
    BY <1>3 DEF Unlink, Rmdir
  <2>2. req[q].id \in Uploads
    BY <1>3, <2>1, HasRequest DEF Unlink, Rmdir
  <2>3. dir' \in [Uploads -> Session \cup {None}]
    BY <1>1, <1>3, <2>2, SessionType DEF Unlink, Rmdir, TypeOK, Touch, NewDir
  <2> QED
    BY <1>1, <1>3, <2>3, RespondType DEF Unlink, Rmdir, TypeOK, Goto
<1>4. ASSUME NEW q \in Slots, RejectSize(q) \/ CreateFails(q)
      PROVE  TypeOK'
  BY <1>1, <1>4, RespondType DEF RejectSize, CreateFails, TypeOK
<1>5. ASSUME NEW q \in Slots, Sweep(q)
      PROVE  TypeOK'
  <2>1. PICK u \in Stale : req' = [req EXCEPT ![q].id = u]
    BY <1>5 DEF Sweep
  <2>2. [req[q] EXCEPT !.id = u] \in Handled
    BY <1>5, HasRequest DEF Sweep, Handled, Stale
  <2> QED
    BY <1>1, <1>5, <2>1, <2>2 DEF Sweep, TypeOK, Goto
<1>6. ASSUME NEW q \in Slots, MakeDir(q)
      PROVE  TypeOK'
  <2>1. PICK u \in Uploads \ Drawn : /\ dir' = [dir EXCEPT ![u] = NewDir]
                                   /\ size' = [size EXCEPT ![u] = req[q].bytes]
                                   /\ req' = [req EXCEPT ![q].id = u]
    BY <1>6 DEF MakeDir
  <2>2. [req[q] EXCEPT !.id = u] \in Handled /\ req[q].bytes \in Sizes
    BY <1>6, HasRequest DEF MakeDir, Handled
  <2> QED
    BY <1>1, <1>6, <2>1, <2>2, SessionType DEF MakeDir, TypeOK, Goto
<1>7. ASSUME NEW q \in Slots, WriteMeta(q)
      PROVE  TypeOK'
  <2>1. req[q].id \in Uploads /\ dir[req[q].id] = NewDir
    BY <1>7, HasRequest DEF WriteMeta, UInv, UploadInv, NewAlone
  <2>2. dir' \in [Uploads -> Session \cup {None}]
    <3>1. [dir[req[q].id] EXCEPT !.meta = TRUE] \in Session
      BY <2>1, SessionType
    <3>2. CASE Touch(req[q].id, [dir[req[q].id] EXCEPT !.meta = TRUE])
      BY <1>1, <3>1, <3>2, TouchType
    <3>3. CASE dir' = [dir EXCEPT ![req[q].id] = None]
      BY <1>1, <3>3 DEF TypeOK
    <3> QED
      BY <1>7, <3>2, <3>3 DEF WriteMeta
  <2> QED
    BY <1>1, <1>7, <2>2, RespondType DEF WriteMeta, TypeOK
<1>8. ASSUME NEW q \in Slots, LoadForChunk(q) \/ LoadForOpen(q)
      PROVE  TypeOK'
  BY <1>1, <1>8, RespondType DEF LoadForChunk, LoadForOpen, TypeOK, Goto
<1>9. ASSUME NEW q \in Slots, CreateTemp(q)
      PROVE  TypeOK'
  <2>1. dir' \in [Uploads -> Session \cup {None}]
    <3>1. CASE Exists(req[q].id)
      <4>1. dir[req[q].id] \in Session
        BY <1>1, <1>9, <3>1, HasRequest DEF CreateTemp, TypeOK, Exists
      <4>2. [dir[req[q].id] EXCEPT !.temps = @ \cup {q}] \in Session
        BY <4>1, SessionType
      <4> QED
        BY <1>1, <1>9, <3>1, <4>2, TouchType DEF CreateTemp
    <3>2. CASE ~Exists(req[q].id)
      BY <1>1, <1>9, <3>2 DEF CreateTemp, TypeOK
    <3> QED
      BY <3>1, <3>2
  <2> QED
    BY <1>1, <1>9, <2>1, RespondType DEF CreateTemp, TypeOK, Goto
<1>10. ASSUME NEW q \in Slots, SavePart(q) \/ DropPart(q)
       PROVE  TypeOK'
  <2>1. pc[q] = "write"
    BY <1>10 DEF SavePart, DropPart
  <2>2. HasTemp(q) => Renamed(q) \in Session /\ DropTemp(q, dir[req[q].id]) \in Session
    <3>1. HasTemp(q) => dir[req[q].id] \in Session
      BY <1>1, <2>1, HasRequest DEF HasTemp, Exists, TypeOK
    <3> QED
      BY <2>1, <3>1, SavedType, SessionType DEF DropTemp
  <2>3. dir' \in [Uploads -> Session \cup {None}]
    BY <1>1, <1>10, <2>2, SessionType DEF SavePart, DropPart, TypeOK, Touch
  <2> QED
    BY <1>1, <1>10, <2>3, RespondType DEF SavePart, DropPart, TypeOK
<1>11. ASSUME NEW q \in Slots, OpenPart(q)
       PROVE  TypeOK'
  <2>1. CASE Usable(q, Len(opened[q]))
    <3>1. opened' \in [Slots -> Seq(Part)]
      <4> DEFINE p == PartOf(size[req[q].id], Len(opened[q]))
      <4>1. opened' = [opened EXCEPT ![q] = Append(@, p)] /\ p \in Part
        BY <1>11, <2>1, OpenedNext
      <4> HIDE DEF p
      <4> QED
        BY <1>1, <4>1 DEF TypeOK
    <3> QED
      BY <1>1, <1>11, <2>1, <3>1 DEF OpenPart, TypeOK
  <2>2. CASE ~Usable(q, Len(opened[q]))
    BY <1>1, <1>11, <2>2, RespondType DEF OpenPart, TypeOK
  <2> QED
    BY <2>1, <2>2
<1>12. ASSUME NEW q \in Slots, Import(q)
       PROVE  TypeOK'
  <2>1. req[q].id \in Uploads
    BY <1>12, HasRequest DEF Import
  <2> QED
    BY <1>1, <1>12, <2>1 DEF Import, TypeOK, Goto
<1>13. ASSUME NEW u \in Uploads, Age(u)
       PROVE  TypeOK'
  BY <1>1, <1>13, SessionType DEF Age, TypeOK, Exists
<1>14. CASE Restart
  <2>1. dir' \in [Uploads -> Session \cup {None}]
    BY <1>1, <1>14, SessionType DEF Restart, TypeOK, Exists
  <2> QED
    BY <1>1, <1>14, <2>1 DEF Restart, TypeOK
<1>15. CASE UNCHANGED vars
  BY <1>1, <1>15 DEF vars, TypeOK
<1> QED
  BY <1>2, <1>3, <1>4, <1>5, <1>6, <1>7, <1>8, <1>9, <1>10, <1>11, <1>12, <1>13, <1>14, <1>15
  DEF Next, Handle

-----------------------------------------------------------------------------
(* A step of a slot leaves the other slots alone.                          *)
LEMMA OthersStay ==
    ASSUME TypeOK, NEW q \in Slots, Handle(q) \/ \E r \in Request : Arrive(q, r),
           NEW s \in Slots, s # q
    PROVE  pc'[s] = pc[s] /\ req'[s] = req[s] /\ opened'[s] = opened[s]
<1>1. /\ pc' = pc \/ \E l : pc' = [pc EXCEPT ![q] = l]
      /\ req' = req \/ \E r : req' = [req EXCEPT ![q] = r]
      /\ opened' = opened \/ \E o : opened' = [opened EXCEPT ![q] = o]
  <2>1. CASE \E r \in Request : Arrive(q, r)
    BY <2>1 DEF Arrive, Goto
  <2>2. CASE Unlink(q) \/ Rmdir(q) \/ RejectSize(q) \/ WriteMeta(q) \/ CreateFails(q)
             \/ LoadForChunk(q) \/ CreateTemp(q) \/ SavePart(q) \/ DropPart(q)
             \/ LoadForOpen(q) \/ OpenPart(q) \/ Import(q)
    BY <2>2 DEF Unlink, Rmdir, RejectSize, WriteMeta, CreateFails, LoadForChunk, CreateTemp,
       SavePart, DropPart, LoadForOpen, OpenPart, Import, Respond, Goto
  <2>3. CASE Sweep(q)
    BY <2>3 DEF Sweep, Goto
  <2>4. CASE MakeDir(q)
    BY <2>4 DEF MakeDir, Goto
  <2> QED
    BY <2>1, <2>2, <2>3, <2>4 DEF Handle
<1> QED
  BY <1>1 DEF TypeOK

(* An id that is drawn stays drawn, with the size that was announced.      *)
LEMMA SizesStay ==
    ASSUME TypeOK, [Next]_vars, NEW u \in Drawn
    PROVE  u \in Drawn' /\ size'[u] = size[u]
<1>1. \/ size' = size
     \/ \E v \in Uploads \ Drawn : \E n : size' = [size EXCEPT ![v] = n]
  BY DEF Next, Handle, vars, Arrive, Unlink, Rmdir, RejectSize, Sweep, MakeDir, WriteMeta,
     CreateFails, LoadForChunk, CreateTemp, SavePart, DropPart, LoadForOpen, OpenPart, Import,
     Restart, Age
<1> QED
  BY <1>1 DEF TypeOK, Drawn

(* Where a handler may be, by the request it serves.                       *)
ServesAt(l, r) ==
    /\ r \in Handled
    /\ l \in {"create", "meta"} => r.op = "create"
    /\ l \in {"load", "temp", "write"} => r.op = "chunk"
    /\ l \in {"open", "parts"} => r.op = "complete"
    /\ l \in {"unlink", "rmdir"} => r.op # "chunk"
    /\ l \in {"temp", "write"} => r.index >= 0

(* A step of a slot keeps what holds of every slot when it leaves its own  *)
(* free or at work on a drawn id.                                          *)
LEMMA ServesStep ==
    ASSUME UInv, [Next]_vars, NEW q \in Slots, Handle(q) \/ \E r \in Request : Arrive(q, r),
           \/ pc'[q] = "free" /\ req'[q] = None
           \/ /\ pc'[q] # "free" /\ ServesAt(pc'[q], req'[q])
              /\ req'[q].id \in Drawn' \/ (pc'[q] = "create" /\ req'[q].id = None)
    PROVE  Serves'
<1> SUFFICES ASSUME NEW s \in Slots
             PROVE  (/\ pc[s] = "free" <=> req[s] = None
                     /\ pc[s] \in {"create", "meta"} => req[s].op = "create"
                     /\ pc[s] \in {"load", "temp", "write"} => req[s].op = "chunk"
                     /\ pc[s] \in {"open", "parts"} => req[s].op = "complete"
                     /\ pc[s] \in {"unlink", "rmdir"} => req[s].op # "chunk"
                     /\ pc[s] \in {"temp", "write"} => req[s].index >= 0
                     /\ pc[s] # "free" =>
                            req[s].id \in Drawn \/ (pc[s] = "create" /\ req[s].id = None))'
  BY DEF Serves
<1>1. CASE s # q
  BY <1>1, OthersStay, SizesStay DEF UInv, UploadInv, Serves
<1>2. CASE s = q
  BY <1>2, UploadAssumption DEF ServesAt
<1> QED
  BY <1>1, <1>2

(* Every step keeps it.                                                    *)
LEMMA ServesNext == UInv /\ [Next]_vars => Serves'
<1> SUFFICES ASSUME UInv, [Next]_vars PROVE Serves'
  OBVIOUS
<1>1. TypeOK /\ Serves
  BY DEF UInv, UploadInv
<1>2. ASSUME NEW q \in Slots, NEW r \in Request, Arrive(q, r)
      PROVE  Serves'
  <2>1. r \in Handled /\ r.op \in {"create", "chunk", "complete", "delete"}
    BY DEF Request, Handled, Known, Drawn
  <2>2. r.id \in Drawn \/ (r.op = "create" /\ r.id = None)
    BY DEF Request, Known
  <2>3. pc'[q] = FirstStep[r.op] /\ req'[q] = r
    BY <1>1, <1>2 DEF Arrive, Goto, TypeOK
  <2> QED
    BY <1>2, <2>1, <2>2, <2>3, ServesStep, SizesStay, <1>1 DEF FirstStep, ServesAt
<1>3. ASSUME NEW q \in Slots, Handle(q), Respond(q)
      PROVE  Serves'
  BY <1>1, <1>3, ServesStep DEF Respond, Goto, TypeOK
<1>4. ASSUME NEW q \in Slots, Handle(q), UNCHANGED req, NEW l, Goto(q, l), pc[q] # "free",
             l # "free", ServesAt(l, req[q]),
             req[q].id \in Drawn \/ l = "create"
      PROVE  Serves'
  <2>1. pc'[q] = l /\ req'[q] = req[q]
    BY <1>1, <1>4 DEF Goto, TypeOK
  <2>2. req[q].id \in Drawn \/ (l = "create" /\ req[q].id = None)
    BY <1>1, <1>4 DEF Serves
  <2> QED
    BY <1>1, <1>4, <2>1, <2>2, ServesStep, SizesStay
<1>5. ASSUME NEW q \in Slots, Unlink(q) \/ LoadForChunk(q) \/ CreateTemp(q) \/ LoadForOpen(q)
                               \/ Import(q) \/ Rmdir(q)
      PROVE  Serves'
  <2>1. /\ pc[q] \in {"unlink", "rmdir", "load", "temp", "open", "parts"}
        /\ Handle(q)
    BY <1>5 DEF Unlink, LoadForChunk, CreateTemp, LoadForOpen, Import, Rmdir, Handle
  <2>2. req[q].id \in Drawn /\ req[q] \in Handled
    BY <2>1, HasRequest
  <2>3. CASE Unlink(q)
    <3>1. ServesAt("rmdir", req[q])
      BY <1>1, <2>2, <2>3 DEF Unlink, Serves, ServesAt
    <3> QED
      BY <1>4, <2>1, <2>2, <2>3, <3>1 DEF Unlink
  <2>4. CASE LoadForChunk(q)
    <3>1. CASE Respond(q)
      BY <1>3, <2>1, <3>1
    <3>2. CASE ~Respond(q)
      <4>1. req[q].index >= 0 /\ Goto(q, "temp") /\ UNCHANGED req
        BY <2>4, <3>2 DEF LoadForChunk
      <4>2. ServesAt("temp", req[q])
        BY <1>1, <2>2, <2>4, <4>1 DEF LoadForChunk, Serves, ServesAt
      <4> QED
        BY <1>4, <2>1, <2>2, <4>1, <4>2
    <3> QED
      BY <3>1, <3>2
  <2>5. CASE CreateTemp(q)
    <3>1. ServesAt("write", req[q])
      BY <1>1, <2>2, <2>5 DEF CreateTemp, Serves, ServesAt
    <3> QED
      BY <1>3, <1>4, <2>1, <2>2, <2>5, <3>1 DEF CreateTemp
  <2>6. CASE LoadForOpen(q)
    <3>1. ServesAt("parts", req[q])
      BY <1>1, <2>2, <2>6 DEF LoadForOpen, Serves, ServesAt
    <3> QED
      BY <1>3, <1>4, <2>1, <2>2, <2>6, <3>1 DEF LoadForOpen
  <2>7. CASE Import(q)
    <3>1. ServesAt("unlink", req[q])
      BY <1>1, <2>2, <2>7 DEF Import, Serves, ServesAt
    <3> QED
      BY <1>4, <2>1, <2>2, <2>7, <3>1 DEF Import
  <2>8. CASE Rmdir(q)
    <3>1. req[q].op = "create" => ServesAt("create", req[q])
      BY <2>2 DEF ServesAt
    <3> QED
      BY <1>3, <1>4, <2>1, <2>2, <2>8, <3>1 DEF Rmdir
  <2> QED
    BY <1>5, <2>3, <2>4, <2>5, <2>6, <2>7, <2>8
<1>6. ASSUME NEW q \in Slots, OpenPart(q)
      PROVE  Serves'
  <2>1. CASE Respond(q)
    BY <1>3, <1>6, <2>1 DEF Handle
  <2>2. CASE UNCHANGED <<req, pc, size>>
    BY <1>1, <2>2 DEF Serves, Drawn
  <2> QED
    BY <1>6, <2>1, <2>2 DEF OpenPart
<1>7. ASSUME NEW q \in Slots, Sweep(q) \/ MakeDir(q)
      PROVE  Serves'
  <2>1. Handle(q) /\ req[q].op = "create"
    BY <1>1, <1>7 DEF Sweep, MakeDir, Handle, Serves
  <2>2. PICK u \in Uploads : req' = [req EXCEPT ![q].id = u] /\ u \in Drawn'
    <3>1. CASE Sweep(q)
      <4>1. PICK u \in Stale : req' = [req EXCEPT ![q].id = u]
        BY <3>1 DEF Sweep
      <4>2. u \in Uploads /\ u \in Drawn
        BY <4>1 DEF Stale, UInv, UploadInv, Placed
      <4> QED
        BY <1>1, <4>1, <4>2, SizesStay
    <3>2. CASE MakeDir(q)
      <4>1. req[q].bytes # None
        BY <3>2, HasRequest, UploadAssumption DEF MakeDir
      <4> QED
        <5>1. PICK u \in Uploads \ Drawn :
                   /\ size' = [size EXCEPT ![u] = req[q].bytes]
                   /\ req' = [req EXCEPT ![q].id = u]
          BY <3>2 DEF MakeDir
        <5>2. size'[u] # None
          BY <1>1, <4>1, <5>1 DEF TypeOK
        <5> QED
          BY <5>1, <5>2 DEF Drawn
    <3> QED
      BY <1>7, <3>1, <3>2
  <2>3. pc'[q] \in {"unlink", "meta"}
    BY <1>1, <1>7 DEF Sweep, MakeDir, Goto, TypeOK
  <2>4. req'[q].op = "create" /\ req'[q].id = u /\ req'[q] \in Handled
    <3>1. req[q] \in [op: {"create"}, bytes: Sizes, id: Uploads \cup {None}]
      BY <1>7, HasRequest DEF Sweep, MakeDir
    <3> QED
      <4>1. PICK r : r = [req[q] EXCEPT !.id = u]
        OBVIOUS
      <4>2. r \in [op: {"create"}, bytes: Sizes, id: Uploads \cup {None}] /\ r.id = u
        BY <3>1, <4>1
      <4>3. req'[q] = r
        BY <1>1, <2>2, <4>1 DEF TypeOK
      <4> QED
        BY <4>2, <4>3 DEF Handled
  <2> QED
    BY <2>1, <2>2, <2>3, <2>4, ServesStep DEF ServesAt
<1>8. ASSUME NEW q \in Slots, RejectSize(q) \/ CreateFails(q) \/ WriteMeta(q) \/ SavePart(q)
                               \/ DropPart(q)
      PROVE  Serves'
  BY <1>3, <1>8 DEF RejectSize, CreateFails, WriteMeta, SavePart, DropPart, Handle
<1>9. CASE Restart
  BY <1>9 DEF Restart, Serves
<1>10. CASE UNCHANGED vars \/ \E u \in Uploads : Age(u)
  BY <1>1, <1>10 DEF vars, Age, Serves, Drawn
<1> QED
  BY <1>2, <1>5, <1>6, <1>7, <1>8, <1>9, <1>10 DEF Next, Handle

-----------------------------------------------------------------------------
(* A directory after a step is new and empty, or has its parts and its     *)
(* meta.json still, but for the create that writes meta.json and the PUT   *)
(* that puts a part in its place.                                          *)
LEMMA DirStep ==
    ASSUME UInv, [Next]_vars, NEW u \in Uploads, dir'[u] # None
    PROVE  /\ u \in Drawn'
           /\ \/ dir'[u].parts = NoParts /\ dir'[u].meta = FALSE
              \/ Exists(u) /\ dir'[u].parts = dir[u].parts /\ dir'[u].meta = dir[u].meta
              \/ /\ \E q \in Slots : pc[q] = "meta" /\ req[q].id = u
                 /\ dir'[u].parts = NoParts
              \/ /\ Exists(u) /\ dir'[u].meta = dir[u].meta
                 /\ \E k \in Sizes : dir'[u].parts = [dir[u].parts EXCEPT ![k] = PartOf(size[u], k)]
<1> DEFINE Same == Exists(u) /\ dir'[u].parts = dir[u].parts /\ dir'[u].meta = dir[u].meta
           New  == dir'[u].parts = NoParts /\ dir'[u].meta = FALSE
<1>1. TypeOK /\ Serves /\ NewAlone /\ Placed /\ u \in DOMAIN dir /\ DOMAIN dir = Uploads
  BY DEF UInv, UploadInv, TypeOK
<1>2. Exists(u) => dir[u] \in Session /\ u \in Drawn /\ u \in Drawn'
  BY <1>1, SizesStay DEF TypeOK, Exists, Placed
<1>3. CASE dir'[u] = dir[u]
  BY <1>2, <1>3 DEF Exists
<1>4. ASSUME NEW q \in Slots, Unlink(q) \/ Rmdir(q), dir'[u] # dir[u]
      PROVE  Exists(u) /\ (Same \/ New)
  <2>1. CASE Unlink(q)
    BY <1>1, <1>4, <2>1 DEF Unlink, Touch, NewDir, Exists
  <2>2. CASE Rmdir(q)
    BY <1>1, <1>4, <2>2 DEF Rmdir
  <2> QED
    BY <1>4, <2>1, <2>2
<1>5. ASSUME NEW q \in Slots, MakeDir(q), dir'[u] # dir[u]
      PROVE  u \in Drawn' /\ New
  <2>1. req[q].bytes # None
    BY <1>5, HasRequest, UploadAssumption DEF MakeDir
  <2>2. PICK v \in Uploads \ Drawn : /\ dir' = [dir EXCEPT ![v] = NewDir]
                                   /\ size' = [size EXCEPT ![v] = req[q].bytes]
    BY <1>5 DEF MakeDir
  <2>3. v = u
    BY <1>1, <1>5, <2>2
  <2> QED
    BY <1>1, <2>1, <2>2, <2>3 DEF NewDir, Drawn, TypeOK
<1>6. ASSUME NEW q \in Slots, WriteMeta(q), dir'[u] # dir[u]
      PROVE  Exists(u) /\ pc[q] = "meta" /\ req[q].id = u /\ dir'[u].parts = NoParts
  <2>1. pc[q] = "meta" /\ dir[req[q].id] = NewDir
    BY <1>1, <1>6 DEF WriteMeta, NewAlone
  <2>2. req[q].id = u
    BY <1>1, <1>6 DEF WriteMeta, Touch
  <2>3. dir' = [dir EXCEPT ![u] = [[NewDir EXCEPT !.meta = TRUE] EXCEPT !.stale = FALSE]]
    BY <1>6, <2>1, <2>2 DEF WriteMeta, Touch
  <2>4. dir'[u].parts = NoParts
    BY <1>1, <2>3 DEF NewDir
  <2>5. NewDir # None
    BY SessionType, UploadAssumption
  <2> QED
    BY <2>1, <2>2, <2>4, <2>5 DEF Exists
<1>7. ASSUME NEW q \in Slots, CreateTemp(q) \/ DropPart(q), dir'[u] # dir[u]
      PROVE  Same
  <2>1. CASE CreateTemp(q)
    <3>1. req[q].id = u /\ Exists(u)
      BY <1>1, <1>7, <2>1 DEF CreateTemp, Touch
    <3>2. dir'[u] = [[dir[u] EXCEPT !.temps = @ \cup {q}] EXCEPT !.stale = FALSE]
      BY <1>1, <2>1, <3>1 DEF CreateTemp, Touch
    <3> QED
      BY <1>2, <3>1, <3>2 DEF Session
  <2>2. CASE DropPart(q)
    <3>1. req[q].id = u /\ HasTemp(q)
      BY <1>1, <1>7, <2>2 DEF DropPart, Touch
    <3>2. dir'[u] = [[dir[u] EXCEPT !.temps = @ \ {q}] EXCEPT !.stale = FALSE]
      BY <1>1, <2>2, <3>1 DEF DropPart, DropTemp, Touch
    <3> QED
      BY <1>2, <3>1, <3>2 DEF Session, HasTemp
  <2> QED
    BY <1>7, <2>1, <2>2
<1>8. ASSUME NEW q \in Slots, SavePart(q), dir'[u] # dir[u]
      PROVE  /\ Exists(u) /\ dir'[u].meta = dir[u].meta
             /\ \E k \in Sizes : dir'[u].parts = [dir[u].parts EXCEPT ![k] = PartOf(size[u], k)]
  <2>1. pc[q] = "write" /\ RightBytes(q)
    BY <1>8 DEF SavePart
  <2>2. req[q].id = u /\ HasTemp(q)
    BY <1>1, <1>8 DEF SavePart, Touch
  <2>3. dir'[u] = [Renamed(q) EXCEPT !.stale = FALSE]
    BY <1>1, <1>8, <2>2 DEF SavePart, Touch
  <2>4. Renamed(q) \in Session /\ dir'[u].parts = Renamed(q).parts /\ dir'[u].meta = Renamed(q).meta
    <3>1. Renamed(q) \in Session
      BY <2>1, <2>2, SavedType
    <3> HIDE DEF Renamed
    <3> QED
      BY <2>3, <3>1 DEF Session
  <2>5. /\ dir'[u].parts = [dir[u].parts EXCEPT ![req[q].index] = PartOf(size[u], req[q].index)]
        /\ dir'[u].meta = dir[u].meta
    BY <2>1, <2>2, <2>4, SavedType DEF RightBytes, PartOf
  <2>6. req[q].index \in Sizes
    <3>1. req[q].index \in -1..MaxBytes /\ req[q].index >= 0
      BY <1>1, <2>1, HasRequest DEF Serves
    <3> QED
      BY <3>1, UploadAssumption DEF Sizes
  <2> QED
    BY <2>2, <2>5, <2>6 DEF HasTemp
<1>9. ASSUME NEW v \in Uploads, Age(v), dir'[u] # dir[u]
      PROVE  Same
  BY <1>1, <1>2, <1>9 DEF Age, Session
<1>10. ASSUME Restart, dir'[u] # dir[u]
       PROVE  Same
  BY <1>1, <1>2, <1>10 DEF Restart, Session
<1>11. ASSUME NEW q \in Slots, RejectSize(q) \/ Sweep(q) \/ CreateFails(q) \/ LoadForChunk(q)
                                \/ LoadForOpen(q) \/ OpenPart(q) \/ Import(q)
       PROVE  dir'[u] = dir[u]
  BY <1>11 DEF RejectSize, Sweep, CreateFails, LoadForChunk, LoadForOpen, OpenPart, Import
<1>12. ASSUME (\E q \in Slots, r \in Request : Arrive(q, r)) \/ UNCHANGED vars
       PROVE  dir'[u] = dir[u]
  BY <1>12 DEF Arrive, vars
<1> HIDE DEF Same, New
<1>13. CASE Exists(u) /\ (Same \/ New)
  BY <1>2, <1>13 DEF Same, New
<1> QED
  BY <1>2, <1>3, <1>4, <1>5, <1>6, <1>7, <1>8, <1>9, <1>10, <1>11, <1>12, <1>13
  DEF Next, Handle, Same, New

-----------------------------------------------------------------------------
(* Every step keeps the parts in their places.                             *)
LEMMA PlacedNext == UInv /\ [Next]_vars => Placed'
<1> SUFFICES ASSUME UInv, [Next]_vars, NEW u \in Uploads, dir'[u] # None
             PROVE  /\ u \in Drawn'
                    /\ \A k \in Sizes : dir'[u].parts[k] # None =>
                           dir'[u].parts[k] = PartOf(size'[u], k)
  BY DEF Placed, Exists, PartOf, Expected
<1>1. TypeOK /\ Placed /\ NewAlone
  BY DEF UInv, UploadInv
<1>2. u \in Drawn'
  BY DirStep
<1>3. Exists(u) => size'[u] = size[u] /\ dir[u] \in Session
  BY <1>1, SizesStay DEF Placed, TypeOK, Exists
<1>4. CASE dir'[u].parts = NoParts
  BY <1>2, <1>4 DEF NoParts
<1>5. CASE Exists(u) /\ dir'[u].parts = dir[u].parts
  BY <1>1, <1>2, <1>3, <1>5 DEF Placed
<1>6. ASSUME Exists(u), NEW j \in Sizes,
             dir'[u].parts = [dir[u].parts EXCEPT ![j] = PartOf(size[u], j)]
      PROVE  \A k \in Sizes : dir'[u].parts[k] # None => dir'[u].parts[k] = PartOf(size'[u], k)
  <2> HIDE DEF PartOf
  <2> QED
    BY <1>1, <1>3, <1>6 DEF Placed, Session
<1> QED
  BY <1>2, <1>4, <1>5, <1>6, DirStep

(* Every step keeps the opened parts in order.                             *)
LEMMA OpeningNext == UInv /\ [Next]_vars => Opening'
<1> SUFFICES ASSUME UInv, [Next]_vars PROVE Opening'
  OBVIOUS
<1>1. TypeOK /\ Opening /\ Serves
  BY DEF UInv, UploadInv
<1> DEFINE Good(s) ==
               IF pc[s] = "parts"
               THEN /\ Len(opened[s]) <= ChunksTotal(size[req[s].id])
                    /\ \A k \in 1..Len(opened[s]) : opened[s][k] = PartOf(size[req[s].id], k - 1)
               ELSE opened[s] = <<>>
<1>2. ASSUME NEW s \in Slots, UNCHANGED <<pc[s], req[s], opened[s]>>
      PROVE  Good(s)'
  <2>1. Good(s)
    BY <1>1 DEF Opening
  <2>2. pc[s] = "parts" => size'[req[s].id] = size[req[s].id]
    BY <1>1, HasRequest, SizesStay
  <2> QED
    BY <1>2, <2>1, <2>2 DEF ChunksTotal, PartOf, Expected
<1>3. ASSUME NEW q \in Slots, Handle(q) \/ \E r \in Request : Arrive(q, r), Good(q)'
      PROVE  Opening'
  <2>1. \A s \in Slots : s # q => UNCHANGED <<pc[s], req[s], opened[s]>>
    BY <1>1, <1>3, OthersStay
  <2> HIDE DEF Good
  <2>2. \A s \in Slots : Good(s)'
    BY <1>2, <1>3, <2>1
  <2> QED
    BY <2>2 DEF Opening, Good
<1>4. ASSUME NEW q \in Slots, pc'[q] # "parts", opened'[q] = <<>>
      PROVE  Good(q)'
  BY <1>4
<1>5. ASSUME NEW q \in Slots, Respond(q)
      PROVE  pc'[q] # "parts" /\ opened'[q] = <<>>
  BY <1>1, <1>5 DEF Respond, Goto, TypeOK
<1>6. ASSUME NEW q \in Slots, Handle(q), ~LoadForOpen(q), ~OpenPart(q), ~Respond(q)
      PROVE  pc'[q] # "parts" /\ opened'[q] = <<>>
  <2>1. opened'[q] = <<>> \/ (opened' = opened /\ pc[q] # "parts")
    BY <1>1, <1>6 DEF Handle, TypeOK, Unlink, Rmdir, RejectSize, Sweep, MakeDir, WriteMeta,
       CreateFails, LoadForChunk, CreateTemp, SavePart, DropPart, Import
  <2>2. \E l \in {"rmdir", "create", "unlink", "meta", "temp", "write"} : Goto(q, l)
    BY <1>6 DEF Handle, Unlink, Rmdir, RejectSize, Sweep, MakeDir, WriteMeta,
       CreateFails, LoadForChunk, CreateTemp, SavePart, DropPart, Import
  <2> QED
    BY <1>1, <2>1, <2>2 DEF Opening, Goto, TypeOK
<1>7. ASSUME NEW q \in Slots, LoadForOpen(q), ~Respond(q)
      PROVE  Good(q)'
  <2>1. pc[q] = "open" /\ UNCHANGED <<req, opened, size>> /\ opened[q] = <<>>
    BY <1>1, <1>7 DEF LoadForOpen, Opening
  <2>2. ChunksTotal(size[req[q].id]) \in Nat
    BY <1>1, <2>1, HasRequest, DrawnType, ChunksCover
  <2>3. Len(opened'[q]) <= ChunksTotal(size'[req'[q].id])
    BY <2>1, <2>2
  <2> QED
    BY <2>1, <2>3
<1>8. ASSUME NEW q \in Slots, OpenPart(q), ~Respond(q)
      PROVE  Good(q)'
  <2> DEFINE n == size[req[q].id]
             p == PartOf(n, Len(opened[q]))
  <2>1. /\ pc[q] = "parts" /\ UNCHANGED <<req, pc, size>>
        /\ Usable(q, Len(opened[q]))
    BY <1>8 DEF OpenPart
  <2>2. Len(opened[q]) < ChunksTotal(n) /\ opened' = [opened EXCEPT ![q] = Append(@, p)]
    BY <1>8, <2>1, OpenedNext
  <2>3. ChunksTotal(n) \in Nat
    BY <1>1, <2>1, HasRequest, DrawnType, ChunksCover
  <2>4. opened[q] \in Seq(Part) /\ opened'[q] = Append(opened[q], p)
    BY <1>1, <2>2 DEF TypeOK
  <2>5. Len(opened'[q]) = Len(opened[q]) + 1 /\ Len(opened[q]) \in Nat
    BY <2>4
  <2>6. \A k \in 1..Len(opened'[q]) : opened'[q][k] = PartOf(n, k - 1)
    <3> SUFFICES ASSUME NEW k \in 1..Len(opened'[q]) PROVE opened'[q][k] = PartOf(n, k - 1)
      OBVIOUS
    <3>1. CASE k = Len(opened[q]) + 1
      <4>1. opened'[q][k] = p
        BY <2>4, <3>1
      <4>2. k - 1 = Len(opened[q])
        BY <2>5, <3>1
      <4> QED
        BY <4>1, <4>2
    <3>2. CASE k \in 1..Len(opened[q])
      BY <1>1, <2>1, <2>4, <3>2 DEF Opening
    <3> QED
      BY <2>5, <3>1, <3>2
  <2> HIDE DEF p
  <2> QED
    BY <2>1, <2>2, <2>3, <2>5, <2>6 DEF ChunksTotal, PartOf, Expected
<1> HIDE DEF Good
<1>9. ASSUME NEW q \in Slots, Handle(q)
      PROVE  Opening'
  BY <1>3, <1>4, <1>5, <1>6, <1>7, <1>8, <1>9
<1>10. ASSUME NEW q \in Slots, NEW r \in Request, Arrive(q, r)
       PROVE  Opening'
  <2>1. r.op \in {"create", "chunk", "complete", "delete"}
    BY DEF Request
  <2>2. pc'[q] # "parts" /\ opened'[q] = <<>>
    BY <1>1, <1>10, <2>1 DEF Arrive, Goto, FirstStep, TypeOK, Opening
  <2> QED
    BY <1>3, <1>4, <1>10, <2>2
<1>11. CASE Restart
  BY <1>11 DEF Restart, Opening
<1>12. CASE UNCHANGED vars \/ \E u \in Uploads : Age(u)
  BY <1>1, <1>12 DEF vars, Age, Opening
<1> QED
  BY <1>9, <1>10, <1>11, <1>12 DEF Next

-----------------------------------------------------------------------------
(* A handler changes the directory of its request alone; one that serves   *)
(* no create changes only directories that exist.                          *)
LEMMA OwnDirectory ==
    ASSUME UInv, NEW q \in Slots, Handle(q), NEW u \in Uploads, dir'[u] # dir[u]
    PROVE  \/ req[q].id = u /\ pc[q] # "free"
           \/ MakeDir(q) /\ u \notin Drawn /\ req'[q].id = u
<1>1. TypeOK
  BY DEF UInv
<1>2. CASE MakeDir(q)
  <2>1. PICK v \in Uploads \ Drawn : /\ dir' = [dir EXCEPT ![v] = NewDir]
                                   /\ req' = [req EXCEPT ![q].id = v]
    BY <1>2 DEF MakeDir
  <2>2. req[q] \in Handled
    BY <1>2, HasRequest DEF MakeDir
  <2>3. req'[q].id = v
    BY <1>1, <2>1, <2>2 DEF TypeOK, Handled
  <2>4. v = u
    BY <1>1, <2>1 DEF TypeOK
  <2> QED
    BY <1>2, <2>3, <2>4
<1>3. CASE ~MakeDir(q)
  <2>1. pc[q] # "free"
    BY <1>3 DEF Handle, Unlink, Rmdir, RejectSize, Sweep, WriteMeta, CreateFails,
       LoadForChunk, CreateTemp, SavePart, DropPart, LoadForOpen, OpenPart, Import
  <2>2. dir' = dir \/ \E d : dir' = [dir EXCEPT ![req[q].id] = d]
    BY <1>3 DEF Handle, Unlink, Rmdir, RejectSize, Sweep, WriteMeta, CreateFails,
       LoadForChunk, CreateTemp, SavePart, DropPart, LoadForOpen, OpenPart, Import, Touch
  <2> QED
    BY <1>1, <2>1, <2>2 DEF TypeOK
<1> QED
  BY <1>2, <1>3

(* Until a create has ended no other request touches its directory.        *)
LEMMA NewAloneNext == UInv /\ [Next]_vars => NewAlone'
<1> SUFFICES ASSUME UInv, [Next]_vars, NEW s \in Slots, pc'[s] = "meta"
             PROVE  /\ dir'[req'[s].id] = NewDir
                    /\ \A t \in Slots : t # s /\ pc'[t] # "free" => req'[t].id # req'[s].id
  BY DEF NewAlone
<1>1. TypeOK /\ Serves /\ NewAlone /\ Placed
  BY DEF UInv, UploadInv
<1> DEFINE v == req[s].id
<1>2. pc[s] = "meta" => v \in Drawn /\ v \in Uploads
  BY HasRequest
<1>3. ASSUME NEW q \in Slots, Handle(q), q # s
      PROVE  /\ dir'[req'[s].id] = NewDir
             /\ \A t \in Slots : t # s /\ pc'[t] # "free" => req'[t].id # req'[s].id
  <2>1. pc[s] = "meta" /\ req'[s] = req[s]
    BY <1>1, <1>3, OthersStay
  <2>2. dir'[v] = dir[v]
    BY <1>1, <1>2, <1>3, <2>1, OwnDirectory DEF NewAlone
  <2>3. req'[q] = None \/ req'[q] = req[q] \/ \E u : req' = [req EXCEPT ![q].id = u] /\ u # v
    <3>1. CASE Sweep(q)
      <4>1. PICK u \in Stale : req' = [req EXCEPT ![q].id = u]
        BY <3>1 DEF Sweep
      <4>2. u # v
        BY <1>1, <2>1, <4>1 DEF Stale, NewAlone, NewDir
      <4> QED
        BY <4>1, <4>2
    <3>2. CASE MakeDir(q)
      BY <1>2, <2>1, <3>2 DEF MakeDir
    <3>3. CASE ~Sweep(q) /\ ~MakeDir(q)
      BY <1>1, <1>3, <3>3 DEF Handle, Unlink, Rmdir, RejectSize, WriteMeta, CreateFails,
         LoadForChunk, CreateTemp, SavePart, DropPart, LoadForOpen, OpenPart, Import, Respond,
         Goto, TypeOK
    <3> QED
      BY <3>1, <3>2, <3>3
  <2>4. pc'[q] # "free" => pc[q] # "free" /\ req'[q] # None
    BY <1>1, <1>3, ServesNext DEF Handle, Unlink, Rmdir, RejectSize, Sweep, MakeDir, WriteMeta,
       CreateFails, LoadForChunk, CreateTemp, SavePart, DropPart, LoadForOpen, OpenPart, Import,
       Serves
  <2>5. pc'[q] # "free" => req'[q].id # v
    <3>1. CASE req'[q] = req[q]
      BY <1>1, <1>3, <2>1, <2>4, <3>1 DEF NewAlone
    <3>2. ASSUME NEW u, req' = [req EXCEPT ![q].id = u], u # v, pc'[q] # "free"
          PROVE  req'[q].id # v
      <4>1. req[q] \in Handled
        BY <2>4, <3>2, HasRequest
      <4>2. req'[q].id = u
        BY <1>1, <3>2, <4>1 DEF TypeOK, Handled
      <4> QED
        BY <3>2, <4>2
    <3> QED
      BY <2>3, <2>4, <3>1, <3>2
  <2>6. \A t \in Slots : t # q => pc'[t] = pc[t] /\ req'[t] = req[t]
    BY <1>1, <1>3, OthersStay
  <2> QED
    BY <1>1, <2>1, <2>2, <2>5, <2>6 DEF NewAlone
<1>4. ASSUME Handle(s)
      PROVE  /\ dir'[req'[s].id] = NewDir
             /\ \A t \in Slots : t # s /\ pc'[t] # "free" => req'[t].id # req'[s].id
  <2>1. MakeDir(s)
    BY <1>1, <1>4 DEF Handle, Unlink, Rmdir, RejectSize, Sweep, WriteMeta, CreateFails,
       LoadForChunk, CreateTemp, SavePart, DropPart, LoadForOpen, OpenPart, Import, Respond,
       Goto, TypeOK
  <2>2. PICK u \in Uploads \ Drawn : /\ dir' = [dir EXCEPT ![u] = NewDir]
                                   /\ req' = [req EXCEPT ![s].id = u]
    BY <2>1 DEF MakeDir
  <2>3. req[s] \in Handled
    BY <2>1, HasRequest DEF MakeDir
  <2>4. req'[s].id = u /\ dir'[u] = NewDir
    BY <1>1, <2>2, <2>3 DEF TypeOK, Handled
  <2>5. \A t \in Slots : t # s => pc'[t] = pc[t] /\ req'[t] = req[t]
    BY <1>1, <1>4, OthersStay
  <2>6. \A t \in Slots : pc[t] # "free" => req[t].id # u
    BY <1>1, <2>2, UploadAssumption DEF Serves
  <2> QED
    BY <2>4, <2>5, <2>6
<1>5. ASSUME NEW q \in Slots, NEW r \in Request, Arrive(q, r)
      PROVE  /\ dir'[req'[s].id] = NewDir
             /\ \A t \in Slots : t # s /\ pc'[t] # "free" => req'[t].id # req'[s].id
  <2>1. r.op \in {"create", "chunk", "complete", "delete"}
    BY DEF Request
  <2>2. q # s /\ pc[s] = "meta" /\ req'[q] = r /\ req'[s] = req[s]
    BY <1>1, <1>5, <2>1 DEF Arrive, Goto, FirstStep, TypeOK
  <2>3. r.id # v
    <3>1. r.id = None \/ r.id \in Known
      BY DEF Request
    <3> QED
      BY <1>2, <2>2, <3>1, UploadAssumption DEF Known
  <2>4. \A t \in Slots : t # q => pc'[t] = pc[t] /\ req'[t] = req[t]
    BY <1>1, <1>5 DEF Arrive, Goto, TypeOK
  <2> QED
    BY <1>1, <1>5, <2>2, <2>3, <2>4 DEF Arrive, NewAlone
<1>6. ASSUME NEW u \in Uploads, Age(u)
      PROVE  /\ dir'[req'[s].id] = NewDir
             /\ \A t \in Slots : t # s /\ pc'[t] # "free" => req'[t].id # req'[s].id
  BY <1>1, <1>2, <1>6 DEF Age, NewAlone, TypeOK
<1>7. CASE UNCHANGED vars
  BY <1>1, <1>7 DEF vars, NewAlone
<1>8. CASE Restart
  BY <1>8 DEF Restart
<1> QED
  BY <1>3, <1>4, <1>5, <1>6, <1>7, <1>8 DEF Next

-----------------------------------------------------------------------------
(* At first there is nothing.                                              *)
LEMMA UInvInit == Init => UInv
<1> SUFFICES ASSUME Init PROVE UInv
  OBVIOUS
<1>1. TypeOK
  BY DEF Init, TypeOK
<1>2. UploadInv
  BY DEF Init, UploadInv, Serves, NewAlone, Placed, Opening, Exists
<1> QED
  BY <1>1, <1>2 DEF UInv

(* Only a complete that has opened every part adds to what is imported.    *)
LEMMA OnlyImportAdds ==
    ASSUME [Next]_vars, NEW file \in imported', file \notin imported
    PROVE  \E q \in Slots : /\ pc[q] = "parts" /\ AllOpened(q)
                           /\ file = [id |-> req[q].id, parts |-> opened[q]]
BY DEF Next, Handle, vars, Arrive, Unlink, Rmdir, RejectSize, Sweep, MakeDir, WriteMeta,
   CreateFails, LoadForChunk, CreateTemp, SavePart, DropPart, LoadForOpen, OpenPart, Import,
   Restart, Age

(* Every step keeps the invariant.                                         *)
LEMMA UInvNext == UInv /\ [Next]_vars => UInv'
<1> SUFFICES ASSUME UInv, [Next]_vars PROVE UInv'
  OBVIOUS
<1>1. \A file \in imported' : file.id \in Drawn'
  <2> SUFFICES ASSUME NEW file \in imported' PROVE file.id \in Drawn'
    OBVIOUS
  <2>1. file.id \in Drawn
    <3>1. CASE file \in imported
      BY <3>1 DEF UInv, UploadInv
    <3>2. CASE file \notin imported
      BY <3>2, OnlyImportAdds, HasRequest
    <3> QED
      BY <3>1, <3>2
  <2> QED
    BY <2>1, SizesStay DEF UInv
<1>2. TypeOK'
  BY TypeNext
<1>3. Serves' /\ NewAlone' /\ Placed' /\ Opening'
  BY ServesNext, NewAloneNext, PlacedNext, OpeningNext
<1> QED
  BY <1>1, <1>2, <1>3 DEF UInv, UploadInv

(* The sessions, the requests and the parts have their types.              *)
THEOREM TypeCorrect == Spec => []TypeOK
<1>1. UInv => TypeOK
  BY DEF UInv
<1> QED
  BY <1>1, UInvInit, UInvNext, PTL DEF Spec

(* Whatever other requests do to the directory while a complete opens the  *)
(* parts, what it imports is the whole file that was announced.            *)
THEOREM WholeFile == Spec => []ImportsWholeFile
<1> DEFINE Whole(file) ==
               LET n == size[file.id]
               IN  /\ Len(file.parts) * ChunkSize >= n
                   /\ (Len(file.parts) - 1) * ChunkSize < n
                   /\ \A k \in DOMAIN file.parts :
                         /\ file.parts[k].index = k - 1
                         /\ file.parts[k].bytes =
                                IF k < Len(file.parts) THEN ChunkSize
                                ELSE n - (Len(file.parts) - 1) * ChunkSize
<1>1. Init => ImportsWholeFile
  BY DEF Init, ImportsWholeFile
<1>2. UInv /\ ImportsWholeFile /\ [Next]_vars => ImportsWholeFile'
  <2> SUFFICES ASSUME UInv, ImportsWholeFile, [Next]_vars, NEW file \in imported'
               PROVE  Whole(file)'
    BY DEF ImportsWholeFile
  <2>1. CASE file \in imported
    <3>1. file.id \in Drawn /\ Whole(file)
      BY <2>1 DEF UInv, UploadInv, ImportsWholeFile
    <3>2. size'[file.id] = size[file.id]
      BY <3>1, SizesStay DEF UInv
    <3> QED
      BY <3>1, <3>2
  <2>2. CASE file \notin imported
    <3>1. PICK q \in Slots : /\ pc[q] = "parts" /\ AllOpened(q)
                           /\ file = [id |-> req[q].id, parts |-> opened[q]]
      BY <2>2, OnlyImportAdds
    <3> DEFINE n == size[file.id]
               c == Len(file.parts)
    <3>2. /\ file.id = req[q].id /\ file.parts = opened[q]
          /\ file.id \in Drawn /\ n \in Nat /\ size'[file.id] = n
      BY <3>1, HasRequest, DrawnType, SizesStay DEF UInv
    <3>3. /\ c = ChunksTotal(n) /\ DOMAIN file.parts = 1..c
          /\ \A k \in 1..c : file.parts[k] = PartOf(n, k - 1)
      BY <3>1, <3>2 DEF AllOpened, UInv, UploadInv, Opening, TypeOK
    <3> HIDE DEF n, c
    <3>4. /\ c \in Nat /\ c * ChunkSize >= n
          /\ c > 0 => (c - 1) * ChunkSize < n
      BY <3>2, <3>3, ChunksCover
    <3>5. (c - 1) * ChunkSize < n
      <4>1. ChunkSize \in Nat /\ ChunkSize > 0
        BY UploadAssumption
      <4>2. c = 0 => (c - 1) * ChunkSize = -ChunkSize
        BY <4>1
      <4> QED
        BY <3>2, <3>4, <4>1, <4>2
    <3>6. ASSUME NEW k \in 1..c
          PROVE  /\ file.parts[k].index = k - 1
                 /\ file.parts[k].bytes = IF k < c THEN ChunkSize ELSE n - (c - 1) * ChunkSize
      <4>1. k - 1 \in 0..(c - 1) /\ (k - 1) + 1 = k
        BY <3>4
      <4>2. Expected(n, k - 1) = IF k < c THEN ChunkSize ELSE n - (c - 1) * ChunkSize
        BY <3>2, <3>3, <4>1, ExpectedBytes
      <4>3. file.parts[k].index = k - 1 /\ file.parts[k].bytes = Expected(n, k - 1)
        <5>1. file.parts[k] = PartOf(n, k - 1)
          BY <3>3
        <5> QED
          BY <5>1 DEF PartOf
      <4> QED
        BY <4>2, <4>3
    <3> QED
      BY <3>2, <3>3, <3>4, <3>5, <3>6 DEF n, c
  <2> QED
    BY <2>1, <2>2
<1> QED
  BY <1>1, <1>2, UInvInit, UInvNext, PTL DEF Spec

(* A session that has been removed does not come back, whatever a late PUT *)
(* or the sweep of a create leaves of its directory.                       *)
THEOREM NoReturn == Spec => RemovedForGood
<1>1. UInv /\ [Next]_vars =>
        \A u \in Known : ~HasMeta(u) => ~(dir'[u] # None /\ dir'[u].meta)
  <2> SUFFICES ASSUME UInv, [Next]_vars, NEW u \in Known, ~HasMeta(u), dir'[u] # None
               PROVE  ~dir'[u].meta
    OBVIOUS
  <2>1. u \in Uploads /\ \A q \in Slots : ~(pc[q] = "meta" /\ req[q].id = u)
    BY DEF Known, Drawn
  <2>2. dir'[u].meta = FALSE \/ (Exists(u) /\ dir'[u].meta = dir[u].meta)
    BY <2>1, DirStep
  <2> QED
    BY <2>2 DEF HasMeta, Exists
<1> QED
  BY <1>1, UInvInit, UInvNext, PTL DEF Spec, RemovedForGood

-----------------------------------------------------------------------------
(* A temporary part was there before and is not that of a request that has *)
(* been answered, or the request that creates it writes it now.            *)
LEMMA TempStep ==
    ASSUME UInv, TempsOwned, [Next]_vars, NEW u \in Uploads, dir'[u] # None,
           NEW q \in dir'[u].temps, q # None
    PROVE  /\ q \in Slots /\ ~Restart
           /\ \/ Exists(u) /\ q \in dir[u].temps /\ UNCHANGED <<pc[q], req[q]>>
              \/ CreateTemp(q) /\ req[q].id = u
<1>1. TypeOK /\ TypeOK' /\ NewAlone
  BY TypeNext DEF UInv, UploadInv
<1>2. Exists(u) => dir[u] \in Session
  BY <1>1 DEF TypeOK, Exists
<1>3. q \in Slots
  <2>1. dir'[u] \in Session
    BY <1>1 DEF TypeOK
  <2> QED
    BY <2>1 DEF Session
<1>4. ~Restart
  <2> SUFFICES ASSUME Restart PROVE FALSE
    OBVIOUS
  <2>1. dir'[u] = IF Exists(u) /\ dir[u].temps # {} THEN [dir[u] EXCEPT !.temps = {None}] ELSE dir[u]
    BY DEF Restart
  <2>2. dir[u] \in Session
    BY <1>2, <2>1 DEF Exists
  <2>3. dir'[u].temps \subseteq {None}
    BY <2>1, <2>2 DEF Session, Exists
  <2> QED
    BY <2>3
<1>5. ASSUME NEW s \in Slots, Handle(s)
      PROVE  \/ Exists(u) /\ q \in dir[u].temps /\ ~(s = q /\ (SavePart(q) \/ DropPart(q)))
             \/ CreateTemp(q) /\ req[q].id = u
  <2>1. CASE Unlink(s) \/ Rmdir(s) \/ MakeDir(s)
    <3>1. ~SavePart(s) /\ ~DropPart(s)
      BY <2>1 DEF Unlink, Rmdir, MakeDir, SavePart, DropPart
    <3>2. dir'[u] = dir[u] \/ dir'[u].temps = {}
      <4>1. CASE Unlink(s)
        <5>1. dir' = dir \/ dir' = [dir EXCEPT ![req[s].id] = [NewDir EXCEPT !.stale = FALSE]]
          BY <4>1 DEF Unlink, Touch
        <5> QED
          BY <1>1, <5>1 DEF NewDir, TypeOK
      <4>2. CASE Rmdir(s)
        BY <1>1, <4>2 DEF Rmdir, TypeOK
      <4>3. CASE MakeDir(s)
        BY <1>1, <4>3 DEF MakeDir, NewDir, TypeOK
      <4> QED
        BY <2>1, <4>1, <4>2, <4>3
    <3> QED
      BY <3>1, <3>2 DEF Exists
  <2>2. CASE WriteMeta(s)
    <3>1. ~SavePart(s) /\ ~DropPart(s) /\ dir[req[s].id] = NewDir
      BY <1>1, <2>2 DEF WriteMeta, SavePart, DropPart, NewAlone
    <3>2. dir'[u] = dir[u] \/ dir'[u].temps = {}
      <4>1. CASE dir' = [dir EXCEPT ![req[s].id] =
                          [[NewDir EXCEPT !.meta = TRUE] EXCEPT !.stale = FALSE]]
        BY <1>1, <4>1 DEF NewDir, TypeOK
      <4>2. CASE dir' = [dir EXCEPT ![req[s].id] = None]
        BY <1>1, <4>2 DEF TypeOK
      <4> QED
        BY <2>2, <3>1, <4>1, <4>2 DEF WriteMeta, Touch
    <3> QED
      BY <3>1, <3>2 DEF Exists
  <2>3. CASE CreateTemp(s)
    <3>1. ~SavePart(s) /\ ~DropPart(s)
      BY <2>3 DEF CreateTemp, SavePart, DropPart
    <3>2. CASE dir'[u] = dir[u]
      BY <3>1, <3>2 DEF Exists
    <3>3. CASE dir'[u] # dir[u]
      <4>1. req[s].id = u /\ Exists(u)
        BY <1>1, <2>3, <3>3 DEF CreateTemp, Touch, TypeOK
      <4>2. dir'[u] = [[dir[u] EXCEPT !.temps = @ \cup {s}] EXCEPT !.stale = FALSE]
        BY <1>1, <2>3, <4>1 DEF CreateTemp, Touch, TypeOK
      <4>3. dir'[u].temps = dir[u].temps \cup {s}
        BY <1>2, <4>1, <4>2 DEF Session
      <4> QED
        BY <2>3, <3>1, <4>1, <4>3
    <3> QED
      BY <3>2, <3>3
  <2>4. CASE SavePart(s) \/ DropPart(s)
    <3>1. CASE req[s].id = u /\ HasTemp(s)
      <4>1. pc[s] = "write"
        BY <2>4 DEF SavePart, DropPart
      <4>2. /\ Renamed(s) \in Session /\ Renamed(s).temps = dir[u].temps \ {s}
            /\ DropTemp(s, dir[u]) \in Session /\ DropTemp(s, dir[u]).temps = dir[u].temps \ {s}
        BY <1>2, <3>1, <4>1, SavedType, SessionType DEF DropTemp, HasTemp, Session
      <4>3. \E d \in {Renamed(s), DropTemp(s, dir[u])} : dir'[u] = [d EXCEPT !.stale = FALSE]
        BY <1>1, <2>4, <3>1 DEF SavePart, DropPart, Touch, TypeOK
      <4> HIDE DEF Renamed, DropTemp
      <4>4. dir'[u].temps = dir[u].temps \ {s}
        BY <4>2, <4>3 DEF Session
      <4> QED
        BY <3>1, <4>4 DEF HasTemp
    <3>2. CASE ~(req[s].id = u /\ HasTemp(s))
      <4>1. dir'[u] = dir[u]
        BY <1>1, <2>4, <3>2 DEF SavePart, DropPart, Touch, TypeOK
      <4>2. Exists(u) /\ q \in dir[u].temps
        BY <4>1 DEF Exists
      <4>3. s # q
        BY <3>2, <4>2 DEF TempsOwned, HasTemp
      <4> QED
        BY <4>2, <4>3
    <3> QED
      BY <3>1, <3>2
  <2>5. CASE RejectSize(s) \/ Sweep(s) \/ CreateFails(s) \/ LoadForChunk(s) \/ LoadForOpen(s)
             \/ OpenPart(s) \/ Import(s)
    BY <2>5 DEF RejectSize, Sweep, CreateFails, LoadForChunk, LoadForOpen, OpenPart, Import,
       SavePart, DropPart, Exists
  <2> QED
    BY <1>5, <2>1, <2>2, <2>3, <2>4, <2>5 DEF Handle
<1>6. ASSUME (\E s \in Slots, r \in Request : Arrive(s, r)) \/ (\E v \in Uploads : Age(v))
                 \/ UNCHANGED vars
      PROVE  Exists(u) /\ q \in dir[u].temps
  <2>1. dir'[u] = dir[u] \/ dir'[u] = [dir[u] EXCEPT !.stale = TRUE]
    BY <1>1, <1>6 DEF Arrive, Age, vars, TypeOK
  <2>2. Exists(u)
    BY <1>1, <1>6 DEF Arrive, Age, vars, TypeOK, Exists
  <2> QED
    BY <1>2, <2>1, <2>2 DEF Session
<1>7. ASSUME NEW s \in Slots, Handle(s), Exists(u) /\ q \in dir[u].temps,
             ~(s = q /\ (SavePart(q) \/ DropPart(q)))
      PROVE  UNCHANGED <<pc[q], req[q]>>
  <2>1. pc[q] = "write"
    BY <1>7 DEF TempsOwned
  <2>2. s # q
    BY <1>7, <2>1 DEF Handle, Unlink, Rmdir, RejectSize, Sweep, MakeDir, WriteMeta,
       CreateFails, LoadForChunk, CreateTemp, LoadForOpen, OpenPart, Import
  <2> QED
    BY <1>1, <1>3, <1>7, <2>2, OthersStay
<1>8. ASSUME (\E s \in Slots, r \in Request : Arrive(s, r)) \/ (\E v \in Uploads : Age(v))
                 \/ UNCHANGED vars
      PROVE  UNCHANGED <<pc[q], req[q]>>
  <2>1. pc[q] = "write"
    BY <1>6, <1>8 DEF TempsOwned
  <2> QED
    BY <1>1, <1>3, <1>8, <2>1 DEF Arrive, Age, vars, Goto, TypeOK
<1>9. CASE \E s \in Slots : Handle(s)
  BY <1>3, <1>4, <1>5, <1>7, <1>9
<1>10. CASE ~\E s \in Slots : Handle(s)
  BY <1>3, <1>4, <1>6, <1>8, <1>10 DEF Next
<1> QED
  BY <1>9, <1>10

(* Every temporary part has its PUT, or its process was stopped.           *)
THEOREM NoTempLeft == Spec => []TempsOwned
<1>1. Init => TempsOwned
  BY DEF Init, TempsOwned, Exists
<1>2. UInv /\ TempsOwned /\ [Next]_vars => TempsOwned'
  <2> SUFFICES ASSUME UInv, TempsOwned, [Next]_vars, NEW u \in Uploads, dir'[u] # None,
                      NEW q \in dir'[u].temps, q # None
               PROVE  pc'[q] = "write" /\ req'[q].id = u
    BY DEF TempsOwned, Exists
  <2>1. q \in Slots
    BY TempStep
  <2>2. CASE Exists(u) /\ q \in dir[u].temps /\ UNCHANGED <<pc[q], req[q]>>
    BY <2>2 DEF TempsOwned
  <2>3. CASE CreateTemp(q) /\ req[q].id = u
    <3>1. CASE Exists(u)
      BY <2>1, <2>3, <3>1 DEF CreateTemp, Goto, UInv, TypeOK
    <3>2. CASE ~Exists(u)
      BY <2>3, <3>2 DEF CreateTemp, Exists
    <3> QED
      BY <3>1, <3>2
  <2> QED
    BY <2>2, <2>3, TempStep
<1> QED
  BY <1>1, <1>2, UInvInit, UInvNext, PTL DEF Spec
=============================================================================
