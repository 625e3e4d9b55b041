----------------------------- MODULE ImportUpload -----------------------------
(***************************************************************************)
(* Upload sessions: importupload.Service and its four HTTP handlers.  A    *)
(* session is a directory with meta.json and one file per part; all state  *)
(* is in the file system and no lock protects it, so that every request    *)
(* meets whatever the others have done to the directory so far.  Requests  *)
(* are arbitrary: any part number, any body size, any order, repeated or   *)
(* at the same time.  The process may stop at any point.                   *)
(*                                                                         *)
(* A slot holds one request at a time.  A directory is stale when its      *)
(* mtime is older than uploadTTL; no request is taken to run that long.    *)
(***************************************************************************)
EXTENDS Integers, Sequences, FiniteSets

CONSTANTS
    Uploads,       \* the ids that randomID draws
    Slots,         \* requests that may be handled at a time
    ChunkSize,     \* bytes per part
    MaxFileSize,   \* the largest file accepted
    MaxBytes,      \* bound: the largest size or index a request names
    None           \* no directory, no file, no request

Sizes == 0..MaxBytes

(* What a part holds: the index it was sent for and its length. *)
Part == [index: Sizes, bytes: Sizes]

(* A session directory: whether meta.json is there, the parts by number,   *)
(* the open temporary files by the slot that writes them, None for one     *)
(* whose process was stopped.                                              *)
Session == [meta: BOOLEAN, parts: [Sizes -> Part \cup {None}],
            temps: SUBSET (Slots \cup {None}), stale: BOOLEAN]

(* A request under way; that of a create carries the id it works on. *)
Handled ==
    [op: {"create"}, bytes: Sizes, id: Uploads \cup {None}]
        \cup [op: {"complete", "delete"}, id: Uploads]
        \cup [op: {"chunk"}, id: Uploads, index: -1..MaxBytes, bytes: Sizes]

ASSUME UploadAssumption ==
    /\ ChunkSize \in Nat \ {0}
    /\ MaxFileSize \in Nat /\ MaxBytes \in Nat
    /\ None \notin Uploads \cup Sizes \cup Part \cup Session \cup Handled

VARIABLES
    dir,       \* the session directories
    size,      \* the size the client of each session announced
    req,       \* the request in each slot
    pc,        \* where its handler is
    opened,    \* the parts a complete has opened, in order
    imported   \* the files that were imported, as [id, parts]

vars == <<dir, size, req, pc, opened, imported>>

NoParts == [k \in Sizes |-> None]
NewDir  == [meta |-> FALSE, parts |-> NoParts, temps |-> {}, stale |-> FALSE]

Exists(u)  == dir[u] # None
HasMeta(u) == Exists(u) /\ dir[u].meta

(* Faulty variant: a last part shorter than the others is not counted. *)
WholeChunks(n) == n \div ChunkSize

ChunksTotal(n) == (n + ChunkSize - 1) \div ChunkSize

(* The bytes that part k of a file of n bytes must have. *)
Expected(n, k) ==
    LET remaining == n - k * ChunkSize
    IN  IF remaining < ChunkSize THEN remaining ELSE ChunkSize

Init ==
    /\ dir = [u \in Uploads |-> None]
    /\ size = [u \in Uploads |-> None]
    /\ req = [q \in Slots |-> None]
    /\ pc = [q \in Slots |-> "free"]
    /\ opened = [q \in Slots |-> <<>>]
    /\ imported = {}

-----------------------------------------------------------------------------
Goto(q, l) == pc' = [pc EXCEPT ![q] = l]

(* The handler responds, with a result or with an error. *)
Respond(q) ==
    /\ Goto(q, "free")
    /\ req' = [req EXCEPT ![q] = None]
    /\ opened' = [opened EXCEPT ![q] = <<>>]

Drawn == {u \in Uploads : size[u] # None}

(* Requests name only ids that are drawn and whose create has ended. *)
Known == {u \in Drawn : \A q \in Slots : ~(pc[q] = "meta" /\ req[q].id = u)}

Request ==
    [op: {"create"}, bytes: Sizes, id: {None}]
        \cup [op: {"complete", "delete"}, id: Known]
        \cup [op: {"chunk"}, id: Known, index: -1..MaxBytes, bytes: Sizes]

FirstStep == [create |-> "create", chunk |-> "load", complete |-> "open", delete |-> "unlink"]

Arrive(q, r) ==
    /\ pc[q] = "free"
    /\ req' = [req EXCEPT ![q] = r]
    /\ Goto(q, FirstStep[r.op])
    /\ UNCHANGED <<dir, size, opened, imported>>

(* The entries of u are changed: its mtime becomes now.                    *)
Touch(u, d) == dir' = [dir EXCEPT ![u] = [d EXCEPT !.stale = FALSE]]

-----------------------------------------------------------------------------
(* RemoveAll, by a delete, at the end of a complete or by the sweep of a   *)
(* create: the entries go first, then the directory, which stays when      *)
(* something was put into it in between.                                   *)

Unlink(q) ==
    LET u == req[q].id
    IN  /\ pc[q] = "unlink"
        /\ IF Exists(u) THEN Touch(u, NewDir) ELSE UNCHANGED dir
        /\ Goto(q, "rmdir")
        /\ UNCHANGED <<size, req, opened, imported>>

Rmdir(q) ==
    LET u == req[q].id
        empty == Exists(u) /\ dir[u] = NewDir
    IN  /\ pc[q] = "rmdir"
        /\ dir' = [dir EXCEPT ![u] = IF empty THEN None ELSE @]
        /\ IF req[q].op = "create"
           THEN Goto(q, "create") /\ UNCHANGED <<req, opened>>
           ELSE Respond(q)
        /\ UNCHANGED <<size, imported>>

-----------------------------------------------------------------------------
(* Create. *)

(* Faulty variant: a directory without meta.json is no session to sweep. *)
StaleSessions == {u \in Uploads : HasMeta(u) /\ dir[u].stale}

Stale == {u \in Uploads : Exists(u) /\ dir[u].stale}

Acceptable(n) == n > 0 /\ n <= MaxFileSize

RejectSize(q) ==
    /\ pc[q] = "create"
    /\ ~Acceptable(req[q].bytes)
    /\ Respond(q)
    /\ UNCHANGED <<dir, size, imported>>

(* cleanupStale: the age is read, then the session is removed. *)
Sweep(q) ==
    /\ pc[q] = "create"
    /\ Acceptable(req[q].bytes)
    /\ \E u \in Stale : req' = [req EXCEPT ![q].id = u]
    /\ Goto(q, "unlink")
    /\ UNCHANGED <<dir, size, opened, imported>>

MakeDir(q) ==
    /\ pc[q] = "create"
    /\ Acceptable(req[q].bytes)
    /\ Stale = {}
    /\ \E u \in Uploads \ Drawn :
           /\ dir' = [dir EXCEPT ![u] = NewDir]
           /\ size' = [size EXCEPT ![u] = req[q].bytes]
           /\ req' = [req EXCEPT ![q].id = u]
    /\ Goto(q, "meta")
    /\ UNCHANGED <<opened, imported>>

(* meta.json is written, or the directory, which nobody else knows, is     *)
(* removed again.                                                          *)
WriteMeta(q) ==
    LET u == req[q].id
    IN  /\ pc[q] = "meta"
        /\ \/ Touch(u, [dir[u] EXCEPT !.meta = TRUE])
           \/ dir' = [dir EXCEPT ![u] = None]
        /\ Respond(q)
        /\ UNCHANGED <<size, imported>>

(* No id can be drawn, or the directory cannot be made. *)
CreateFails(q) ==
    /\ pc[q] = "create"
    /\ Stale = {}
    /\ Respond(q)
    /\ UNCHANGED <<dir, size, imported>>

-----------------------------------------------------------------------------
(* SaveChunk. *)

LoadForChunk(q) ==
    LET u == req[q].id
        valid == HasMeta(u) /\ req[q].index \in 0..(ChunksTotal(size[u]) - 1)
    IN  /\ pc[q] = "load"
        /\ IF valid THEN Goto(q, "temp") /\ UNCHANGED <<req, opened>> ELSE Respond(q)
        /\ UNCHANGED <<dir, size, imported>>

CreateTemp(q) ==
    LET u == req[q].id
    IN  /\ pc[q] = "temp"
        /\ IF Exists(u)
           THEN /\ Touch(u, [dir[u] EXCEPT !.temps = @ \cup {q}])
                /\ Goto(q, "write")
                /\ UNCHANGED <<req, opened>>
           ELSE Respond(q) /\ UNCHANGED dir
        /\ UNCHANGED <<size, imported>>

(* Faulty variant: the temporary is not removed on an error. *)
LeaveTemp(q, d) == d

RightBytes(q) == req[q].bytes = Expected(size[req[q].id], req[q].index)

(* The deferred Remove of the temporary. *)
DropTemp(q, d) == [d EXCEPT !.temps = @ \ {q}]

HasTemp(q) == Exists(req[q].id) /\ q \in dir[req[q].id].temps

SavedPart(q) ==
    LET part == [index |-> req[q].index, bytes |-> req[q].bytes]
    IN  [dir[req[q].id] EXCEPT !.parts[req[q].index] = part, !.temps = @ \ {q}]

(* Faulty variant: meta.json is written anew to note the progress. *)
NotedPart(q) == [SavedPart(q) EXCEPT !.meta = TRUE]

Renamed(q) == SavedPart(q)

(* The body is written and the temporary renamed to the part, replacing    *)
(* an earlier one; the rename fails when the session has been removed.     *)
SavePart(q) ==
    /\ pc[q] = "write"
    /\ RightBytes(q)
    /\ IF HasTemp(q) THEN Touch(req[q].id, Renamed(q)) ELSE UNCHANGED dir
    /\ Respond(q)
    /\ UNCHANGED <<size, imported>>

(* A body of another size, or an I/O error. *)
DropPart(q) ==
    LET u == req[q].id
    IN  /\ pc[q] = "write"
        /\ IF HasTemp(q) THEN Touch(u, DropTemp(q, dir[u])) ELSE UNCHANGED dir
        /\ Respond(q)
        /\ UNCHANGED <<size, imported>>

-----------------------------------------------------------------------------
(* Open and complete. *)

LoadForOpen(q) ==
    /\ pc[q] = "open"
    /\ IF HasMeta(req[q].id) THEN Goto(q, "parts") /\ UNCHANGED <<req, opened>>
                             ELSE Respond(q)
    /\ UNCHANGED <<dir, size, imported>>

AllOpened(q) == Len(opened[q]) = ChunksTotal(size[req[q].id])

(* Faulty variant: that a part is missing goes unnoticed. *)
AnyPart(q, k) == Exists(req[q].id)

Usable(q, k) ==
    LET u == req[q].id
    IN  /\ Exists(u)
        /\ dir[u].parts[k] # None
        /\ dir[u].parts[k].bytes = Expected(size[u], k)

(* The next part is opened; it stays readable when it is unlinked later.   *)
OpenPart(q) ==
    LET k == Len(opened[q])
    IN  /\ pc[q] = "parts"
        /\ ~AllOpened(q)
        /\ IF Usable(q, k)
           THEN /\ opened' = [opened EXCEPT ![q] = Append(@, dir[req[q].id].parts[k])]
                /\ UNCHANGED <<req, pc>>
           ELSE Respond(q)
        /\ UNCHANGED <<dir, size, imported>>

(* Orders.Import over the parts: it commits, or it fails; the deferred     *)
(* Close removes the session in both cases.                                *)
Import(q) ==
    /\ pc[q] = "parts"
    /\ AllOpened(q)
    /\ \/ imported' = imported \cup {[id |-> req[q].id, parts |-> opened[q]]}
       \/ UNCHANGED imported
    /\ opened' = [opened EXCEPT ![q] = <<>>]
    /\ Goto(q, "unlink")
    /\ UNCHANGED <<dir, size, req>>

-----------------------------------------------------------------------------
(* The process stops and starts again; open temporaries become orphans.    *)
Restart ==
    /\ \E q \in Slots : pc[q] # "free"
    /\ pc' = [q \in Slots |-> "free"]
    /\ req' = [q \in Slots |-> None]
    /\ opened' = [q \in Slots |-> <<>>]
    /\ dir' = [u \in Uploads |->
           IF Exists(u) /\ dir[u].temps # {} THEN [dir[u] EXCEPT !.temps = {None}]
                                             ELSE dir[u]]
    /\ UNCHANGED <<size, imported>>

(* Twenty-four hours pass without a request for u.  A create takes what    *)
(* was stale when it began: its cutoff does not move.                      *)
Age(u) ==
    /\ Exists(u)
    /\ ~dir[u].stale
    /\ \A q \in Slots : pc[q] # "free" => req[q].op # "create" /\ req[q].id # u
    /\ dir' = [dir EXCEPT ![u].stale = TRUE]
    /\ UNCHANGED <<size, req, pc, opened, imported>>

Handle(q) ==
    \/ Unlink(q)
    \/ Rmdir(q)
    \/ RejectSize(q)
    \/ Sweep(q)
    \/ MakeDir(q)
    \/ WriteMeta(q)
    \/ CreateFails(q)
    \/ LoadForChunk(q)
    \/ CreateTemp(q)
    \/ SavePart(q)
    \/ DropPart(q)
    \/ LoadForOpen(q)
    \/ OpenPart(q)
    \/ Import(q)

Next ==
    \/ \E q \in Slots, r \in Request : Arrive(q, r)
    \/ \E q \in Slots : Handle(q)
    \/ \E u \in Uploads : Age(u)
    \/ Restart

Spec == Init /\ [][Next]_vars

(* Handlers run to their end, and the process is not stopped for ever.     *)
FairSpec ==
    /\ Spec
    /\ \A q \in Slots : WF_vars(Handle(q))
    /\ <>[][~Restart]_vars

(* Besides, people go on uploading files.                                  *)
NewUpload == \E q \in Slots, n \in Sizes :
    Acceptable(n) /\ Arrive(q, [op |-> "create", bytes |-> n, id |-> None])

BusySpec == FairSpec /\ SF_vars(NewUpload)

-----------------------------------------------------------------------------
(* The variables have their types.                                         *)
TypeOK ==
    /\ dir \in [Uploads -> Session \cup {None}]
    /\ size \in [Uploads -> Sizes \cup {None}]
    /\ req \in [Slots -> Handled \cup {None}]
    /\ pc \in [Slots -> {"free", "create", "unlink", "rmdir", "meta", "load",
                         "temp", "write", "open", "parts"}]
    /\ opened \in [Slots -> Seq(Part)]
    /\ imported \subseteq [id: Uploads, parts: Seq(Part)]

(* What is imported is the file that was announced: every part in its      *)
(* place, the last one shorter, their bytes adding up, whatever was sent   *)
(* again, deleted or swept away while the parts were being opened.         *)
ImportsWholeFile ==
    \A file \in imported :
        LET n == size[file.id]
        IN  /\ Len(file.parts) * ChunkSize >= n
            /\ (Len(file.parts) - 1) * ChunkSize < n
            /\ \A k \in DOMAIN file.parts :
                  /\ file.parts[k].index = k - 1
                  /\ file.parts[k].bytes =
                         IF k < Len(file.parts) THEN ChunkSize
                         ELSE n - (Len(file.parts) - 1) * ChunkSize

(* A temporary part has a PUT that is still writing it, or its process was *)
(* stopped: no error path leaves one behind.                               *)
TempsOwned ==
    \A u \in Uploads : Exists(u) =>
        \A q \in dir[u].temps \ {None} : pc[q] = "write" /\ req[q].id = u

(* A session that was removed does not come back: what a late PUT puts     *)
(* into the directory again is no session.                                 *)
RemovedForGood ==
    [][\A u \in Known : ~HasMeta(u) => ~(dir'[u] # None /\ dir'[u].meta)]_vars

(* A directory that nobody uses is removed in the end (docs/api.md, ADR    *)
(* 0007: unfinished sessions are removed after 24 hours).                  *)
StaleRemoved ==
    \A u \in Uploads : (Exists(u) /\ dir[u].stale) ~> ~(Exists(u) /\ dir[u].stale)

-----------------------------------------------------------------------------
(* The inductive invariant. *)

(* A handler serves a request of its kind, on an id that has been drawn.   *)
Serves ==
    \A q \in Slots :
        /\ pc[q] = "free" <=> req[q] = None
        /\ pc[q] \in {"create", "meta"} => req[q].op = "create"
        /\ pc[q] \in {"load", "temp", "write"} => req[q].op = "chunk"
        /\ pc[q] \in {"open", "parts"} => req[q].op = "complete"
        /\ pc[q] \in {"unlink", "rmdir"} => req[q].op # "chunk"
        /\ pc[q] \in {"temp", "write"} => req[q].index >= 0
        /\ pc[q] # "free" =>
               req[q].id \in Drawn \/ (pc[q] = "create" /\ req[q].id = None)

(* A directory without its meta.json is known to the create alone that     *)
(* made it.                                                                *)
NewAlone ==
    \A q \in Slots : pc[q] = "meta" =>
        /\ dir[req[q].id] = NewDir
        /\ \A s \in Slots : s # q /\ pc[s] # "free" => req[s].id # req[q].id

PartOf(n, k) == [index |-> k, bytes |-> Expected(n, k)]

(* Every part in a directory is in its place and has its bytes.            *)
Placed ==
    \A u \in Uploads : Exists(u) =>
        /\ u \in Drawn
        /\ \A k \in Sizes : dir[u].parts[k] # None => dir[u].parts[k] = PartOf(size[u], k)

(* A complete has opened the first parts of its file, in order.            *)
Opening ==
    \A q \in Slots :
        IF pc[q] = "parts"
        THEN /\ Len(opened[q]) <= ChunksTotal(size[req[q].id])
             /\ \A k \in 1..Len(opened[q]) : opened[q][k] = PartOf(size[req[q].id], k - 1)
        ELSE opened[q] = <<>>

UploadInv ==
    /\ Serves /\ NewAlone /\ Placed /\ Opening
    /\ \A file \in imported : file.id \in Drawn
=============================================================================
