--------------------------- MODULE ArtifactStore ---------------------------
(***************************************************************************)
(* Versions and their files.  A version is drafted, reviewed, published,   *)
(* pruned and deleted; its files are hard links to content-addressed blobs *)
(* that are shared by all versions and counted in the blobs table.  HTTP   *)
(* requests run concurrently: the database serializes their statements and *)
(* transactions, nothing serializes their file operations.                 *)
(*                                                                         *)
(* Files are inodes, so that writing through a hard link is what it is.    *)
(* Hash and content are the same.  File modes, tags and provenance follow  *)
(* the files and decide nothing here; that a deployment may pin a version  *)
(* is nondeterministic (see PushDeploy).                                   *)
(***************************************************************************)
EXTENDS Naturals, SequencesExt

CONSTANTS
    Versions,     \* version names
    Paths,        \* file names inside a version
    Contents,     \* file contents
    Empty,        \* the content of a truncated file
    Clients,      \* concurrent requests
    None,         \* no file, no request
    Retentions,   \* the values of max_published_versions; 0 keeps every version
    MaxRef,       \* bound on reference counts
    Exclusive     \* do clients work on a version one at a time?

ASSUME ContentAssumption == Empty \notin Contents /\ None \notin Contents \cup {Empty} \cup Nat
ASSUME FiniteAssumption == \A S \in {Versions, Paths, Contents, Clients} : IsFiniteSet(S)
ASSUME BoundAssumption ==
    Retentions \subseteq Nat /\ MaxRef \in Nat /\ Exclusive \in BOOLEAN

VARIABLES
    status,   \* versions.status
    older,    \* published_at, as the versions published no later than each
    tree,     \* the files of each version directory: inodes
    data,     \* the bytes of an inode
    blob,     \* the blob files: inodes
    ref,      \* blobs.ref_count, 0 for no row
    op,       \* the requests in progress
    frozen    \* history: what a version held when it left the draft

rowVars  == <<status, older, frozen>>
fileVars == <<tree, data, blob>>
vars == <<status, older, frozen, tree, data, blob, ref, op>>

\* As many as can be linked at a time, and one more.
Inodes   == 1 .. Cardinality(Versions) * Cardinality(Paths) + Cardinality(Contents) + 1
Statuses == {"none", "draft", "pending_review", "rejected", "published"}
Bytes    == Contents \cup {Empty}
Kinds    == {"upload", "remove", "submit", "reject", "publish", "delete", "sweep"}
Steps    == {"check", "next", "unlink", "deref", "unblob", "ingest", "clear", "link",
             "commit", "prune", "row", "walk"}
Requests == [kind : Kinds, step : Steps, version : Versions \cup {None},
             path : Paths \cup {None}, content : Contents \cup {None},
             found : Bytes \cup {None}, victims : Seq(Versions)]

Request(kind, step, v) ==
    [kind |-> kind, step |-> step, version |-> v, path |-> None, content |-> None,
     found |-> None, victims |-> <<>>]

Files(v)   == {p \in Paths : tree[v][p] # None}
Content(v) == [p \in Paths |-> IF tree[v][p] = None THEN None ELSE data[tree[v][p]]]
Linked(t, b) == {b[c] : c \in Contents} \cup {t[v][p] : v \in Versions, p \in Paths}
FreshInode == Min(Inodes \ Linked(tree, blob))

\* The files become t, b and d; an inode without a link is gone.
Store(t, b, d) ==
    /\ tree' = t /\ blob' = b
    /\ data' = [i \in Inodes |-> IF i \in Linked(t, b) THEN d[i] ELSE Empty]

\* What clients are assumed to do when they are Exclusive.
MayTouch(k, v) ==
    Exclusive => \A j \in Clients \ {k} :
        op[j] # None => op[j].version # v /\ v \notin Range(op[j].victims)

Init ==
    /\ status = [v \in Versions |-> "none"]
    /\ older = [v \in Versions |-> {}]
    /\ tree = [v \in Versions |-> [p \in Paths |-> None]]
    /\ data = [i \in Inodes |-> Empty]
    /\ blob = [c \in Contents |-> None] /\ ref = [c \in Contents |-> 0]
    /\ op = [k \in Clients |-> None]
    /\ frozen = [v \in Versions |-> None]

\* A request begins, goes on or ends.
Begin(k, r) == op[k] = None /\ op' = [op EXCEPT ![k] = r]
Goto(k, step) == op' = [op EXCEPT ![k].step = step]
End(k) == op' = [op EXCEPT ![k] = None]
At(k, step) == op[k] # None /\ op[k].step = step

-----------------------------------------------------------------------------
(* The life of a version.  A handler reads the status, then writes it.     *)

\* The INSERT is refused for a version that exists; MkdirAll takes a
\* directory as it finds it.
CreateVersion(k, v) ==
    /\ op[k] = None /\ MayTouch(k, v) /\ status[v] = "none"
    /\ status' = [status EXCEPT ![v] = "draft"]
    /\ UNCHANGED <<older, frozen, fileVars, ref, op>>

\* The statuses from which a version may be submitted, rejected, published.
From(kind) == CASE kind = "submit"  -> {"draft", "rejected"}
                [] kind = "reject"  -> {"pending_review"}
                [] kind = "publish" -> {"draft", "pending_review"}

Review(k, v, kind) ==
    /\ MayTouch(k, v) /\ status[v] \in From(kind)
    /\ kind # "reject" => Files(v) # {}
    /\ Begin(k, Request(kind, "commit", v))
    /\ UNCHANGED <<rowVars, fileVars, ref>>

\* The version leaves the draft with the files it has.
Freeze(v) == frozen' = IF status[v] = "draft" THEN [frozen EXCEPT ![v] = Content(v)]
                       ELSE frozen

\* The UPDATEs of SubmitVersionReview and RejectVersionReview, which do not
\* ask for the status again.
CommitReview(k) ==
    /\ At(k, "commit") /\ op[k].kind \in {"submit", "reject"}
    /\ LET v == op[k].version
           s == IF op[k].kind = "submit" THEN "pending_review" ELSE "rejected"
       IN  /\ status' = IF status[v] = "none" THEN status ELSE [status EXCEPT ![v] = s]
           /\ Freeze(v)
    /\ End(k)
    /\ UNCHANGED <<older, fileVars, ref>>

\* published_at, when v is published and when its row goes.
Published(v) == [u \in Versions |-> IF u = v THEN {v} \cup {w \in Versions : older[w] # {}}
                                    ELSE older[u] \ {v}]
Forgotten(v) == [u \in Versions |-> IF u = v THEN {} ELSE older[u] \ {v}]

\* PublishVersion's UPDATE.
CommitPublish(k) ==
    /\ At(k, "commit") /\ op[k].kind = "publish"
    /\ LET v == op[k].version IN
       IF status[v] = "none" THEN UNCHANGED rowVars
       ELSE /\ status' = [status EXCEPT ![v] = "published"]
            /\ older' = Published(v)
            /\ Freeze(v)
    /\ Goto(k, "prune")
    /\ UNCHANGED <<fileVars, ref>>

\* DeleteVersion for each of vs.
Deleting(vs) ==
    IF vs = <<>> THEN None
    ELSE [Request("delete", "row", Head(vs)) EXCEPT !.victims = Tail(vs)]

\* The published versions but the newest n; newest first.
Outdated(n) ==
    {v \in Versions :
       /\ n # 0 /\ status[v] = "published"
       /\ Cardinality({u \in Versions : status[u] = "published" /\ v \in older[u]}) > n}
NewestFirst(vs) == \A i, j \in DOMAIN vs : i < j => vs[j] \in older[vs[i]]
Prunable(n) == {vs \in SetToSeqs(Outdated(n)) : NewestFirst(vs)}

\* PrunePublishedVersions, after a publish or from the retention handler.
Prune(k) ==
    /\ op[k] = None \/ At(k, "prune")
    /\ \E n \in Retentions : \E vs \in Prunable(n) : op' = [op EXCEPT ![k] = Deleting(vs)]
    /\ UNCHANGED <<rowVars, fileVars, ref>>

StartDelete(k, v) ==
    /\ MayTouch(k, v) /\ status[v] # "none"
    /\ Begin(k, Deleting(<<v>>))
    /\ UNCHANGED <<rowVars, fileVars, ref>>

\* The row goes first; then its files are released.
DeleteRow(k) ==
    /\ At(k, "row") /\ status[op[k].version] # "none"
    /\ LET v == op[k].version IN
       /\ status' = [status EXCEPT ![v] = "none"]
       /\ older' = Forgotten(v)
       /\ frozen' = [frozen EXCEPT ![v] = None]
    /\ Goto(k, "walk")
    /\ UNCHANGED <<fileVars, ref>>

\* No row: the request fails.  A deployment pins the version: it is skipped.
DeleteRefused(k) ==
    /\ At(k, "row") /\ status[op[k].version] \in {"none", "published"}
    /\ op' = [op EXCEPT ![k] = IF status[op[k].version] = "none" THEN None
                               ELSE Deleting(@.victims)]
    /\ UNCHANGED <<rowVars, fileVars, ref>>

\* RemoveAll, after the walk; an error that ended the walk is ignored.
RemoveAll(k) ==
    /\ At(k, "walk")
    /\ Store([tree EXCEPT ![op[k].version] = [p \in Paths |-> None]], blob, data)
    /\ op' = [op EXCEPT ![k] = Deleting(@.victims)]
    /\ UNCHANGED <<rowVars, ref>>

-----------------------------------------------------------------------------
(* The files of a version.                                                 *)

\* Mutant: a rejected version may be edited, as assertMutable alone would have it.
MutableOrRejected(v) == status[v] \in {"draft", "rejected"}

\* requireMutableVersion, and PlanStorageDelete for a file.
Mutable(v) == status[v] = "draft"

StartUpload(k, v) ==
    /\ MayTouch(k, v) /\ Mutable(v)
    /\ Begin(k, Request("upload", "check", v))
    /\ UNCHANGED <<rowVars, fileVars, ref>>

StartRemove(k, v, p) ==
    /\ MayTouch(k, v) /\ Mutable(v)
    /\ Begin(k, [Request("remove", "check", v) EXCEPT !.path = p])
    /\ UNCHANGED <<rowVars, fileVars, ref>>

\* assertMutable, once per request.
Check(k) ==
    /\ At(k, "check")
    /\ IF status[op[k].version] \in {"draft", "rejected"} THEN Goto(k, "next") ELSE End(k)
    /\ UNCHANGED <<rowVars, fileVars, ref>>

\* Release starts by hashing the file that is there, if one is.
Look(k, p, otherwise) ==
    LET i == tree[op[k].version][p] IN
    IF i = None THEN otherwise
    ELSE [op[k] EXCEPT !.path = p, !.found = data[i], !.step = "unlink"]

\* The next file of an upload: an archive has several.
NextEntry(k) ==
    /\ At(k, "next") /\ op[k].kind = "upload"
    /\ \E p \in Paths, c \in Contents :
         op' = [op EXCEPT ![k] = [Look(k, p, [@ EXCEPT !.path = p, !.step = "ingest"])
                                  EXCEPT !.content = c]]
    /\ UNCHANGED <<rowVars, fileVars, ref>>

NextRemoval(k) ==
    /\ At(k, "next") /\ op[k].kind = "remove"
    /\ op' = [op EXCEPT ![k] = Look(k, @.path, None)]
    /\ UNCHANGED <<rowVars, fileVars, ref>>

NextOfWalk(k) ==
    /\ At(k, "walk")
    /\ \E p \in Files(op[k].version) : op' = [op EXCEPT ![k] = Look(k, p, @)]
    /\ UNCHANGED <<rowVars, fileVars, ref>>

\* A request is done, or it fails, or the process dies.
Finish(k) ==
    /\ op[k] # None /\ End(k)
    /\ UNCHANGED <<rowVars, fileVars, ref>>

\* What follows the release of a file.
Released(k, r) == CASE r.kind = "upload" -> [r EXCEPT !.step = "ingest", !.found = None]
                    [] r.kind = "remove" -> None
                    [] r.kind = "delete" ->
                         [r EXCEPT !.step = "walk", !.path = None, !.found = None]

\* The error of a file that is gone ends an upload; a delete ignores it.
Unlink(k) ==
    /\ At(k, "unlink")
    /\ LET v == op[k].version  p == op[k].path IN
       IF tree[v][p] # None
       THEN /\ Store([tree EXCEPT ![v][p] = None], blob, data)
            /\ Goto(k, "deref")
       ELSE /\ UNCHANGED fileVars
            /\ op' = [op EXCEPT ![k] = IF @.kind = "delete" THEN Released(k, @) ELSE None]
    /\ UNCHANGED <<rowVars, ref>>

\* decrementBlobRef: one transaction, then the file of a blob that is unused.
Deref(k) ==
    /\ At(k, "deref")
    /\ LET c == op[k].found  counted == c \in Contents /\ ref[c] > 0 IN
       /\ ref' = IF counted THEN [ref EXCEPT ![c] = @ - 1] ELSE ref
       /\ op' = [op EXCEPT ![k] = IF counted /\ ref[c] = 1 THEN [@ EXCEPT !.step = "unblob"]
                                  ELSE Released(k, @)]
    /\ UNCHANGED <<rowVars, fileVars>>

Unblob(k) ==
    /\ At(k, "unblob")
    /\ Store(tree, [blob EXCEPT ![op[k].found] = None], data)
    /\ op' = [op EXCEPT ![k] = IF @.kind = "sweep" THEN None ELSE Released(k, @)]
    /\ UNCHANGED <<rowVars, ref>>

\* PlanStorageDelete of a blob; ExecuteStorageDelete then removes the file.
StartSweep(k, c) ==
    /\ blob[c] # None /\ ref[c] = 0
    /\ Begin(k, [Request("sweep", "unblob", None) EXCEPT !.found = c])
    /\ UNCHANGED <<rowVars, fileVars, ref>>

\* writeBlobFile: a blob file appears whole, or is the one that is there.
WriteBlobFile(c) ==
    IF blob[c] # None THEN UNCHANGED fileVars
    ELSE Store(tree, [blob EXCEPT ![c] = FreshInode], [data EXCEPT ![FreshInode] = c])

\* Mutant: an upload of known content is not counted.
CountedIfNew(c) == ref' = [ref EXCEPT ![c] = IF @ = 0 THEN 1 ELSE @]

\* ingestBlobFromReader: the file, then the row, in one transaction.
Counted(c) == ref' = [ref EXCEPT ![c] = @ + 1]
Ingest(k) ==
    /\ At(k, "ingest")
    /\ LET c == op[k].content IN
       /\ ref[c] < MaxRef
       /\ WriteBlobFile(c)
       /\ Counted(c)
    /\ Goto(k, "clear")
    /\ UNCHANGED rowVars

\* The transaction fails and leaves the file.
IngestFails(k) ==
    /\ At(k, "ingest")
    /\ WriteBlobFile(op[k].content)
    /\ End(k)
    /\ UNCHANGED <<rowVars, ref>>

\* linkBlobToVersion removes what is at the path ...
Clear(k) ==
    /\ At(k, "clear")
    /\ Store([tree EXCEPT ![op[k].version][op[k].path] = None], blob, data)
    /\ Goto(k, "link")
    /\ UNCHANGED <<rowVars, ref>>

\* ... and links the blob there;
Link(k) ==
    /\ At(k, "link")
    /\ LET v == op[k].version  p == op[k].path  b == blob[op[k].content] IN
       /\ tree[v][p] = None /\ b # None
       /\ Store([tree EXCEPT ![v][p] = b], blob, data)
    /\ op' = [op EXCEPT ![k] = Request("upload", "next", @.version)]
    /\ UNCHANGED <<rowVars, ref>>

\* or copies it, when it cannot be linked or the path is taken.  os.Create
\* truncates the file that is there, which may be the blob itself; a copy
\* that fails leaves a truncated file.
Copy(k) ==
    /\ At(k, "link") /\ blob[op[k].content] # None
    /\ LET v == op[k].version  p == op[k].path  b == blob[op[k].content]
           i == IF tree[v][p] = None THEN FreshInode ELSE tree[v][p]
       IN \/ /\ Store([tree EXCEPT ![v][p] = i], blob,
                      [data EXCEPT ![i] = IF i = b THEN Empty ELSE data[b]])
             /\ op' = [op EXCEPT ![k] = Request("upload", "next", v)]
          \/ /\ Store([tree EXCEPT ![v][p] = i], blob, [data EXCEPT ![i] = Empty])
             /\ End(k)
    /\ UNCHANGED <<rowVars, ref>>

-----------------------------------------------------------------------------
Step(k) ==
    \/ CommitReview(k) \/ CommitPublish(k) \/ Prune(k)
    \/ DeleteRow(k) \/ DeleteRefused(k) \/ RemoveAll(k)
    \/ Check(k) \/ NextEntry(k) \/ NextRemoval(k) \/ NextOfWalk(k) \/ Finish(k)
    \/ Unlink(k) \/ Deref(k) \/ Unblob(k)
    \/ Ingest(k) \/ IngestFails(k) \/ Clear(k) \/ Link(k) \/ Copy(k)

Next == \E k \in Clients :
    \/ Step(k)
    \/ \E v \in Versions :
         \/ CreateVersion(k, v) \/ StartUpload(k, v) \/ StartDelete(k, v)
         \/ \E kind \in {"submit", "reject", "publish"} : Review(k, v, kind)
         \/ \E p \in Paths : StartRemove(k, v, p)
    \/ \E c \in Contents : StartSweep(k, c)

Spec == Init /\ [][Next]_vars

-----------------------------------------------------------------------------
(* Properties.                                                             *)

\* Every variable has its type.
TypeOK ==
    /\ status \in [Versions -> Statuses]
    /\ older \in [Versions -> SUBSET Versions]
    /\ tree \in [Versions -> [Paths -> Inodes \cup {None}]]
    /\ data \in [Inodes -> Bytes]
    /\ blob \in [Contents -> Inodes \cup {None}]
    /\ ref \in [Contents -> 0 .. MaxRef]
    /\ op \in [Clients -> Requests \cup {None}]
    /\ frozen \in [Versions -> [Paths -> Bytes \cup {None}] \cup {None}]

\* The version files that hold c.
Links(c) == {f \in Versions \X Paths : Content(f[1])[f[2]] = c}

\* A blob counts at least the version files that hold it, through uploads,
\* overwrites, deletions, prunes and failures at any step: a count that is
\* too low lets decrementBlobRef remove a blob in use.
RefsCoverLinks == \A c \in Contents : ref[c] >= Cardinality(Links(c))

\* A blob file holds the bytes that its name is the hash of: the next upload
\* of those bytes links it without looking.
BlobsAreIntact == \A c \in Contents : blob[c] # None => data[blob[c]] = c

\* The blob store can be relied on by the next upload: counts cover the links,
\* blobs are what their names say, and everything keeps its type.
BlobStoreIsSound == TypeOK /\ RefsCoverLinks /\ BlobsAreIntact

\* A version that has left the draft keeps the bytes it left it with
\* (requireMutableVersion), whatever is uploaded, rejected, resubmitted,
\* published or deleted meanwhile.
NonDraftIsImmutable ==
    \A v \in Versions : status[v] \notin {"none", "draft"} => Content(v) = frozen[v]

\* No request changes a published version that it is not about: the files of
\* versions are shared, their bytes are not to be.
PublishedIsUntouched ==
    [][\A v \in Versions :
         status[v] = "published" /\ (\A k \in Clients : op[k] # None => op[k].version # v)
         => status'[v] # "published" \/ Content(v)' = Content(v)]_vars
=============================================================================
