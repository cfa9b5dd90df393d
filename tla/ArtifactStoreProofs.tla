------------------------ MODULE ArtifactStoreProofs -------------------------
(***************************************************************************)
(* The blob store is sound and a version keeps its bytes once it has left  *)
(* the draft, for all versions, paths, contents and clients, as long as    *)
(* clients work on a version one at a time.                                *)
(***************************************************************************)
EXTENDS ArtifactStore, FiniteSetTheorems, FunctionTheorems, SequenceTheorems,
        NaturalsInduction, WellFoundedInduction, TLAPS

-----------------------------------------------------------------------------
(* The inductive invariant.                                                *)

StepsOf(kind) ==
    CASE kind = "upload"  -> {"check", "next", "unlink", "deref", "unblob", "ingest",
                              "clear", "link"}
      [] kind = "remove"  -> {"check", "next", "unlink", "deref", "unblob"}
      [] kind = "publish" -> {"commit", "prune"}
      [] kind = "delete"  -> {"row", "walk", "unlink", "deref", "unblob"}
      [] kind = "sweep"   -> {"unblob"}
      [] OTHER            -> {"commit"}

\* A request has the steps of its kind, and what its step works with.
WellFormed(r) ==
    /\ r.step \in StepsOf(r.kind)
    /\ r.kind # "sweep" => r.version \in Versions
    /\ r.step \in {"unlink", "deref", "ingest", "clear", "link"} \/ r.kind = "remove"
         => r.path \in Paths
    /\ r.kind = "upload" /\ r.step \in {"unlink", "deref", "unblob"} => r.path \in Paths
    /\ r.kind = "upload" /\ r.step \notin {"check", "next"} => r.content \in Contents
    /\ r.step \in {"unlink", "deref"} => r.found \in Bytes
    /\ r.step = "unblob" => r.found \in Contents

\* A request that works on its version, and one that will come to it.
Working(k) == op[k] # None /\ op[k].kind # "sweep" /\ op[k].step \notin {"row", "prune"}
Waiting(k, v) == /\ op[k] # None
                 /\ \/ op[k].step = "row" /\ op[k].version = v
                    \/ v \in Range(op[k].victims)

\* The status that a request relies on.
Relied(r) == CASE r.kind \in {"upload", "remove"} -> {"draft"}
               [] r.kind = "delete" -> {"none"}
               [] OTHER -> From(r.kind)

\* One request works on a version, and it finds the status that it read.
WorkInv ==
    /\ \A k \in Clients : op[k] # None => WellFormed(op[k])
    /\ \A k \in Clients : Working(k) => status[op[k].version] \in Relied(op[k])
    /\ \A j, k \in Clients :
         j # k /\ Working(k) =>
           /\ Working(j) => op[j].version # op[k].version
           /\ Waiting(j, op[k].version) => op[k].kind = "delete"

\* A file that is about to be unlinked is the one that was hashed, and the
\* path that a blob is about to be linked to is free.
FileInv ==
    \A k \in Clients : op[k] # None =>
        /\ op[k].step = "unlink" =>
             /\ tree[op[k].version][op[k].path] # None
             /\ data[tree[op[k].version][op[k].path]] = op[k].found
        /\ op[k].step = "link" => tree[op[k].version][op[k].path] = None

\* A blob that was counted and not yet linked, or unlinked and not yet
\* counted down, is counted as well.
Claims(k, c) == /\ op[k] # None
                /\ \/ op[k].step \in {"clear", "link"} /\ op[k].content = c
                   \/ op[k].step = "deref" /\ op[k].found = c
Claimants(c) == {k \in Clients : Claims(k, c)}
CountInv ==
    \A c \in Contents : ref[c] >= Cardinality(Links(c)) + Cardinality(Claimants(c))

IndInv == TypeOK /\ WorkInv /\ FileInv /\ CountInv /\ BlobsAreIntact /\ NonDraftIsImmutable

-----------------------------------------------------------------------------
(* The operators of the model.                                             *)

\* A set of numbers has a smallest one.
LEMMA Smallest ==
  ASSUME NEW S \in SUBSET Nat, S # {}
  PROVE  Min(S) \in S
<1>1. PICK d \in S : \A c \in S : ~(<<c, d>> \in OpToRel(<, Nat))
  BY WFMin, NatLessThanWellFounded
<1>2. \A c \in S : d <= c
  <2>1. ASSUME NEW c \in S, c < d PROVE FALSE
    BY <1>1, <2>1 DEF OpToRel
  <2> QED
    BY <2>1
<1> QED
  BY <1>2, Zenon DEF Min

\* Everything that is linked at a time leaves an inode over.
LEMMA InodesSuffice ==
  ASSUME NEW t \in [Versions -> [Paths -> Inodes \cup {None}]],
         NEW b \in [Contents -> Inodes \cup {None}]
  PROVE  Inodes \ Linked(t, b) # {}
<1> DEFINE B == {b[c] : c \in Contents}
           T == {t[v][p] : v \in Versions, p \in Paths}
           f == [x \in Versions \X Paths |-> t[x[1]][x[2]]]
           m == Cardinality(Versions) * Cardinality(Paths)
           n == Cardinality(Contents)
<1>1. /\ IsFiniteSet(Versions) /\ IsFiniteSet(Paths) /\ IsFiniteSet(Contents)
      /\ Cardinality(Versions) \in Nat /\ Cardinality(Paths) \in Nat /\ n \in Nat
  BY FiniteAssumption, FS_CardinalityType
<1>2. IsFiniteSet(B) /\ Cardinality(B) <= n
  <2>1. b \in Surjection(Contents, B)
    BY DEF Surjection
  <2> QED
    BY <1>1, <2>1, FS_Surjection
<1>3. IsFiniteSet(T) /\ Cardinality(T) <= m
  <2>1. \A v \in Versions, p \in Paths : f[<<v, p>>] = t[v][p]
    OBVIOUS
  <2>2. f \in Surjection(Versions \X Paths, T)
    <3>1. f \in [Versions \X Paths -> T]
      OBVIOUS
    <3>2. ASSUME NEW y \in T PROVE \E x \in Versions \X Paths : f[x] = y
      <4>1. PICK v \in Versions, p \in Paths : y = t[v][p]
        OBVIOUS
      <4>2. <<v, p>> \in Versions \X Paths /\ f[<<v, p>>] = y
        BY <2>1, <4>1
      <4> HIDE DEF f
      <4> QED
        BY <4>2
    <3> HIDE DEF f, T
    <3> QED
      BY <3>1, <3>2 DEF Surjection
  <2>3. /\ IsFiniteSet(Versions \X Paths)
        /\ Cardinality(Versions \X Paths) = m
    BY <1>1, FS_Product
  <2> HIDE DEF f, T
  <2> QED
    BY <2>2, <2>3, FS_Surjection
<1>4. m \in Nat
  BY <1>1
<1>5. Linked(t, b) = B \cup T
  BY DEF Linked
<1>6. Inodes = 1 .. m + n + 1
  BY DEF Inodes
<1> HIDE DEF B, T, m, n
<1>7. IsFiniteSet(B \cup T) /\ Cardinality(B \cup T) <= m + n
  <2>1. /\ IsFiniteSet(B \cup T)
        /\ Cardinality(B \cup T) = Cardinality(B) + Cardinality(T) - Cardinality(B \cap T)
    BY <1>2, <1>3, FS_Union
  <2>2. /\ Cardinality(B) \in Nat /\ Cardinality(T) \in Nat
        /\ Cardinality(B \cap T) \in Nat
    BY <1>2, <1>3, FS_CardinalityType, FS_Intersection
  <2> QED
    BY <1>1, <1>2, <1>3, <1>4, <2>1, <2>2
<1>8. Cardinality(1 .. m + n + 1) = m + n + 1
  BY <1>1, <1>4, FS_Interval
<1> QED
  <2> SUFFICES ASSUME 1 .. m + n + 1 \subseteq B \cup T PROVE FALSE
    BY <1>5, <1>6
  <2>1. Cardinality(1 .. m + n + 1) <= Cardinality(B \cup T)
    BY <1>7, FS_Subset
  <2>2. Cardinality(B \cup T) \in Nat
    BY <1>7, FS_CardinalityType
  <2> QED
    BY <1>1, <1>4, <1>7, <1>8, <2>1, <2>2

\* The inode of a new file has no other name.
LEMMA FreshIsFree == ASSUME TypeOK PROVE FreshInode \in Inodes \ Linked(tree, blob)
<1>1. Inodes \ Linked(tree, blob) # {}
  BY InodesSuffice DEF TypeOK
<1>2. Inodes \subseteq Nat
  BY DEF Inodes
<1> QED
  BY <1>1, <1>2, Smallest DEF FreshInode

\* An inode that stays linked keeps its bytes unless they are written.
LEMMA Stored ==
  ASSUME NEW t \in [Versions -> [Paths -> Inodes \cup {None}]],
         NEW b \in [Contents -> Inodes \cup {None}],
         NEW d \in [Inodes -> Bytes],
         Store(t, b, d)
  PROVE  /\ tree' = t /\ blob' = b /\ data' \in [Inodes -> Bytes]
         /\ \A i \in Inodes : i \in Linked(t, b) => data'[i] = d[i]
  BY DEF Store, Bytes

Has(x, S) == IF x \in S THEN 1 ELSE 0

\* What a set counts, apart from one element.
LEMMA Apart ==
  ASSUME NEW S, NEW x, IsFiniteSet(S)
  PROVE  /\ Cardinality(S) = Cardinality(S \ {x}) + Has(x, S)
         /\ IsFiniteSet(S \ {x}) /\ Cardinality(S \ {x}) \in Nat
<1>1. /\ IsFiniteSet(S \ {x})
      /\ Cardinality(S \ {x}) = IF x \in S THEN Cardinality(S) - 1 ELSE Cardinality(S)
  BY FS_RemoveElement
<1>2. Cardinality(S) \in Nat /\ Cardinality(S \ {x}) \in Nat
  BY <1>1, FS_CardinalityType
<1> QED
  BY <1>1, <1>2 DEF Has

\* Counts of two sets, each of which changes in one element.
LEMMA Balance ==
  ASSUME NEW S, NEW S2, NEW x, IsFiniteSet(S), IsFiniteSet(S2), S2 \ {x} \subseteq S,
         NEW T, NEW T2, NEW y, IsFiniteSet(T), IsFiniteSet(T2), T2 \ {y} \subseteq T,
         NEW m \in Nat, NEW n \in Nat, m >= Cardinality(S) + Cardinality(T),
         n + Has(x, S) + Has(y, T) >= m + Has(x, S2) + Has(y, T2)
  PROVE  n >= Cardinality(S2) + Cardinality(T2)
<1>1. /\ Cardinality(S2 \ {x}) <= Cardinality(S \ {x})
      /\ Cardinality(T2 \ {y}) <= Cardinality(T \ {y})
  BY Apart, FS_Subset
<1>2. \A z, R : Has(z, R) \in 0 .. 1
  BY DEF Has
<1> QED
  BY <1>1, <1>2, Apart

-----------------------------------------------------------------------------
(* Who works on a version.                                                 *)

\* No request works on a version that is published.
LEMMA PublishedIsIdle ==
  ASSUME TypeOK, WorkInv, NEW k \in Clients, Working(k)
  PROVE  op[k] \in Requests /\ status[op[k].version] # "published"
<1> DEFINE r == op[k]
<1>1. r \in Requests /\ r.kind \in Kinds /\ r.kind # "sweep" /\ status[r.version] \in Relied(r)
  BY DEF TypeOK, WorkInv, Working, Requests
<1> HIDE DEF r
<1>2. "published" \notin Relied(r)
  BY <1>1 DEF Kinds, Relied, From
<1> QED
  BY <1>1, <1>2 DEF r

\* A request goes on with its version.
LEMMA GoesOn ==
  ASSUME TypeOK, WorkInv, NEW k \in Clients, Working(k), NEW r,
         op' = [op EXCEPT ![k] = r], UNCHANGED status,
         WellFormed(r), r.step \notin {"row", "prune"},
         r.kind = op[k].kind, r.version = op[k].version,
         \A v \in Range(r.victims) : v \in Range(op[k].victims)
  PROVE  WorkInv'
  BY DEF TypeOK, WorkInv, Working, Waiting, Relied

\* A request ends.
LEMMA Ends ==
  ASSUME TypeOK, WorkInv, NEW k \in Clients, op' = [op EXCEPT ![k] = None], UNCHANGED status
  PROVE  WorkInv'
  BY DEF TypeOK, WorkInv, Working, Waiting

\* A request begins with a version that nobody else is at.
LEMMA Begins ==
  ASSUME TypeOK, WorkInv, Exclusive, NEW k \in Clients, NEW v \in Versions, MayTouch(k, v),
         NEW r, op' = [op EXCEPT ![k] = r], UNCHANGED status, op[k] = None,
         WellFormed(r), r.kind # "sweep", r.version = v, r.victims = <<>>,
         r.step # "row" => status[v] \in Relied(r)
  PROVE  WorkInv'
<1>1. Range(r.victims) = {}
  BY DEF Range
<1> QED
  BY <1>1 DEF TypeOK, WorkInv, Working, Waiting, MayTouch

\* A request has versions to delete: those that it had, and published ones.
LEMMA Queues ==
  ASSUME TypeOK, WorkInv, NEW k \in Clients, NEW vs \in Seq(Versions),
         op' = [op EXCEPT ![k] = Deleting(vs)], UNCHANGED status,
         \A v \in Range(vs) : Waiting(k, v) \/ status[v] = "published"
  PROVE  WorkInv'
<1>1. CASE vs = <<>>
  BY <1>1, Ends DEF Deleting
<1>2. CASE vs # <<>>
  <2> DEFINE r == Deleting(vs)
  <2>1. Head(vs) \in Versions /\ Tail(vs) \in Seq(Versions)
    BY <1>2
  <2>2. /\ r.kind = "delete" /\ r.step = "row" /\ r.version = Head(vs)
        /\ r.victims = Tail(vs)
    BY <1>2 DEF Deleting, Request
  <2>3. WellFormed(r)
    BY <2>1, <2>2 DEF WellFormed, StepsOf
  <2>4. \A v : v = Head(vs) \/ v \in Range(Tail(vs)) => v \in Range(vs)
    BY <1>2 DEF Range
  <2> HIDE DEF r
  <2>5. op' = [op EXCEPT ![k] = r]
    BY DEF r
  <2>6. op'[k] = r /\ \A j \in Clients : j # k => op'[j] = op[j]
    BY <2>5 DEF TypeOK
  <2>7. ~Working(k)'
    BY <2>2, <2>6 DEF Working
  <2>8. \A j \in Clients : j # k => /\ Working(j)' <=> Working(j)
                                    /\ \A v : Waiting(j, v)' <=> Waiting(j, v)
    BY <2>6 DEF Working, Waiting
  <2>9. ASSUME NEW j \in Clients, j # k, Working(j), Waiting(k, op[j].version)'
        PROVE  op[j].kind = "delete"
    <3>1. Waiting(k, op[j].version) \/ status[op[j].version] = "published"
      BY <2>2, <2>4, <2>6, <2>9 DEF Waiting
    <3> QED
      BY <2>9, <3>1, PublishedIsIdle DEF WorkInv
  <2> QED
    BY <2>3, <2>6, <2>7, <2>8, <2>9 DEF WorkInv
<1> QED
  BY <1>1, <1>2

-----------------------------------------------------------------------------
(* What a step leaves of the files and of the counts.                      *)

Trees == [Versions -> [Paths -> Inodes \cup {None}]]

\* What stays linked keeps its bytes.
Kept == \A i \in Inodes :
          i \in Linked(tree, blob) /\ i \in Linked(tree', blob') => data'[i] = data[i]

\* A path that keeps its inode keeps its content.
LEMMA SameContent ==
  ASSUME tree \in Trees, tree' \in Trees, Kept, NEW v \in Versions, NEW p \in Paths,
         tree'[v][p] = tree[v][p]
  PROVE  Content(v)'[p] = Content(v)[p]
<1>1. tree[v][p] \in Linked(tree, blob) /\ tree[v][p] \in Linked(tree', blob')
  BY DEF Linked
<1>2. tree[v][p] = None \/ tree[v][p] \in Inodes
  BY DEF Trees
<1> QED
  BY <1>1, <1>2 DEF Kept, Content

\* A request changes no file but those of the version it works on, which is
\* not one that has left the draft.
LEMMA OthersKeepFiles ==
  ASSUME TypeOK, WorkInv, FileInv, NonDraftIsImmutable, Kept, tree' \in Trees,
         UNCHANGED <<status, frozen>>,
         NEW k \in Clients, NEW r, op' = [op EXCEPT ![k] = r],
         \A v \in Versions :
            \/ tree'[v] = tree[v]
            \/ Working(k) /\ op[k].version = v /\ status[v] \in {"none", "draft"},
         r # None =>
            /\ r.step = "unlink" => /\ tree'[r.version][r.path] # None
                                    /\ data'[tree'[r.version][r.path]] = r.found
            /\ r.step = "link" => tree'[r.version][r.path] = None
  PROVE  FileInv' /\ NonDraftIsImmutable'
<1>1. tree \in Trees
  BY DEF TypeOK, Trees
<1>2. op'[k] = r /\ \A j \in Clients : j # k => op'[j] = op[j]
  BY DEF TypeOK
<1>3. ASSUME NEW j \in Clients, j # k, op[j] # None, op[j].step \in {"unlink", "link"}
      PROVE  /\ op[j].step = "unlink" =>
                  /\ tree'[op[j].version][op[j].path] # None
                  /\ data'[tree'[op[j].version][op[j].path]] = op[j].found
             /\ op[j].step = "link" => tree'[op[j].version][op[j].path] = None
  <2>1. WellFormed(op[j]) /\ op[j].kind # "sweep"
    BY <1>3 DEF WorkInv, WellFormed, StepsOf
  <2>2. Working(j) /\ op[j].version \in Versions /\ op[j].path \in Paths
    BY <1>3, <2>1 DEF WellFormed, Working
  <2>3. PICK v \in Versions, p \in Paths : v = op[j].version /\ p = op[j].path
    BY <2>2
  <2>4. tree'[v] = tree[v]
    BY <1>3, <2>2, <2>3 DEF WorkInv
  <2>5. Content(v)'[p] = Content(v)[p]
    BY <1>1, <2>4, SameContent
  <2>6. tree[v][p] # None => data'[tree[v][p]] = data[tree[v][p]]
    BY <2>4, <2>5 DEF Content
  <2> QED
    BY <1>3, <2>3, <2>4, <2>6 DEF FileInv
<1>4. FileInv'
  BY <1>2, <1>3 DEF FileInv
<1>5. ASSUME NEW v \in Versions, status[v] \notin {"none", "draft"}
      PROVE  Content(v)' = Content(v)
  <2>1. \A p \in Paths : Content(v)'[p] = Content(v)[p]
    BY <1>1, <1>5, SameContent
  <2> QED
    BY <2>1 DEF Content
<1>6. NonDraftIsImmutable'
  BY <1>5 DEF NonDraftIsImmutable
<1> QED
  BY <1>4, <1>6

\* Links and claims can be counted.
LEMMA Finite ==
  ASSUME NEW c
  PROVE  /\ IsFiniteSet(Links(c)) /\ IsFiniteSet(Claimants(c))
         /\ IsFiniteSet(Links(c)') /\ IsFiniteSet(Claimants(c)')
<1>1. IsFiniteSet(Versions \X Paths) /\ IsFiniteSet(Clients)
  BY FiniteAssumption, FS_Product
<1>2. /\ Links(c) \subseteq Versions \X Paths /\ Links(c)' \subseteq Versions \X Paths
      /\ Claimants(c) \subseteq Clients /\ Claimants(c)' \subseteq Clients
  BY DEF Links, Claimants
<1> QED
  BY <1>1, <1>2, FS_Subset

\* The counts after a step that changes one file and one request.
LEMMA Counts ==
  ASSUME TypeOK, CountInv, Kept, tree' \in Trees, ref' \in [Contents -> Nat],
         NEW k \in Clients, NEW r, op' = [op EXCEPT ![k] = r], NEW f \in Versions \X Paths,
         \A g \in (Versions \X Paths) \ {f} : tree'[g[1]][g[2]] = tree[g[1]][g[2]],
         NEW c \in Contents,
         ref'[c] + Has(f, Links(c)) + Has(k, Claimants(c))
           >= ref[c] + Has(f, Links(c)') + Has(k, Claimants(c)')
  PROVE  ref'[c] >= Cardinality(Links(c)') + Cardinality(Claimants(c)')
<1>1. tree \in Trees
  BY DEF TypeOK, Trees
<1>2. Links(c)' \ {f} \subseteq Links(c)
  <2> SUFFICES ASSUME NEW g \in Links(c)', g # f PROVE g \in Links(c)
    OBVIOUS
  <2>1. g \in Versions \X Paths /\ Content(g[1])'[g[2]] = c
    BY DEF Links
  <2>2. Content(g[1])'[g[2]] = Content(g[1])[g[2]]
    BY <1>1, <2>1, SameContent
  <2> QED
    BY <2>1, <2>2 DEF Links
<1>3. Claimants(c)' \ {k} \subseteq Claimants(c)
  BY DEF TypeOK, Claimants, Claims
<1>4. /\ ref[c] \in Nat /\ ref'[c] \in Nat
      /\ ref[c] >= Cardinality(Links(c)) + Cardinality(Claimants(c))
  BY BoundAssumption DEF TypeOK, CountInv
<1> DEFINE S == Links(c)
           S2 == Links(c)'
           T == Claimants(c)
           T2 == Claimants(c)'
           m == ref[c]
           n == ref'[c]
<1>5. IsFiniteSet(S) /\ IsFiniteSet(S2) /\ IsFiniteSet(T) /\ IsFiniteSet(T2)
  BY Finite
<1>6. /\ S2 \ {f} \subseteq S /\ T2 \ {k} \subseteq T /\ m \in Nat /\ n \in Nat
      /\ m >= Cardinality(S) + Cardinality(T)
      /\ n + Has(f, S) + Has(k, T) >= m + Has(f, S2) + Has(k, T2)
  BY <1>2, <1>3, <1>4
<1> SUFFICES n >= Cardinality(S2) + Cardinality(T2)
  OBVIOUS
<1> HIDE DEF S, S2, T, T2, m, n
<1> QED
  BY <1>5, <1>6, Balance

\* Files and requests that go away need no count.
LEMMA CountsShrink ==
  ASSUME TypeOK, CountInv, Kept, tree' \in Trees, UNCHANGED ref,
         NEW k \in Clients, NEW r, op' = [op EXCEPT ![k] = r],
         \A v \in Versions, p \in Paths : tree'[v][p] \in {tree[v][p], None},
         r # None => r.step \notin {"clear", "deref"}
                     /\ (r.step = "link" => op[k] # None /\ op[k].step = "clear"
                                            /\ op[k].content = r.content)
  PROVE  CountInv'
<1>1. tree \in Trees
  BY DEF TypeOK, Trees
<1> SUFFICES ASSUME NEW c \in Contents
             PROVE  ref'[c] >= Cardinality(Links(c)') + Cardinality(Claimants(c)')
  BY DEF CountInv
<1>2. Links(c)' \subseteq Links(c)
  <2> SUFFICES ASSUME NEW g \in Links(c)' PROVE g \in Links(c)
    OBVIOUS
  <2>1. g \in Versions \X Paths /\ Content(g[1])'[g[2]] = c /\ c # None
    BY ContentAssumption DEF Links
  <2>2. tree'[g[1]][g[2]] = tree[g[1]][g[2]]
    BY <2>1 DEF Content
  <2>3. Content(g[1])'[g[2]] = Content(g[1])[g[2]]
    BY <1>1, <2>1, <2>2, SameContent
  <2> QED
    BY <2>1, <2>3 DEF Links
<1>3. Claimants(c)' \subseteq Claimants(c)
  BY DEF TypeOK, Claimants, Claims
<1>4. /\ Cardinality(Links(c)') <= Cardinality(Links(c))
      /\ Cardinality(Claimants(c)') <= Cardinality(Claimants(c))
      /\ Cardinality(Links(c)') \in Nat /\ Cardinality(Links(c)) \in Nat
      /\ Cardinality(Claimants(c)') \in Nat /\ Cardinality(Claimants(c)) \in Nat
  BY <1>2, <1>3, Finite, FS_Subset, FS_CardinalityType
<1>5. /\ ref'[c] = ref[c] /\ ref[c] \in Nat
      /\ ref[c] >= Cardinality(Links(c)) + Cardinality(Claimants(c))
  BY BoundAssumption DEF TypeOK, CountInv
<1> QED
  BY <1>4, <1>5

-----------------------------------------------------------------------------
(* Steps that write neither a row nor a file.                              *)

\* A new request.
LEMMA Requested ==
  ASSUME NEW kind \in Kinds, NEW step \in Steps, NEW v \in Versions \cup {None}
  PROVE  LET r == Request(kind, step, v)
         IN  /\ r \in Requests /\ r.kind = kind /\ r.step = step /\ r.version = v
             /\ r.path = None /\ r.content = None /\ r.found = None /\ r.victims = <<>>
  BY DEF Request, Requests

\* The next version to delete.
LEMMA Deletion ==
  ASSUME NEW vs \in Seq(Versions), vs # <<>>
  PROVE  LET r == Deleting(vs)
         IN  /\ r \in Requests /\ r.kind = "delete" /\ r.step = "row"
             /\ r.version = Head(vs) /\ r.victims = Tail(vs)
<1> DEFINE q == Request("delete", "row", Head(vs))
           r == [q EXCEPT !.victims = Tail(vs)]
<1>1. Head(vs) \in Versions /\ Tail(vs) \in Seq(Versions)
  OBVIOUS
<1>2. q \in Requests /\ q.kind = "delete" /\ q.step = "row" /\ q.version = Head(vs)
  BY <1>1, Requested DEF Kinds, Steps
<1>3. Deleting(vs) = r
  BY DEF Deleting
<1> HIDE DEF q
<1> QED
  BY <1>1, <1>2, <1>3 DEF Requests

\* Only the request k changes, and it takes on no count.
LEMMA Quiet ==
  ASSUME IndInv, WorkInv', NEW k \in Clients, NEW r \in Requests \cup {None},
         op' = [op EXCEPT ![k] = r], UNCHANGED <<rowVars, fileVars, ref>>,
         r # None =>
            /\ r.step \notin {"clear", "deref", "link"}
            /\ r.step = "unlink" => /\ tree[r.version][r.path] # None
                                    /\ data[tree[r.version][r.path]] = r.found
  PROVE  IndInv'
<1>1. UNCHANGED <<status, older, frozen, tree, data, blob, ref>>
  BY DEF rowVars, fileVars
<1>2. Kept /\ tree' \in Trees
  BY <1>1 DEF IndInv, TypeOK, Kept, Trees
<1>3. TypeOK'
  BY <1>1 DEF IndInv, TypeOK
<1>4. FileInv' /\ NonDraftIsImmutable'
  BY <1>1, <1>2, OthersKeepFiles DEF IndInv
<1>5. CountInv'
  BY <1>1, <1>2, CountsShrink DEF IndInv
<1>6. BlobsAreIntact'
  BY <1>1 DEF IndInv, BlobsAreIntact
<1> QED
  BY <1>3, <1>4, <1>5, <1>6 DEF IndInv

\* A request to submit, reject or publish starts with the status it has read.
LEMMA ReviewStep ==
  ASSUME IndInv, Exclusive, NEW k \in Clients, NEW v \in Versions,
         NEW kind \in {"submit", "reject", "publish"}, Review(k, v, kind)
  PROVE  IndInv'
<1> DEFINE r == Request(kind, "commit", v)
<1>1. r \in Requests /\ r.kind = kind /\ r.step = "commit" /\ r.version = v /\ r.victims = <<>>
  BY DEF Request, Requests, Kinds, Steps
<1> HIDE DEF r
<1>2. WellFormed(r) /\ status[v] \in Relied(r)
  BY <1>1 DEF WellFormed, StepsOf, Relied, Review
<1>3. op[k] = None /\ op' = [op EXCEPT ![k] = r] /\ UNCHANGED <<rowVars, fileVars, ref>>
  BY DEF Review, Begin, r
<1>4. WorkInv'
  BY <1>1, <1>2, <1>3, Begins DEF IndInv, Review, rowVars
<1> QED
  BY <1>1, <1>3, <1>4, Quiet

\* A delete starts with a version that nobody else works on.
LEMMA StartDeleteStep ==
  ASSUME IndInv, Exclusive, NEW k \in Clients, NEW v \in Versions, StartDelete(k, v)
  PROVE  IndInv'
<1> DEFINE r == Deleting(<<v>>)
<1>1. /\ r \in Requests /\ r.kind = "delete" /\ r.step = "row" /\ r.version = v
      /\ r.victims = <<>>
  <2>1. <<v>> \in Seq(Versions) /\ <<v>> # <<>> /\ Head(<<v>>) = v /\ Tail(<<v>>) = <<>>
    OBVIOUS
  <2> QED
    BY <2>1, Deletion
<1> HIDE DEF r
<1>2. WellFormed(r)
  BY <1>1 DEF WellFormed, StepsOf
<1>3. op[k] = None /\ op' = [op EXCEPT ![k] = r] /\ UNCHANGED <<rowVars, fileVars, ref>>
  BY DEF StartDelete, Begin, r
<1>4. WorkInv'
  BY <1>1, <1>2, <1>3, Begins DEF IndInv, StartDelete, rowVars
<1> QED
  BY <1>1, <1>3, <1>4, Quiet

\* So does an upload, with a draft.
LEMMA StartUploadStep ==
  ASSUME IndInv, Exclusive, NEW k \in Clients, NEW v \in Versions, StartUpload(k, v)
  PROVE  IndInv'
<1> DEFINE r == Request("upload", "check", v)
<1>1. /\ r \in Requests /\ r.kind = "upload" /\ r.step = "check" /\ r.version = v
      /\ r.victims = <<>>
  BY DEF Request, Requests, Kinds, Steps
<1> HIDE DEF r
<1>2. WellFormed(r) /\ status[v] \in Relied(r)
  BY <1>1 DEF WellFormed, StepsOf, Relied, StartUpload, Mutable
<1>3. op[k] = None /\ op' = [op EXCEPT ![k] = r] /\ UNCHANGED <<rowVars, fileVars, ref>>
  BY DEF StartUpload, Begin, r
<1>4. WorkInv'
  BY <1>1, <1>2, <1>3, Begins DEF IndInv, StartUpload, rowVars
<1> QED
  BY <1>1, <1>3, <1>4, Quiet

\* So does the removal of a file, from a draft.
LEMMA StartRemoveStep ==
  ASSUME IndInv, Exclusive, NEW k \in Clients, NEW v \in Versions, NEW p \in Paths,
         StartRemove(k, v, p)
  PROVE  IndInv'
<1> DEFINE r == [Request("remove", "check", v) EXCEPT !.path = p]
<1>1. /\ r \in Requests /\ r.kind = "remove" /\ r.step = "check" /\ r.version = v
      /\ r.victims = <<>> /\ r.path = p
  <2> DEFINE q == Request("remove", "check", v)
  <2>1. /\ q \in Requests /\ q.kind = "remove" /\ q.step = "check" /\ q.version = v
        /\ q.victims = <<>>
    BY Requested DEF Kinds, Steps
  <2> HIDE DEF q
  <2>2. r = [q EXCEPT !.path = p]
    BY DEF q
  <2> HIDE DEF r
  <2> QED
    BY <2>1, <2>2 DEF Requests
<1> HIDE DEF r
<1>2. WellFormed(r) /\ status[v] \in Relied(r)
  BY <1>1 DEF WellFormed, StepsOf, Relied, StartRemove, Mutable
<1>3. op[k] = None /\ op' = [op EXCEPT ![k] = r] /\ UNCHANGED <<rowVars, fileVars, ref>>
  BY DEF StartRemove, Begin, r
<1>4. WorkInv'
  BY <1>1, <1>2, <1>3, Begins DEF IndInv, StartRemove, rowVars
<1> QED
  BY <1>1, <1>3, <1>4, Quiet

\* A sweep works on blobs, and on no version.
LEMMA StartSweepStep ==
  ASSUME IndInv, NEW k \in Clients, NEW c \in Contents, StartSweep(k, c)
  PROVE  IndInv'
<1> DEFINE r == [Request("sweep", "unblob", None) EXCEPT !.found = c]
<1>1. /\ r \in Requests /\ r.kind = "sweep" /\ r.step = "unblob" /\ r.victims = <<>>
      /\ r.found = c
  <2> DEFINE q == Request("sweep", "unblob", None)
  <2>1. q \in Requests /\ q.kind = "sweep" /\ q.step = "unblob" /\ q.victims = <<>>
    BY Requested DEF Kinds, Steps
  <2> HIDE DEF q
  <2>2. r = [q EXCEPT !.found = c]
    BY DEF q
  <2> HIDE DEF r
  <2> QED
    BY <2>1, <2>2 DEF Requests, Bytes
<1> HIDE DEF r
<1>2. WellFormed(r)
  BY <1>1 DEF WellFormed, StepsOf
<1>3. op[k] = None /\ op' = [op EXCEPT ![k] = r] /\ UNCHANGED <<rowVars, fileVars, ref>>
  BY DEF StartSweep, Begin, r
<1>4. WorkInv'
  BY <1>1, <1>2, <1>3 DEF IndInv, TypeOK, WorkInv, Working, Waiting, rowVars, Range
<1> QED
  BY <1>1, <1>3, <1>4, Quiet

\* A request that ends gives its claim up; its count may stay too high.
LEMMA FinishStep == ASSUME IndInv, NEW k \in Clients, Finish(k) PROVE IndInv'
<1>1. op' = [op EXCEPT ![k] = None] /\ UNCHANGED <<rowVars, fileVars, ref>>
  BY DEF Finish, End
<1>2. WorkInv'
  BY <1>1, Ends DEF IndInv, rowVars
<1> QED
  BY <1>1, <1>2, Quiet

\* A request is left with versions to delete, and writes nothing.
LEMMA QueueStep ==
  ASSUME IndInv, NEW k \in Clients, NEW vs \in Seq(Versions),
         op' = [op EXCEPT ![k] = Deleting(vs)], UNCHANGED <<rowVars, fileVars, ref>>,
         \A v \in Range(vs) : Waiting(k, v) \/ status[v] = "published"
  PROVE  IndInv'
<1>1. WorkInv'
  BY Queues DEF IndInv, rowVars
<1> DEFINE r == Deleting(vs)
<1>2. r = None \/ (r \in Requests /\ r.step = "row")
  BY Deletion DEF Deleting
<1> HIDE DEF r
<1>3. op' = [op EXCEPT ![k] = r]
  BY DEF r
<1> QED
  BY <1>1, <1>2, <1>3, Quiet

\* A prune comes to versions that it does not work on yet.
LEMMA PruneStep == ASSUME IndInv, NEW k \in Clients, Prune(k) PROVE IndInv'
<1>1. PICK n \in Retentions, vs \in UNION {Prunable(m) : m \in Retentions} :
        vs \in Prunable(n) /\ op' = [op EXCEPT ![k] = Deleting(vs)]
  BY DEF Prune
<1> DEFINE S == Outdated(n)
           D == 1 .. Cardinality(S)
<1>2. S \subseteq Versions /\ \A v \in S : status[v] = "published"
  BY DEF Outdated
<1>3. vs \in [D -> S]
  BY <1>1 DEF Prunable, SetToSeqs
<1> HIDE DEF S
<1>4. Cardinality(S) \in Nat
  BY <1>2, FiniteAssumption, FS_Subset, FS_CardinalityType
<1>5. vs \in Seq(S)
  BY <1>3, <1>4, SeqDef
<1>6. vs \in Seq(Versions) /\ \A v \in Range(vs) : status[v] = "published"
  BY <1>2, <1>3, <1>5 DEF Range
<1> QED
  BY <1>1, <1>6, QueueStep DEF Prune

\* A delete that is refused goes on with the next victim.
LEMMA DeleteRefusedStep == ASSUME IndInv, NEW k \in Clients, DeleteRefused(k) PROVE IndInv'
<1>1. UNCHANGED <<rowVars, fileVars, ref>> /\ op[k] # None /\ op[k] \in Requests
  BY DEF DeleteRefused, At, IndInv, TypeOK
<1>2. CASE status[op[k].version] = "none"
  <2>1. op' = [op EXCEPT ![k] = None]
    BY <1>2 DEF DeleteRefused
  <2>2. WorkInv'
    BY <1>1, <2>1, Ends DEF IndInv, rowVars
  <2> QED
    BY <1>1, <2>1, <2>2, Quiet
<1>3. CASE status[op[k].version] # "none"
  <2>1. PICK vs \in Seq(Versions) : vs = op[k].victims
    BY <1>1 DEF Requests
  <2>2. op' = [op EXCEPT ![k] = Deleting(vs)]
    BY <1>3, <2>1 DEF DeleteRefused
  <2>3. \A v \in Range(vs) : Waiting(k, v)
    BY <1>1, <2>1 DEF Waiting
  <2> QED
    BY <1>1, <2>2, <2>3, QueueStep
<1> QED
  BY <1>2, <1>3

\* The second look at the status finds the draft that the first one found.
LEMMA CheckStep == ASSUME IndInv, NEW k \in Clients, Check(k) PROVE IndInv'
<1> DEFINE r == [op[k] EXCEPT !.step = "next"]
<1>1. UNCHANGED <<rowVars, fileVars, ref>> /\ op[k] # None /\ op[k] \in Requests
  BY DEF Check, At, IndInv, TypeOK
<1>2. WellFormed(op[k]) /\ op[k].step = "check"
  BY <1>1 DEF Check, At, IndInv, WorkInv
<1>3. op[k].kind \in {"upload", "remove"}
  BY <1>1, <1>2 DEF WellFormed, StepsOf
<1>4. CASE op' = [op EXCEPT ![k] = None]
  <2>1. WorkInv'
    BY <1>1, <1>4, Ends DEF IndInv, rowVars
  <2> QED
    BY <1>1, <1>4, <2>1, Quiet
<1>5. CASE op' = [op EXCEPT ![k] = r]
  <2>1. /\ r \in Requests /\ r.step = "next" /\ r.kind = op[k].kind
        /\ r.version = op[k].version /\ r.victims = op[k].victims /\ r.path = op[k].path
    BY <1>1 DEF Requests, Steps
  <2> HIDE DEF r
  <2>2. WellFormed(r)
    BY <1>2, <1>3, <2>1 DEF WellFormed, StepsOf
  <2>3. WorkInv'
    BY <1>1, <1>2, <1>3, <1>5, <2>1, <2>2, GoesOn DEF IndInv, rowVars, Working
  <2> QED
    BY <1>1, <1>5, <2>1, <2>3, Quiet
<1> QED
  BY <1>4, <1>5 DEF Check, Goto, End

\* A request starts on the next file, to release what is there or to ingest.
LEMMA FileBegins ==
  ASSUME IndInv, NEW k \in Clients, UNCHANGED <<rowVars, fileVars, ref>>,
         Working(k), NEW r \in Requests, op' = [op EXCEPT ![k] = r],
         WellFormed(r), r.kind = op[k].kind, r.version = op[k].version,
         r.victims = op[k].victims,
         \/ r.step = "ingest"
         \/ /\ r.step = "unlink" /\ tree[r.version][r.path] # None
            /\ r.found = data[tree[r.version][r.path]]
  PROVE  IndInv'
<1>1. WorkInv'
  BY GoesOn DEF IndInv, rowVars
<1> QED
  BY <1>1, Quiet

\* What Look finds.
LEMMA Looks ==
  ASSUME IndInv, NEW k \in Clients, op[k] \in Requests, op[k].version \in Versions,
         NEW p \in Paths, NEW o, tree[op[k].version][p] # None
  PROVE  LET r == Look(k, p, o)
         IN  /\ r \in Requests /\ r.step = "unlink" /\ r.path = p
             /\ r.kind = op[k].kind /\ r.version = op[k].version
             /\ r.victims = op[k].victims /\ r.content = op[k].content
             /\ r.found = data[tree[r.version][r.path]] /\ r.found \in Bytes
<1> DEFINE i == tree[op[k].version][p]
           r == [op[k] EXCEPT !.path = p, !.found = data[i], !.step = "unlink"]
<1>1. data[i] \in Bytes
  BY DEF IndInv, TypeOK
<1>2. Look(k, p, o) = r
  BY DEF Look
<1>3. /\ r \in Requests /\ r.step = "unlink" /\ r.path = p
      /\ r.kind = op[k].kind /\ r.version = op[k].version
      /\ r.victims = op[k].victims /\ r.content = op[k].content
      /\ r.found = data[i]
  BY <1>1 DEF Requests, Steps
<1> QED
  BY <1>1, <1>2, <1>3

\* The next file of an upload is replaced, or is new.
LEMMA NextEntryStep == ASSUME IndInv, NEW k \in Clients, NextEntry(k) PROVE IndInv'
<1>1. /\ UNCHANGED <<rowVars, fileVars, ref>> /\ op[k] # None /\ op[k] \in Requests
      /\ op[k].kind = "upload" /\ op[k].step = "next"
  BY DEF NextEntry, At, IndInv, TypeOK
<1>2. Working(k) /\ op[k].version \in Versions
  BY <1>1 DEF Working, IndInv, WorkInv, WellFormed
<1>3. PICK p \in Paths, c \in Contents :
        op' = [op EXCEPT ![k] = [Look(k, p, [op[k] EXCEPT !.path = p, !.step = "ingest"])
                                 EXCEPT !.content = c]]
  BY DEF NextEntry
<1> DEFINE o == [op[k] EXCEPT !.path = p, !.step = "ingest"]
           q == Look(k, p, o)
           r == [q EXCEPT !.content = c]
<1>4. /\ q \in Requests /\ q.path = p /\ q.kind = "upload" /\ q.version = op[k].version
      /\ q.victims = op[k].victims
      /\ \/ q.step = "ingest"
         \/ /\ q.step = "unlink" /\ tree[q.version][q.path] # None
            /\ q.found = data[tree[q.version][q.path]] /\ q.found \in Bytes
  <2>1. CASE tree[op[k].version][p] = None
    <3>1. q = o
      BY <2>1 DEF Look
    <3> QED
      BY <1>1, <3>1 DEF Requests, Steps
  <2>2. CASE tree[op[k].version][p] # None
    <3> HIDE DEF o
    <3> QED
      BY <1>1, <1>2, <2>2, Looks
  <2> QED
    BY <2>1, <2>2
<1> HIDE DEF q
<1>5. /\ r \in Requests /\ r.path = p /\ r.kind = "upload" /\ r.version = op[k].version
      /\ r.victims = op[k].victims /\ r.content = c /\ r.step = q.step /\ r.found = q.found
  BY <1>4 DEF Requests
<1>6. op' = [op EXCEPT ![k] = r]
  BY <1>3 DEF q
<1> HIDE DEF r
<1>7. WellFormed(r)
  BY <1>2, <1>4, <1>5 DEF WellFormed, StepsOf
<1> QED
  BY <1>1, <1>2, <1>4, <1>5, <1>6, <1>7, FileBegins

\* A removal takes a file that is there.
LEMMA NextRemovalStep == ASSUME IndInv, NEW k \in Clients, NextRemoval(k) PROVE IndInv'
<1>1. /\ UNCHANGED <<rowVars, fileVars, ref>> /\ op[k] # None /\ op[k] \in Requests
      /\ op[k].kind = "remove" /\ op[k].step = "next"
      /\ op' = [op EXCEPT ![k] = Look(k, op[k].path, None)]
  BY DEF NextRemoval, At, IndInv, TypeOK
<1>2. Working(k) /\ op[k].version \in Versions /\ op[k].path \in Paths
  BY <1>1 DEF Working, IndInv, WorkInv, WellFormed
<1> DEFINE r == Look(k, op[k].path, None)
<1>3. CASE tree[op[k].version][op[k].path] = None
  <2>1. op' = [op EXCEPT ![k] = None]
    BY <1>1, <1>3 DEF Look
  <2>2. WorkInv'
    BY <1>1, <2>1, Ends DEF IndInv, rowVars
  <2> QED
    BY <1>1, <2>1, <2>2, Quiet
<1>4. CASE tree[op[k].version][op[k].path] # None
  <2>1. PICK p \in Paths : p = op[k].path
    BY <1>2
  <2>2. /\ r \in Requests /\ r.step = "unlink" /\ r.path = p
        /\ r.kind = op[k].kind /\ r.version = op[k].version
        /\ r.victims = op[k].victims
        /\ r.found = data[tree[r.version][r.path]] /\ r.found \in Bytes
    BY <1>1, <1>2, <1>4, <2>1, Looks
  <2>3. op' = [op EXCEPT ![k] = r]
    BY <1>1
  <2> HIDE DEF r
  <2>4. WellFormed(r)
    BY <1>1, <1>2, <2>2 DEF WellFormed, StepsOf
  <2>5. tree[r.version][r.path] # None
    BY <1>4, <2>1, <2>2
  <2> QED
    BY <1>1, <1>2, <2>2, <2>3, <2>4, <2>5, FileBegins
<1> QED
  BY <1>3, <1>4

\* The walk over a deleted version takes a file that is there.
LEMMA NextOfWalkStep == ASSUME IndInv, NEW k \in Clients, NextOfWalk(k) PROVE IndInv'
<1>1. /\ UNCHANGED <<rowVars, fileVars, ref>> /\ op[k] # None /\ op[k] \in Requests
      /\ op[k].step = "walk"
  BY DEF NextOfWalk, At, IndInv, TypeOK
<1>2. WellFormed(op[k])
  BY <1>1 DEF IndInv, WorkInv
<1>3. op[k].kind = "delete"
  BY <1>1, <1>2 DEF WellFormed, StepsOf
<1>4. Working(k) /\ op[k].version \in Versions
  BY <1>1, <1>2, <1>3 DEF Working, WellFormed
<1>5. PICK p \in Paths : /\ tree[op[k].version][p] # None
                         /\ op' = [op EXCEPT ![k] = Look(k, p, op[k])]
  BY DEF NextOfWalk, Files
<1> DEFINE r == Look(k, p, op[k])
<1>6. /\ r \in Requests /\ r.step = "unlink" /\ r.path = p
      /\ r.kind = op[k].kind /\ r.version = op[k].version
      /\ r.victims = op[k].victims
      /\ r.found = data[tree[r.version][r.path]] /\ r.found \in Bytes
  <2> DEFINE o == op[k]
  <2>1. r = Look(k, p, o)
    OBVIOUS
  <2> HIDE DEF o, r
  <2> QED
    BY <1>1, <1>4, <1>5, <2>1, Looks
<1>7. op' = [op EXCEPT ![k] = r]
  BY <1>5
<1> HIDE DEF r
<1>8. WellFormed(r)
  BY <1>3, <1>4, <1>6 DEF WellFormed, StepsOf
<1> QED
  BY <1>1, <1>4, <1>5, <1>6, <1>7, <1>8, FileBegins

-----------------------------------------------------------------------------
(* Steps that write rows.                                                  *)

\* A row is written, and no file: the versions that are frozen hold what they
\* were frozen with.
LEMMA RowStep ==
  ASSUME IndInv, WorkInv', NEW k \in Clients, NEW r \in Requests \cup {None},
         op' = [op EXCEPT ![k] = r], UNCHANGED <<fileVars, ref>>,
         status' \in [Versions -> Statuses], older' \in [Versions -> SUBSET Versions],
         frozen' \in [Versions -> [Paths -> Bytes \cup {None}] \cup {None}],
         r # None => r.step \notin {"clear", "deref", "link", "unlink"},
         \A v \in Versions : status'[v] \notin {"none", "draft"} =>
            \/ status[v] \notin {"none", "draft"} /\ frozen'[v] = frozen[v]
            \/ frozen'[v] = Content(v)
  PROVE  IndInv'
<1>1. UNCHANGED <<tree, data, blob, ref>>
  BY DEF fileVars
<1>2. Kept /\ tree' \in Trees
  BY <1>1 DEF IndInv, TypeOK, Kept, Trees
<1>3. TypeOK'
  BY <1>1 DEF IndInv, TypeOK
<1>4. FileInv'
  BY <1>1 DEF IndInv, TypeOK, FileInv
<1>5. CountInv'
  BY <1>1, <1>2, CountsShrink DEF IndInv
<1>6. BlobsAreIntact'
  BY <1>1 DEF IndInv, BlobsAreIntact
<1>7. \A v \in Versions : Content(v)' = Content(v)
  BY <1>1 DEF Content
<1>8. NonDraftIsImmutable'
  BY <1>7 DEF IndInv, NonDraftIsImmutable
<1> QED
  BY <1>3, <1>4, <1>5, <1>6, <1>8 DEF IndInv

\* The content of a version is a file, or none, at each path.
LEMMA ContentType ==
  ASSUME IndInv, NEW v \in Versions
  PROVE  Content(v) \in [Paths -> Bytes \cup {None}]
  BY DEF IndInv, TypeOK, Content

\* A new row finds whatever a failed delete left in its directory.
LEMMA CreateVersionStep ==
  ASSUME IndInv, Exclusive, NEW k \in Clients, NEW v \in Versions, CreateVersion(k, v)
  PROVE  IndInv'
<1>1. /\ UNCHANGED <<older, frozen, fileVars, ref, op>> /\ op[k] = None /\ MayTouch(k, v)
      /\ status' = [status EXCEPT ![v] = "draft"]
  BY DEF CreateVersion
<1>2. op' = [op EXCEPT ![k] = None]
  BY <1>1 DEF IndInv, TypeOK
<1>3. \A j \in Clients : op[j] # None => op[j].version # v
  BY <1>1 DEF MayTouch
<1>4. WorkInv'
  <2>1. \A j \in Clients : Working(j)' <=> Working(j)
    BY <1>1 DEF Working
  <2>2. \A j \in Clients : \A u : Waiting(j, u)' <=> Waiting(j, u)
    BY <1>1 DEF Waiting
  <2>3. \A j \in Clients : Working(j) => status'[op[j].version] = status[op[j].version]
    BY <1>1, <1>3 DEF IndInv, TypeOK, Working
  <2> QED
    BY <1>1, <2>1, <2>2, <2>3 DEF IndInv, WorkInv
<1>5. status' \in [Versions -> Statuses] /\ \A u \in Versions : u # v => status'[u] = status[u]
  BY <1>1 DEF IndInv, TypeOK, Statuses
<1>6. status'[v] = "draft"
  BY <1>1 DEF IndInv, TypeOK
<1> QED
  BY <1>1, <1>2, <1>4, <1>5, <1>6, RowStep DEF IndInv, TypeOK

\* The request k has written the status of its version; nobody else works on it.
LEMMA StatusWritten ==
  ASSUME TypeOK, WorkInv, NEW k \in Clients, NEW r, op' = [op EXCEPT ![k] = r],
         op[k] # None, \A u \in Versions \ {op[k].version} : status'[u] = status[u],
         status' \in [Versions -> Statuses],
         Working(k) \/ (op[k].step = "row" /\ status[op[k].version] # "none"),
         r # None =>
            /\ WellFormed(r) /\ r.version = op[k].version
            /\ \A v \in Range(r.victims) : v \in Range(op[k].victims)
            /\ \/ r.step = "prune"
               \/ /\ op[k].step = "row" /\ r.kind = "delete" /\ r.step = "walk"
                  /\ status'[r.version] = "none"
  PROVE  WorkInv'
<1>1. op'[k] = r /\ \A j \in Clients : j # k => op'[j] = op[j]
  BY DEF TypeOK
<1>2. \A j \in Clients : j # k => /\ Working(j)' <=> Working(j)
                                  /\ \A v : Waiting(j, v)' <=> Waiting(j, v)
  BY <1>1 DEF Working, Waiting
<1>3. ASSUME NEW j \in Clients, j # k, Working(j) PROVE op[j].version # op[k].version
  <2>1. CASE Working(k)
    BY <1>3, <2>1 DEF WorkInv
  <2>2. CASE op[k].step = "row" /\ status[op[k].version] # "none"
    <3> SUFFICES ASSUME op[j].version = op[k].version PROVE FALSE
      OBVIOUS
    <3>1. op[j].kind = "delete"
      BY <1>3, <2>2 DEF WorkInv, Waiting
    <3> QED
      BY <1>3, <2>2, <3>1 DEF WorkInv, Relied
  <2> QED
    BY <2>1, <2>2
<1>4. ASSUME NEW j \in Clients, j # k, Working(j)
      PROVE  /\ op[j].version \in Versions
             /\ status'[op[j].version] = status[op[j].version]
  BY <1>3, <1>4 DEF WorkInv, Working, WellFormed
<1>5. \A j \in Clients : op'[j] # None => WellFormed(op'[j])
  BY <1>1 DEF WorkInv
<1>6. ASSUME NEW j \in Clients, Working(j)' PROVE status'[op'[j].version] \in Relied(op'[j])
  <2>1. CASE j = k
    BY <1>1, <1>6, <2>1 DEF Working, Relied
  <2>2. CASE j # k
    BY <1>1, <1>2, <1>4, <1>6, <2>2 DEF WorkInv
  <2> QED
    BY <2>1, <2>2
<1>7. ASSUME NEW i \in Clients, NEW j \in Clients, i # j, Working(j)'
      PROVE  /\ Working(i)' => op'[i].version # op'[j].version
             /\ Waiting(i, op[j].version)' => op'[j].kind = "delete"
  <2>1. CASE j = k
    BY <1>1, <1>2, <1>3, <1>7, <2>1 DEF Working
  <2>2. CASE i = k
    <3>1. Working(j) /\ op'[j] = op[j] /\ op[j].version # op[k].version
      BY <1>1, <1>2, <1>3, <1>7, <2>2
    <3>2. Waiting(k, op[j].version)' => Waiting(k, op[j].version)
      BY <1>1, <3>1 DEF Waiting
    <3> QED
      BY <1>1, <2>2, <3>1, <3>2, <1>7 DEF WorkInv, Working
  <2>3. CASE i # k /\ j # k
    BY <1>1, <1>2, <1>7, <2>3 DEF WorkInv
  <2> QED
    BY <2>1, <2>2, <2>3
<1> QED
  BY <1>5, <1>6, <1>7 DEF WorkInv

\* A request that commits a review, and the version that it is about.
LEMMA Committing ==
  ASSUME IndInv, NEW k \in Clients, At(k, "commit")
  PROVE  /\ op[k] # None /\ op[k] \in Requests /\ Working(k)
         /\ op[k].version \in Versions /\ op[k].kind \in {"submit", "reject", "publish"}
         /\ status[op[k].version] \in {"draft", "pending_review", "rejected"}
<1>1. op[k] # None /\ op[k] \in Requests /\ op[k].step = "commit" /\ op[k].kind \in Kinds
  BY DEF At, IndInv, TypeOK, Requests
<1>2. WellFormed(op[k])
  BY <1>1 DEF IndInv, WorkInv
<1>3. op[k].kind \in {"submit", "reject", "publish"}
  BY <1>1, <1>2 DEF WellFormed, StepsOf, Kinds
<1>4. Working(k) /\ op[k].version \in Versions
  BY <1>1, <1>2, <1>3 DEF Working, WellFormed
<1>5. status[op[k].version] \in From(op[k].kind)
  BY <1>3, <1>4 DEF IndInv, WorkInv, Relied
<1> QED
  BY <1>1, <1>3, <1>4, <1>5 DEF From

\* A submission or a rejection changes a status and no file.
LEMMA CommitReviewStep == ASSUME IndInv, NEW k \in Clients, CommitReview(k) PROVE IndInv'
<1>1. PICK v \in Versions : v = op[k].version
  BY Committing DEF CommitReview
<1>2. /\ op[k] # None /\ Working(k) /\ status[v] \in {"draft", "pending_review", "rejected"}
  BY <1>1, Committing DEF CommitReview
<1>3. PICK s \in {"pending_review", "rejected"} : status' = [status EXCEPT ![v] = s]
  BY <1>1, <1>2 DEF CommitReview
<1>4. /\ op' = [op EXCEPT ![k] = None] /\ UNCHANGED <<older, fileVars, ref>>
      /\ frozen' = IF status[v] = "draft" THEN [frozen EXCEPT ![v] = Content(v)] ELSE frozen
  BY <1>1 DEF CommitReview, End, Freeze
<1>5. status' \in [Versions -> Statuses] /\ \A u \in Versions \ {v} : status'[u] = status[u]
  BY <1>3 DEF IndInv, TypeOK, Statuses
<1>6. WorkInv'
  BY <1>1, <1>2, <1>4, <1>5, StatusWritten DEF IndInv
<1>7. frozen' \in [Versions -> [Paths -> Bytes \cup {None}] \cup {None}]
  BY <1>4, ContentType DEF IndInv, TypeOK
<1>8. \A u \in Versions : status'[u] \notin {"none", "draft"} =>
         \/ status[u] \notin {"none", "draft"} /\ frozen'[u] = frozen[u]
         \/ frozen'[u] = Content(u)
  BY <1>2, <1>4, <1>5 DEF IndInv, TypeOK
<1> QED
  BY <1>4, <1>5, <1>6, <1>7, <1>8, RowStep DEF IndInv, TypeOK

\* A publication freezes the files that are there.
LEMMA CommitPublishStep == ASSUME IndInv, NEW k \in Clients, CommitPublish(k) PROVE IndInv'
<1> DEFINE r == [op[k] EXCEPT !.step = "prune"]
<1>1. PICK v \in Versions : v = op[k].version
  BY Committing DEF CommitPublish
<1>2. /\ op[k] # None /\ Working(k) /\ op[k] \in Requests
      /\ status[v] \in {"draft", "pending_review", "rejected"} /\ op[k].kind = "publish"
  BY <1>1, Committing DEF CommitPublish
<1>3. /\ status' = [status EXCEPT ![v] = "published"] /\ older' = Published(v)
      /\ UNCHANGED <<fileVars, ref>>
      /\ frozen' = IF status[v] = "draft" THEN [frozen EXCEPT ![v] = Content(v)] ELSE frozen
  BY <1>1, <1>2 DEF CommitPublish, Freeze
<1>4. op' = [op EXCEPT ![k] = r]
  BY DEF CommitPublish, Goto
<1>5. /\ r \in Requests /\ r.step = "prune" /\ r.kind = "publish" /\ r.version = v
      /\ r.victims = op[k].victims
  BY <1>1, <1>2 DEF Requests, Steps
<1> HIDE DEF r
<1>6. WellFormed(r)
  BY <1>5 DEF WellFormed, StepsOf
<1>7. status' \in [Versions -> Statuses] /\ \A u \in Versions \ {v} : status'[u] = status[u]
  BY <1>3 DEF IndInv, TypeOK, Statuses
<1>8. WorkInv'
  BY <1>1, <1>2, <1>4, <1>5, <1>6, <1>7, StatusWritten DEF IndInv
<1>9. /\ frozen' \in [Versions -> [Paths -> Bytes \cup {None}] \cup {None}]
      /\ older' \in [Versions -> SUBSET Versions]
  BY <1>3, ContentType DEF IndInv, TypeOK, Published
<1>10. \A u \in Versions : status'[u] \notin {"none", "draft"} =>
         \/ status[u] \notin {"none", "draft"} /\ frozen'[u] = frozen[u]
         \/ frozen'[u] = Content(u)
  BY <1>2, <1>3, <1>7 DEF IndInv, TypeOK
<1> QED
  BY <1>3, <1>4, <1>5, <1>7, <1>8, <1>9, <1>10, RowStep

\* Once its row is gone, a version is frozen no more.
LEMMA DeleteRowStep == ASSUME IndInv, NEW k \in Clients, DeleteRow(k) PROVE IndInv'
<1> DEFINE r == [op[k] EXCEPT !.step = "walk"]
<1>1. /\ op[k] # None /\ op[k] \in Requests /\ op[k].step = "row" /\ WellFormed(op[k])
      /\ status[op[k].version] # "none"
  BY DEF DeleteRow, At, IndInv, TypeOK, WorkInv
<1>2. op[k].kind = "delete"
  BY <1>1 DEF WellFormed, StepsOf
<1>3. PICK v \in Versions : v = op[k].version
  BY <1>1, <1>2 DEF WellFormed
<1>4. /\ status' = [status EXCEPT ![v] = "none"] /\ older' = Forgotten(v)
      /\ frozen' = [frozen EXCEPT ![v] = None] /\ UNCHANGED <<fileVars, ref>>
  BY <1>3 DEF DeleteRow
<1>5. op' = [op EXCEPT ![k] = r]
  BY DEF DeleteRow, Goto
<1>6. /\ r \in Requests /\ r.step = "walk" /\ r.kind = "delete" /\ r.version = v
      /\ r.victims = op[k].victims
  BY <1>1, <1>2, <1>3 DEF Requests, Steps
<1> HIDE DEF r
<1>7. WellFormed(r)
  BY <1>6 DEF WellFormed, StepsOf
<1>8. /\ status' \in [Versions -> Statuses] /\ \A u \in Versions \ {v} : status'[u] = status[u]
      /\ status'[v] = "none"
  BY <1>4 DEF IndInv, TypeOK, Statuses
<1>9. WorkInv'
  BY <1>1, <1>3, <1>5, <1>6, <1>7, <1>8, StatusWritten DEF IndInv
<1>10. /\ frozen' \in [Versions -> [Paths -> Bytes \cup {None}] \cup {None}]
       /\ older' \in [Versions -> SUBSET Versions]
       /\ \A u \in Versions \ {v} : frozen'[u] = frozen[u]
  BY <1>4 DEF IndInv, TypeOK, Forgotten
<1> QED
  BY <1>4, <1>5, <1>6, <1>8, <1>9, <1>10, RowStep

-----------------------------------------------------------------------------
(* Steps that write files.                                                 *)

Blobs == [Contents -> Inodes \cup {None}]

\* Links are taken away or added, and no bytes are written.
LEMMA Relinked ==
  ASSUME IndInv, NEW t \in Trees, NEW b \in Blobs, Store(t, b, data),
         \A c \in Contents : b[c] \in {blob[c], None}
  PROVE  /\ tree' = t /\ blob' = b /\ data' \in [Inodes -> Bytes] /\ Kept /\ BlobsAreIntact'
         /\ \A i \in Inodes : i \in Linked(t, b) => data'[i] = data[i]
<1>1. /\ tree' = t /\ blob' = b /\ data' \in [Inodes -> Bytes]
      /\ \A i \in Inodes : i \in Linked(t, b) => data'[i] = data[i]
  BY DEF Store, IndInv, TypeOK, Bytes
<1>2. \A c \in Contents : b[c] \in Linked(t, b) /\ (b[c] = None \/ b[c] \in Inodes)
  BY DEF Linked, Blobs
<1>3. Kept
  BY <1>1 DEF Kept
<1>4. BlobsAreIntact'
  BY <1>1, <1>2 DEF IndInv, BlobsAreIntact
<1> QED
  BY <1>1, <1>3, <1>4

\* A new inode is written.
LEMMA Written ==
  ASSUME IndInv, NEW t \in Trees, NEW b \in Blobs, NEW n \in Inodes, n \notin Linked(tree, blob),
         NEW x \in Bytes, Store(t, b, [data EXCEPT ![n] = x]),
         \A c \in Contents : b[c] \in {blob[c], None} \/ (b[c] = n /\ x = c)
  PROVE  /\ tree' = t /\ blob' = b /\ data' \in [Inodes -> Bytes] /\ Kept /\ BlobsAreIntact'
         /\ n \in Linked(t, b) => data'[n] = x
<1> DEFINE d == [data EXCEPT ![n] = x]
<1>1. d \in [Inodes -> Bytes] /\ d[n] = x /\ \A i \in Inodes : i # n => d[i] = data[i]
  BY DEF IndInv, TypeOK
<1>2. Store(t, b, d)
  OBVIOUS
<1> HIDE DEF d
<1>3. /\ tree' = t /\ blob' = b /\ data' \in [Inodes -> Bytes]
      /\ \A i \in Inodes : i \in Linked(t, b) => data'[i] = d[i]
  BY <1>1, <1>2, Stored DEF Trees, Blobs
<1>4. /\ \A c \in Contents : b[c] \in Linked(t, b) /\ (b[c] = None \/ b[c] \in Inodes)
      /\ \A c \in Contents : blob[c] \in Linked(tree, blob)
  BY DEF Linked, Blobs
<1>5. Kept
  BY <1>1, <1>3 DEF Kept
<1>6. ASSUME NEW c \in Contents, b[c] # None PROVE data'[b[c]] = c
  <2>1. CASE b[c] = blob[c]
    <3>1. b[c] # n
      BY <1>4, <2>1
    <3> QED
      BY <1>1, <1>3, <1>4, <1>6, <2>1, <3>1 DEF IndInv, BlobsAreIntact
  <2>2. CASE b[c] = n /\ x = c
    BY <1>1, <1>3, <1>4, <2>2
  <2> QED
    BY <1>6, <2>1, <2>2
<1>7. BlobsAreIntact'
  BY <1>3, <1>6 DEF BlobsAreIntact
<1> QED
  BY <1>1, <1>3, <1>5, <1>7

\* A request writes files of the version it works on, or none of a version.
LEMMA FileStep ==
  ASSUME IndInv, WorkInv', CountInv', BlobsAreIntact', Kept, tree' \in Trees, blob' \in Blobs,
         data' \in [Inodes -> Bytes], ref' \in [Contents -> 0 .. MaxRef], UNCHANGED rowVars,
         NEW k \in Clients, NEW r \in Requests \cup {None}, op' = [op EXCEPT ![k] = r],
         \A v \in Versions :
            \/ tree'[v] = tree[v]
            \/ Working(k) /\ op[k].version = v /\ status[v] \in {"none", "draft"},
         r # None => /\ r.step # "unlink"
                     /\ r.step = "link" => tree'[r.version][r.path] = None
  PROVE  IndInv'
<1>1. UNCHANGED <<status, older, frozen>>
  BY DEF rowVars
<1>2. FileInv' /\ NonDraftIsImmutable'
  BY <1>1, OthersKeepFiles DEF IndInv
<1>3. TypeOK'
  BY <1>1 DEF IndInv, TypeOK, Trees, Blobs
<1> QED
  BY <1>2, <1>3 DEF IndInv

\* A request at work on its files: nobody relies on them being frozen.
LEMMA AtWork ==
  ASSUME IndInv, NEW k \in Clients, op[k] # None, op[k].kind \in {"upload", "remove", "delete"},
         op[k].step # "row"
  PROVE  /\ op[k] \in Requests /\ WellFormed(op[k]) /\ Working(k) /\ op[k].version \in Versions
         /\ status[op[k].version] \in {"none", "draft"}
<1>1. op[k] \in Requests /\ WellFormed(op[k])
  BY DEF IndInv, TypeOK, WorkInv
<1>2. op[k].step # "prune"
  BY <1>1 DEF WellFormed, StepsOf
<1>3. Working(k) /\ op[k].version \in Versions
  BY <1>1, <1>2 DEF Working, WellFormed
<1>4. status[op[k].version] \in Relied(op[k])
  BY <1>3 DEF IndInv, WorkInv
<1> QED
  BY <1>1, <1>3, <1>4 DEF Relied

\* The rest of the directory of a deleted version goes without being counted
\* down.
LEMMA RemoveAllStep == ASSUME IndInv, NEW k \in Clients, RemoveAll(k) PROVE IndInv'
<1>1. op[k] # None /\ op[k].step = "walk" /\ op[k] \in Requests /\ WellFormed(op[k])
  BY DEF RemoveAll, At, IndInv, TypeOK, WorkInv
<1>2. op[k].kind = "delete"
  BY <1>1 DEF WellFormed, StepsOf
<1>3. /\ Working(k) /\ op[k].version \in Versions
      /\ status[op[k].version] \in {"none", "draft"}
  BY <1>1, <1>2, AtWork
<1>4. PICK v \in Versions, vs \in Seq(Versions) : v = op[k].version /\ vs = op[k].victims
  BY <1>1, <1>3 DEF Requests
<1> DEFINE t == [tree EXCEPT ![v] = [p \in Paths |-> None]]
           r == Deleting(vs)
<1>5. /\ t \in Trees /\ \A u \in Versions : u # v => t[u] = tree[u]
      /\ \A u \in Versions, p \in Paths : t[u][p] \in {tree[u][p], None}
  BY DEF IndInv, TypeOK, Trees
<1>6. Store(t, blob, data) /\ op' = [op EXCEPT ![k] = r] /\ UNCHANGED <<rowVars, ref>>
  BY <1>4 DEF RemoveAll
<1>7. r = None \/ (r \in Requests /\ r.step = "row")
  BY Deletion DEF Deleting
<1>8. WorkInv'
  <2>1. \A u \in Range(vs) : Waiting(k, u)
    BY <1>1, <1>4 DEF Waiting
  <2> QED
    BY <1>6, <2>1, Queues DEF IndInv, rowVars
<1> HIDE DEF t, r
<1>9. /\ tree' = t /\ blob' = blob /\ data' \in [Inodes -> Bytes] /\ Kept /\ BlobsAreIntact'
  <2>1. blob \in Blobs /\ \A c \in Contents : blob[c] \in {blob[c], None}
    BY DEF IndInv, TypeOK, Blobs
  <2> QED
    BY <1>5, <1>6, <2>1, Relinked
<1>10. CountInv'
  BY <1>5, <1>6, <1>7, <1>9, CountsShrink DEF IndInv
<1>11. blob' \in Blobs /\ ref' \in [Contents -> 0 .. MaxRef]
  BY <1>6, <1>9 DEF IndInv, TypeOK, Blobs
<1> QED
  BY <1>3, <1>4, <1>5, <1>6, <1>7, <1>8, <1>9, <1>10, <1>11, FileStep

\* What a request does next when a file is released.
LEMMA AfterRelease ==
  ASSUME IndInv, NEW k \in Clients, op[k] # None, op[k].kind # "sweep",
         op[k].step \in {"unlink", "deref", "unblob"}
  PROVE  LET r == Released(k, op[k])
         IN  /\ r \in Requests \cup {None}
             /\ r # None => r.step \in {"ingest", "walk"}
             /\ op' = [op EXCEPT ![k] = r] /\ UNCHANGED status => WorkInv'
<1> DEFINE r == Released(k, op[k])
<1>1. op[k] \in Requests /\ WellFormed(op[k]) /\ op[k].kind \in Kinds
  BY DEF IndInv, TypeOK, WorkInv, Requests
<1>2. op[k].kind \in {"upload", "remove", "delete"}
  BY <1>1 DEF WellFormed, StepsOf, Kinds
<1>3. Working(k) /\ op[k].version \in Versions
  BY <1>2, AtWork
<1>4. CASE op[k].kind = "remove"
  <2>1. r = None
    BY <1>4 DEF Released
  <2>2. op' = [op EXCEPT ![k] = None] /\ UNCHANGED status => WorkInv'
    BY Ends DEF IndInv
  <2> QED
    BY <2>1, <2>2
<1>5. CASE op[k].kind = "upload"
  <2>1. r = [op[k] EXCEPT !.step = "ingest", !.found = None]
    BY <1>5 DEF Released
  <2>2. /\ r \in Requests /\ r.step = "ingest" /\ r.kind = "upload"
        /\ r.version = op[k].version /\ r.victims = op[k].victims
        /\ r.path = op[k].path /\ r.content = op[k].content
    BY <1>1, <1>5, <2>1 DEF Requests, Steps
  <2> HIDE DEF r
  <2>3. WellFormed(r)
    BY <1>1, <1>5, <2>2 DEF WellFormed, StepsOf
  <2>4. op' = [op EXCEPT ![k] = r] /\ UNCHANGED status => WorkInv'
    BY <1>3, <1>5, <2>2, <2>3, GoesOn DEF IndInv
  <2> QED
    BY <2>2, <2>4 DEF r
<1>6. CASE op[k].kind = "delete"
  <2>1. r = [op[k] EXCEPT !.step = "walk", !.path = None, !.found = None]
    BY <1>6 DEF Released
  <2>2. /\ r \in Requests /\ r.step = "walk" /\ r.kind = "delete"
        /\ r.version = op[k].version /\ r.victims = op[k].victims
    BY <1>1, <1>6, <2>1 DEF Requests, Steps
  <2> HIDE DEF r
  <2>3. WellFormed(r)
    BY <1>1, <1>6, <2>2 DEF WellFormed, StepsOf
  <2>4. op' = [op EXCEPT ![k] = r] /\ UNCHANGED status => WorkInv'
    BY <1>3, <1>6, <2>2, <2>3, GoesOn DEF IndInv
  <2> QED
    BY <2>2, <2>4 DEF r
<1> QED
  BY <1>2, <1>4, <1>5, <1>6

\* A request that works on a file of its version.
LEMMA AtFile ==
  ASSUME IndInv, NEW k \in Clients, op[k] # None,
         op[k].step \in {"unlink", "deref", "ingest", "clear", "link"}
  PROVE  /\ op[k] \in Requests /\ WellFormed(op[k]) /\ Working(k)
         /\ op[k].version \in Versions /\ op[k].path \in Paths
         /\ status[op[k].version] \in {"none", "draft"}
         /\ op[k].step \in {"ingest", "clear", "link"} =>
              op[k].kind = "upload" /\ op[k].content \in Contents
         /\ op[k].step \in {"unlink", "deref"} => op[k].found \in Bytes
<1>1. op[k] \in Requests /\ WellFormed(op[k]) /\ op[k].kind \in Kinds
  BY DEF IndInv, TypeOK, WorkInv, Requests
<1>2. op[k].kind \in {"upload", "remove", "delete"}
  BY <1>1 DEF WellFormed, StepsOf, Kinds
<1>3. op[k].step \in {"ingest", "clear", "link"} => op[k].kind = "upload"
  BY <1>1, <1>2 DEF WellFormed, StepsOf
<1>4. Working(k) /\ op[k].version \in Versions /\ status[op[k].version] \in {"none", "draft"}
  BY <1>2, AtWork
<1> QED
  BY <1>1, <1>3, <1>4 DEF WellFormed

\* A request goes to another step with the same file.
LEMMA NextStep ==
  ASSUME IndInv, NEW k \in Clients, op[k] # None,
         op[k].step \in {"unlink", "deref", "ingest", "clear", "link"},
         NEW step \in {"deref", "unblob", "clear", "link"},
         step \in {"clear", "link"} => op[k].kind = "upload",
         step \in {"deref", "unblob"} => op[k].step \in {"unlink", "deref"},
         step = "unblob" => op[k].found \in Contents
  PROVE  LET r == [op[k] EXCEPT !.step = step]
         IN  /\ r \in Requests /\ r.step = step /\ r.version = op[k].version
             /\ r.path = op[k].path /\ r.content = op[k].content /\ r.found = op[k].found
             /\ op' = [op EXCEPT ![k] = r] /\ UNCHANGED status => WorkInv'
<1> DEFINE r == [op[k] EXCEPT !.step = step]
<1>1. /\ op[k] \in Requests /\ WellFormed(op[k]) /\ Working(k)
      /\ op[k].version \in Versions /\ op[k].path \in Paths
      /\ op[k].step \in {"unlink", "deref"} => op[k].found \in Bytes
  BY AtFile
<1>2. op[k].kind \in {"upload", "remove", "delete"}
  BY <1>1 DEF WellFormed, StepsOf, Requests, Kinds
<1>3. /\ r \in Requests /\ r.step = step /\ r.version = op[k].version
      /\ r.path = op[k].path /\ r.content = op[k].content /\ r.found = op[k].found
      /\ r.kind = op[k].kind /\ r.victims = op[k].victims
  BY <1>1 DEF Requests, Steps
<1> HIDE DEF r
<1>4. WellFormed(r)
  BY <1>1, <1>2, <1>3 DEF WellFormed, StepsOf
<1>5. op' = [op EXCEPT ![k] = r] /\ UNCHANGED status => WorkInv'
  BY <1>1, <1>3, <1>4, GoesOn DEF IndInv
<1> QED
  BY <1>3, <1>5 DEF r

\* One file of a version is linked or unlinked.
LEMMA OneFile ==
  ASSUME IndInv, NEW v \in Versions, NEW p \in Paths, NEW i \in Inodes \cup {None}
  PROVE  LET t == [tree EXCEPT ![v][p] = i]
         IN  /\ t \in Trees /\ t[v][p] = i /\ \A u \in Versions : u # v => t[u] = tree[u]
             /\ \A g \in (Versions \X Paths) \ {<<v, p>>} : t[g[1]][g[2]] = tree[g[1]][g[2]]
             /\ i = None => \A u \in Versions, q \in Paths : t[u][q] \in {tree[u][q], None}
<1> DEFINE w == [tree[v] EXCEPT ![p] = i]
           t == [tree EXCEPT ![v] = w]
<1>1. /\ w \in [Paths -> Inodes \cup {None}] /\ w[p] = i
      /\ \A q \in Paths : q # p => w[q] = tree[v][q]
  BY DEF IndInv, TypeOK
<1>2. [tree EXCEPT ![v][p] = i] = t
  OBVIOUS
<1> HIDE DEF w
<1>3. t \in Trees /\ t[v] = w /\ \A u \in Versions : u # v => t[u] = tree[u]
  BY <1>1 DEF IndInv, TypeOK, Trees
<1> HIDE DEF t
<1>4. ASSUME NEW g \in (Versions \X Paths) \ {<<v, p>>} PROVE t[g[1]][g[2]] = tree[g[1]][g[2]]
  <2>1. PICK u \in Versions, q \in Paths : g = <<u, q>>
    OBVIOUS
  <2>2. u # v \/ q # p
    BY <2>1
  <2> QED
    BY <1>1, <1>3, <2>1, <2>2
<1> QED
  BY <1>1, <1>2, <1>3, <1>4, ZenonT(60)

\* The blobs that are there are among themselves.
LEMMA BlobsKept ==
  ASSUME IndInv
  PROVE  blob \in Blobs /\ \A c \in Contents : blob[c] \in {blob[c], None}
  BY DEF IndInv, TypeOK, Blobs

\* The link that goes becomes a claim until it is counted down.
LEMMA UnlinkStep == ASSUME IndInv, NEW k \in Clients, Unlink(k) PROVE IndInv'
<1>1. op[k] # None /\ op[k].step = "unlink"
  BY DEF Unlink, At
<1>2. PICK v \in Versions, p \in Paths : v = op[k].version /\ p = op[k].path
  BY <1>1, AtFile
<1>3. tree[v][p] # None /\ data[tree[v][p]] = op[k].found
  BY <1>1, <1>2 DEF IndInv, FileInv
<1> DEFINE t == [tree EXCEPT ![v][p] = None]
           r == [op[k] EXCEPT !.step = "deref"]
<1>4. Store(t, blob, data) /\ op' = [op EXCEPT ![k] = r] /\ UNCHANGED <<rowVars, ref>>
  BY <1>2, <1>3 DEF Unlink, Goto
<1>5. /\ t \in Trees /\ t[v][p] = None /\ \A u \in Versions : u # v => t[u] = tree[u]
      /\ \A g \in (Versions \X Paths) \ {<<v, p>>} : t[g[1]][g[2]] = tree[g[1]][g[2]]
  BY OneFile
<1>6. /\ r \in Requests /\ r.step = "deref" /\ r.found = op[k].found /\ WorkInv'
  BY <1>1, <1>4, NextStep DEF rowVars
<1> HIDE DEF t, r
<1>7. tree' = t /\ blob' = blob /\ data' \in [Inodes -> Bytes] /\ Kept /\ BlobsAreIntact'
  BY <1>4, <1>5, BlobsKept, Relinked
<1>8. CountInv'
  <2> SUFFICES ASSUME NEW c \in Contents
               PROVE  ref'[c] >= Cardinality(Links(c)') + Cardinality(Claimants(c)')
    BY DEF CountInv
  <2> DEFINE f == <<v, p>>
  <2>1. f \in Links(c) <=> op[k].found = c
    BY <1>3 DEF Links, Content
  <2>2. f \notin Links(c)'
    BY <1>5, <1>7, ContentAssumption DEF Links, Content
  <2>3. k \notin Claimants(c)
    BY <1>1 DEF Claimants, Claims
  <2>4. k \in Claimants(c)' => op[k].found = c
    BY <1>4, <1>6 DEF IndInv, TypeOK, Claimants, Claims
  <2>5. ref' = ref /\ ref' \in [Contents -> Nat]
    BY <1>4 DEF IndInv, TypeOK
  <2>6. ref'[c] + Has(f, Links(c)) + Has(k, Claimants(c))
          >= ref[c] + Has(f, Links(c)') + Has(k, Claimants(c)')
    BY <2>1, <2>2, <2>3, <2>4, <2>5 DEF Has
  <2>7. f \in Versions \X Paths
    OBVIOUS
  <2> HIDE DEF f
  <2> QED
    BY <1>4, <1>5, <1>7, <2>5, <2>6, <2>7, Counts DEF IndInv, f
<1>9. blob' \in Blobs /\ ref' \in [Contents -> 0 .. MaxRef]
  BY <1>4, <1>7, BlobsKept DEF IndInv, TypeOK
<1>10. Working(k) /\ status[v] \in {"none", "draft"}
  BY <1>1, <1>2, AtFile
<1> QED
  BY <1>2, <1>4, <1>5, <1>6, <1>7, <1>8, <1>9, <1>10, FileStep

\* The claim is counted down; the others are still covered.
LEMMA DerefStep == ASSUME IndInv, NEW k \in Clients, Deref(k) PROVE IndInv'
<1>1. op[k] # None /\ op[k].step = "deref" /\ op[k].kind # "sweep"
  BY DEF Deref, At, IndInv, WorkInv, WellFormed, StepsOf
<1>2. PICK v \in Versions, p \in Paths, x \in Bytes :
        v = op[k].version /\ p = op[k].path /\ x = op[k].found
  BY <1>1, AtFile
<1>3. UNCHANGED <<rowVars, fileVars>>
  BY DEF Deref
<1>4. UNCHANGED <<status, older, frozen, tree, data, blob>>
  BY <1>3 DEF rowVars, fileVars
<1>5. /\ Kept /\ tree' \in Trees /\ tree' = tree /\ BlobsAreIntact' /\ blob' \in Blobs
      /\ data' \in [Inodes -> Bytes]
  BY <1>4 DEF IndInv, TypeOK, Kept, Trees, Blobs, BlobsAreIntact
<1>6. PICK r \in Requests \cup {None} :
        /\ op' = [op EXCEPT ![k] = r] /\ WorkInv'
        /\ r # None => r.step \in {"unblob", "ingest", "walk"}
  <2>1. CASE op' = [op EXCEPT ![k] = Released(k, op[k])]
    BY <1>1, <1>4, <2>1, AfterRelease
  <2>2. CASE x \in Contents /\ op' = [op EXCEPT ![k] = [op[k] EXCEPT !.step = "unblob"]]
    BY <1>1, <1>2, <1>4, <2>2, NextStep
  <2> QED
    BY <1>2, <2>1, <2>2 DEF Deref
<1>7. /\ ref' \in [Contents -> 0 .. MaxRef] /\ ref' \in [Contents -> Nat]
      /\ \A c \in Contents : ref'[c] = IF c = x /\ ref[c] > 0 THEN ref[c] - 1 ELSE ref[c]
  BY <1>2, BoundAssumption DEF Deref, IndInv, TypeOK
<1>8. CountInv'
  <2> SUFFICES ASSUME NEW c \in Contents
               PROVE  ref'[c] >= Cardinality(Links(c)') + Cardinality(Claimants(c)')
    BY DEF CountInv
  <2>1. k \in Claimants(c) <=> x = c
    BY <1>1, <1>2 DEF Claimants, Claims
  <2>2. k \notin Claimants(c)'
    BY <1>6 DEF IndInv, TypeOK, Claimants, Claims
  <2>3. <<v, p>> \in Links(c)' <=> <<v, p>> \in Links(c)
    BY <1>4 DEF Links, Content
  <2>4. ref[c] \in Nat
    BY DEF IndInv, TypeOK
  <2> DEFINE f == <<v, p>>
  <2>5. ref'[c] + Has(f, Links(c)) + Has(k, Claimants(c))
          >= ref[c] + Has(f, Links(c)') + Has(k, Claimants(c)')
    BY <1>7, <2>1, <2>2, <2>3, <2>4 DEF Has
  <2>6. /\ f \in Versions \X Paths
        /\ \A g \in (Versions \X Paths) \ {f} : tree'[g[1]][g[2]] = tree[g[1]][g[2]]
    BY <1>4
  <2> HIDE DEF f
  <2> QED
    BY <1>5, <1>6, <1>7, <2>5, <2>6, Counts DEF IndInv
<1> QED
  BY <1>3, <1>5, <1>6, <1>7, <1>8, FileStep

\* A blob file goes; the links to its inode and the counts stay.
LEMMA UnblobStep == ASSUME IndInv, NEW k \in Clients, Unblob(k) PROVE IndInv'
<1>1. op[k] # None /\ op[k].step = "unblob"
  BY DEF Unblob, At
<1>2. PICK x \in Contents : x = op[k].found
  BY <1>1 DEF IndInv, WorkInv, WellFormed
<1> DEFINE b == [blob EXCEPT ![x] = None]
<1>3. b \in Blobs /\ \A c \in Contents : b[c] \in {blob[c], None}
  BY DEF IndInv, TypeOK, Blobs
<1>4. Store(tree, b, data) /\ UNCHANGED <<rowVars, ref>>
  BY <1>2 DEF Unblob
<1>5. PICK r \in Requests \cup {None} :
        /\ op' = [op EXCEPT ![k] = r] /\ WorkInv'
        /\ r # None => r.step \in {"ingest", "walk"}
  <2>1. CASE op[k].kind = "sweep"
    <3>1. op' = [op EXCEPT ![k] = None]
      BY <2>1 DEF Unblob
    <3> QED
      BY <1>4, <3>1, Ends DEF IndInv, rowVars
  <2>2. CASE op[k].kind # "sweep"
    <3>1. op' = [op EXCEPT ![k] = Released(k, op[k])]
      BY <2>2 DEF Unblob
    <3> QED
      BY <1>1, <1>4, <2>2, <3>1, AfterRelease DEF rowVars
  <2> QED
    BY <2>1, <2>2
<1> HIDE DEF b
<1>6. tree \in Trees
  BY DEF IndInv, TypeOK, Trees
<1>7. tree' = tree /\ blob' = b /\ data' \in [Inodes -> Bytes] /\ Kept /\ BlobsAreIntact'
  BY <1>3, <1>4, <1>6, Relinked
<1>8. CountInv'
  BY <1>4, <1>5, <1>6, <1>7, CountsShrink DEF IndInv
<1>9. ref' \in [Contents -> 0 .. MaxRef]
  BY <1>4 DEF IndInv, TypeOK
<1> QED
  BY <1>3, <1>4, <1>5, <1>6, <1>7, <1>8, <1>9, FileStep

\* A blob file appears whole in a new inode, or is there.
LEMMA BlobWritten ==
  ASSUME IndInv, NEW x \in Contents, WriteBlobFile(x)
  PROVE  /\ tree' = tree /\ tree' \in Trees /\ blob' \in Blobs /\ data' \in [Inodes -> Bytes]
         /\ Kept /\ BlobsAreIntact'
<1>1. tree \in Trees /\ blob \in Blobs
  BY DEF IndInv, TypeOK, Trees, Blobs
<1>2. CASE UNCHANGED fileVars
  BY <1>1, <1>2 DEF fileVars, IndInv, TypeOK, Kept, BlobsAreIntact
<1>3. CASE ~ UNCHANGED fileVars
  <2>1. PICK n \in Inodes : n = FreshInode /\ n \notin Linked(tree, blob)
    BY FreshIsFree DEF IndInv
  <2> DEFINE b == [blob EXCEPT ![x] = n]
  <2>2. Store(tree, b, [data EXCEPT ![n] = x])
    BY <1>3, <2>1 DEF WriteBlobFile
  <2>3. b \in Blobs /\ \A c \in Contents : b[c] \in {blob[c], None} \/ (b[c] = n /\ x = c)
    BY <1>1 DEF Blobs
  <2> HIDE DEF b
  <2>4. x \in Bytes
    BY DEF Bytes
  <2>5. tree' = tree /\ blob' = b /\ data' \in [Inodes -> Bytes] /\ Kept /\ BlobsAreIntact'
    BY <1>1, <2>1, <2>2, <2>3, <2>4, Written
  <2> QED
    BY <1>1, <2>3, <2>5
<1> QED
  BY <1>2, <1>3

\* A blob that is counted becomes a claim until it is linked.
LEMMA IngestStep == ASSUME IndInv, NEW k \in Clients, Ingest(k) PROVE IndInv'
<1>1. op[k] # None /\ op[k].step = "ingest"
  BY DEF Ingest, At
<1>2. /\ op[k].kind = "upload"
      /\ \E v \in Versions, p \in Paths, x \in Contents :
            v = op[k].version /\ p = op[k].path /\ x = op[k].content
  BY <1>1, AtFile
<1>3. PICK v \in Versions, p \in Paths, x \in Contents :
        v = op[k].version /\ p = op[k].path /\ x = op[k].content
  BY <1>2
<1> DEFINE r == [op[k] EXCEPT !.step = "clear"]
<1>4. /\ ref[x] < MaxRef /\ WriteBlobFile(x) /\ ref' = [ref EXCEPT ![x] = @ + 1]
      /\ op' = [op EXCEPT ![k] = r] /\ UNCHANGED rowVars
  BY <1>3 DEF Ingest, Counted, Goto
<1>5. r \in Requests /\ r.step = "clear" /\ r.content = x /\ WorkInv'
  BY <1>1, <1>2, <1>3, <1>4, NextStep DEF rowVars
<1> HIDE DEF r
<1>6. /\ tree' = tree /\ tree' \in Trees /\ blob' \in Blobs /\ data' \in [Inodes -> Bytes]
      /\ Kept /\ BlobsAreIntact'
  BY <1>4, BlobWritten
<1>7. /\ ref' \in [Contents -> 0 .. MaxRef] /\ ref' \in [Contents -> Nat]
      /\ \A c \in Contents : ref'[c] = IF c = x THEN ref[c] + 1 ELSE ref[c]
  BY <1>4, BoundAssumption DEF IndInv, TypeOK
<1>8. CountInv'
  <2> SUFFICES ASSUME NEW c \in Contents
               PROVE  ref'[c] >= Cardinality(Links(c)') + Cardinality(Claimants(c)')
    BY DEF CountInv
  <2> DEFINE f == <<v, p>>
  <2>1. k \in Claimants(c)' => x = c
    BY <1>4, <1>5 DEF IndInv, TypeOK, Claimants, Claims
  <2>2. k \notin Claimants(c)
    BY <1>1 DEF Claimants, Claims
  <2>3. f \in Links(c)' <=> f \in Links(c)
    <3>1. Content(v)'[p] = Content(v)[p]
      BY <1>6, SameContent
    <3> QED
      BY <3>1 DEF Links
  <2>4. ref[c] \in Nat
    BY DEF IndInv, TypeOK
  <2>5. ref'[c] + Has(f, Links(c)) + Has(k, Claimants(c))
          >= ref[c] + Has(f, Links(c)') + Has(k, Claimants(c)')
    BY <1>7, <2>1, <2>2, <2>3, <2>4 DEF Has
  <2>6. /\ f \in Versions \X Paths
        /\ \A g \in (Versions \X Paths) \ {f} : tree'[g[1]][g[2]] = tree[g[1]][g[2]]
    BY <1>6
  <2> HIDE DEF f
  <2> QED
    BY <1>4, <1>6, <1>7, <2>5, <2>6, Counts DEF IndInv
<1> QED
  BY <1>4, <1>5, <1>6, <1>7, <1>8, FileStep

\* A failed ingest counts nothing.
LEMMA IngestFailsStep == ASSUME IndInv, NEW k \in Clients, IngestFails(k) PROVE IndInv'
<1>1. op[k] # None /\ op[k].step = "ingest"
  BY DEF IngestFails, At
<1>2. PICK x \in Contents : x = op[k].content
  BY <1>1, AtFile
<1>3. WriteBlobFile(x) /\ op' = [op EXCEPT ![k] = None] /\ UNCHANGED <<rowVars, ref>>
  BY <1>2 DEF IngestFails, End
<1>4. /\ tree' = tree /\ tree' \in Trees /\ blob' \in Blobs /\ data' \in [Inodes -> Bytes]
      /\ Kept /\ BlobsAreIntact'
  BY <1>3, BlobWritten
<1>5. WorkInv'
  BY <1>3, Ends DEF IndInv, rowVars
<1>6. CountInv'
  BY <1>3, <1>4, CountsShrink DEF IndInv
<1>7. ref' \in [Contents -> 0 .. MaxRef]
  BY <1>3 DEF IndInv, TypeOK
<1> QED
  BY <1>3, <1>4, <1>5, <1>6, <1>7, FileStep

\* The path is freed before the blob is linked to it.
LEMMA ClearStep == ASSUME IndInv, NEW k \in Clients, Clear(k) PROVE IndInv'
<1>1. op[k] # None /\ op[k].step = "clear"
  BY DEF Clear, At
<1>2. op[k].kind = "upload" /\ Working(k) /\ status[op[k].version] \in {"none", "draft"}
  BY <1>1, AtFile
<1>3. PICK v \in Versions, p \in Paths : v = op[k].version /\ p = op[k].path
  BY <1>1, AtFile
<1> DEFINE t == [tree EXCEPT ![v][p] = None]
           r == [op[k] EXCEPT !.step = "link"]
<1>4. Store(t, blob, data) /\ op' = [op EXCEPT ![k] = r] /\ UNCHANGED <<rowVars, ref>>
  BY <1>3 DEF Clear, Goto
<1>5. /\ t \in Trees /\ t[v][p] = None /\ \A u \in Versions : u # v => t[u] = tree[u]
      /\ \A u \in Versions, q \in Paths : t[u][q] \in {tree[u][q], None}
  BY OneFile
<1>6. /\ r \in Requests /\ r.step = "link" /\ r.version = v /\ r.path = p
      /\ r.content = op[k].content /\ WorkInv'
  BY <1>1, <1>2, <1>3, <1>4, NextStep DEF rowVars
<1> HIDE DEF t, r
<1>7. tree' = t /\ blob' = blob /\ data' \in [Inodes -> Bytes] /\ Kept /\ BlobsAreIntact'
  BY <1>4, <1>5, BlobsKept, Relinked
<1>8. CountInv'
  BY <1>1, <1>4, <1>5, <1>6, <1>7, CountsShrink DEF IndInv
<1>9. blob' \in Blobs /\ ref' \in [Contents -> 0 .. MaxRef]
  BY <1>4, <1>7, BlobsKept DEF IndInv, TypeOK
<1> QED
  BY <1>2, <1>3, <1>4, <1>5, <1>6, <1>7, <1>8, <1>9, FileStep

\* The file at the path p of v becomes i, and no other changes.
Replaces(v, p, i) ==
    /\ tree' \in Trees /\ tree'[v][p] = i /\ \A u \in Versions : u # v => tree'[u] = tree[u]
    /\ \A g \in (Versions \X Paths) \ {<<v, p>>} : tree'[g[1]][g[2]] = tree[g[1]][g[2]]

\* The bytes that were counted are at their path, or a truncated file is.
LEMMA Placed ==
  ASSUME IndInv, NEW k \in Clients, op[k] # None, op[k].step = "link",
         NEW v \in Versions, NEW p \in Paths, v = op[k].version, p = op[k].path,
         NEW i \in Inodes, Replaces(v, p, i), blob' = blob,
         data' \in [Inodes -> Bytes], Kept, BlobsAreIntact',
         data'[i] \in {op[k].content, Empty}, UNCHANGED <<rowVars, ref>>,
         NEW r \in {None, Request("upload", "next", v)}, op' = [op EXCEPT ![k] = r]
  PROVE  IndInv'
<1>1. /\ op[k].kind = "upload" /\ Working(k) /\ status[v] \in {"none", "draft"}
      /\ op[k].content \in Contents
  BY AtFile
<1>2. tree[v][p] = None
  BY DEF IndInv, FileInv
<1> USE DEF Replaces
<1>3. r = None \/ (r \in Requests /\ r.kind = "upload" /\ r.step = "next" /\ r.version = v
                   /\ r.victims = <<>>)
  BY Requested DEF Kinds, Steps
<1>4. WorkInv'
  <2>1. CASE r = None
    BY <2>1, Ends DEF IndInv, rowVars
  <2>2. CASE r # None
    <3>1. WellFormed(r)
      BY <1>3, <2>2 DEF WellFormed, StepsOf
    <3>2. Range(r.victims) = {}
      BY <1>3, <2>2 DEF Range
    <3> QED
      BY <1>1, <1>3, <2>2, <3>1, <3>2, GoesOn DEF IndInv, rowVars
  <2> QED
    BY <2>1, <2>2
<1>5. CountInv'
  <2> SUFFICES ASSUME NEW c \in Contents
               PROVE  ref'[c] >= Cardinality(Links(c)') + Cardinality(Claimants(c)')
    BY DEF CountInv
  <2> DEFINE f == <<v, p>>
  <2>1. f \notin Links(c)
    BY <1>2, ContentAssumption DEF Links, Content
  <2>2. f \in Links(c)' => op[k].content = c
    BY ContentAssumption DEF Links, Content
  <2>3. k \in Claimants(c) <=> op[k].content = c
    BY DEF Claimants, Claims
  <2>4. k \notin Claimants(c)'
    BY <1>3 DEF IndInv, TypeOK, Claimants, Claims
  <2>5. ref' = ref /\ ref' \in [Contents -> Nat]
    BY DEF IndInv, TypeOK
  <2>6. ref'[c] + Has(f, Links(c)) + Has(k, Claimants(c))
          >= ref[c] + Has(f, Links(c)') + Has(k, Claimants(c)')
    BY <2>1, <2>2, <2>3, <2>4, <2>5 DEF Has
  <2>7. /\ f \in Versions \X Paths
        /\ \A g \in (Versions \X Paths) \ {f} : tree'[g[1]][g[2]] = tree[g[1]][g[2]]
    OBVIOUS
  <2> HIDE DEF f
  <2> QED
    BY <2>5, <2>6, <2>7, Counts DEF IndInv
<1>6. blob' \in Blobs /\ ref' \in [Contents -> 0 .. MaxRef]
  BY BlobsKept DEF IndInv, TypeOK
<1>7. r \in Requests \cup {None} /\ (r # None => r.step \notin {"link", "unlink"})
  BY <1>3
<1> QED
  BY <1>1, <1>4, <1>5, <1>6, <1>7, FileStep

\* The claim becomes a link.
LEMMA LinkStep == ASSUME IndInv, NEW k \in Clients, Link(k) PROVE IndInv'
<1>1. op[k] # None /\ op[k].step = "link"
  BY DEF Link, At
<1>2. PICK v \in Versions, p \in Paths, x \in Contents :
        v = op[k].version /\ p = op[k].path /\ x = op[k].content
  BY <1>1, AtFile
<1>3. PICK i \in Inodes : i = blob[x]
  BY <1>2 DEF Link, IndInv, TypeOK
<1> DEFINE t == [tree EXCEPT ![v][p] = i]
           r == Request("upload", "next", v)
<1>4. Store(t, blob, data) /\ op' = [op EXCEPT ![k] = r] /\ UNCHANGED <<rowVars, ref>>
  BY <1>2, <1>3 DEF Link
<1>5. /\ t \in Trees /\ t[v][p] = i /\ \A u \in Versions : u # v => t[u] = tree[u]
      /\ \A g \in (Versions \X Paths) \ {<<v, p>>} : t[g[1]][g[2]] = tree[g[1]][g[2]]
  BY OneFile
<1> HIDE DEF t, r
<1>6. /\ tree' = t /\ blob' = blob /\ data' \in [Inodes -> Bytes] /\ Kept /\ BlobsAreIntact'
  BY <1>4, <1>5, BlobsKept, Relinked
<1>7. data'[i] = x
  BY <1>3, <1>6, ContentAssumption DEF BlobsAreIntact, Inodes
<1>8. Replaces(v, p, i)
  BY <1>5, <1>6 DEF Replaces
<1>9. data'[i] \in {op[k].content, Empty} /\ r \in {None, Request("upload", "next", v)}
  BY <1>2, <1>7 DEF r
<1> QED
  BY <1>1, <1>2, <1>4, <1>6, <1>8, <1>9, Placed

\* Where the blob cannot be linked, the copy is a file of its own: the path
\* was free.
LEMMA CopyStep == ASSUME IndInv, NEW k \in Clients, Copy(k) PROVE IndInv'
<1>1. op[k] # None /\ op[k].step = "link" /\ blob[op[k].content] # None
  BY DEF Copy, At
<1>2. PICK v \in Versions, p \in Paths, x \in Contents :
        v = op[k].version /\ p = op[k].path /\ x = op[k].content
  BY <1>1, AtFile
<1>3. tree[v][p] = None
  BY <1>1, <1>2 DEF IndInv, FileInv
<1>4. PICK n \in Inodes : n = FreshInode /\ n \notin Linked(tree, blob)
  BY FreshIsFree DEF IndInv
<1>5. blob[x] # n /\ data[blob[x]] = x
  BY <1>1, <1>2, <1>4 DEF Linked, IndInv, BlobsAreIntact
<1> DEFINE t == [tree EXCEPT ![v][p] = n]
<1>6. UNCHANGED <<rowVars, ref>>
  BY DEF Copy
<1>7. PICK y \in {x, Empty}, r \in {None, Request("upload", "next", v)} :
        Store(t, blob, [data EXCEPT ![n] = y]) /\ op' = [op EXCEPT ![k] = r]
  BY <1>2, <1>3, <1>4, <1>5 DEF Copy, End
<1>8. /\ t \in Trees /\ t[v][p] = n /\ \A u \in Versions : u # v => t[u] = tree[u]
      /\ \A g \in (Versions \X Paths) \ {<<v, p>>} : t[g[1]][g[2]] = tree[g[1]][g[2]]
  BY OneFile
<1>9. n \in Linked(t, blob) /\ y \in Bytes
  BY <1>8 DEF Linked, Bytes
<1> HIDE DEF t
<1>10. /\ tree' = t /\ blob' = blob /\ data' \in [Inodes -> Bytes] /\ Kept /\ BlobsAreIntact'
       /\ data'[n] = y
  BY <1>4, <1>7, <1>8, <1>9, BlobsKept, Written
<1>11. Replaces(v, p, n) /\ data'[n] \in {op[k].content, Empty}
  BY <1>2, <1>8, <1>10 DEF Replaces
<1> QED
  BY <1>1, <1>2, <1>6, <1>7, <1>10, <1>11, Placed

-----------------------------------------------------------------------------
(* The theorems.                                                           *)

\* No step breaks the invariant while requests work on a version one at a
\* time.
LEMMA Inductive == ASSUME IndInv, Exclusive, [Next]_vars PROVE IndInv'
<1>1. ASSUME NEW k \in Clients, Step(k) PROVE IndInv'
  BY <1>1, CommitReviewStep, CommitPublishStep, PruneStep, DeleteRowStep, DeleteRefusedStep,
     RemoveAllStep, CheckStep, NextEntryStep, NextRemovalStep, NextOfWalkStep, FinishStep,
     UnlinkStep, DerefStep, UnblobStep, IngestStep, IngestFailsStep, ClearStep, LinkStep,
     CopyStep
     DEF Step
<1>2. CASE UNCHANGED vars
  BY <1>2, SMTT(30) DEF vars, IndInv, TypeOK, WorkInv, Working, Waiting, FileInv, CountInv, Links,
              Claimants, Claims, BlobsAreIntact, NonDraftIsImmutable, Content
<1> QED
  BY <1>1, <1>2, CreateVersionStep, StartUploadStep, StartDeleteStep, ReviewStep,
     StartRemoveStep, StartSweepStep
     DEF Next

\* An empty store is sound.
LEMMA Initial == Init => IndInv
<1> SUFFICES ASSUME Init PROVE IndInv
  OBVIOUS
<1>1. TypeOK
  BY BoundAssumption DEF Init, TypeOK, Statuses, Bytes
<1>2. WorkInv /\ FileInv /\ BlobsAreIntact /\ NonDraftIsImmutable
  BY DEF Init, WorkInv, Working, FileInv, BlobsAreIntact, NonDraftIsImmutable
<1>3. CountInv
  <2> SUFFICES ASSUME NEW c \in Contents
               PROVE  ref[c] >= Cardinality(Links(c)) + Cardinality(Claimants(c))
    BY DEF CountInv
  <2>1. Links(c) = {} /\ Claimants(c) = {} /\ ref[c] = 0
    BY ContentAssumption DEF Init, Links, Content, Claimants, Claims
  <2> QED
    BY <2>1, FS_EmptySet
<1> QED
  BY <1>1, <1>2, <1>3 DEF IndInv

\* The invariant holds in every state.
LEMMA Invariance == Exclusive => (Spec => []IndInv)
<1> SUFFICES ASSUME Exclusive PROVE Spec => []IndInv
  OBVIOUS
<1>1. IndInv /\ [Next]_vars => IndInv'
  BY Inductive
<1> QED
  BY <1>1, Initial, PTL DEF Spec

\* Counts cover the version files, and a blob file holds the bytes it is named
\* for, through uploads, overwrites, deletions, prunes and failures at any
\* step, as long as requests work on a version one at a time.
THEOREM BlobStoreStaysSound == Exclusive => (Spec => []BlobStoreIsSound)
<1> SUFFICES ASSUME Exclusive PROVE Spec => []BlobStoreIsSound
  OBVIOUS
<1>1. IndInv => BlobStoreIsSound
  <2> SUFFICES ASSUME IndInv, NEW c \in Contents PROVE ref[c] >= Cardinality(Links(c))
    BY DEF IndInv, BlobStoreIsSound, RefsCoverLinks
  <2>1. Cardinality(Links(c)) \in Nat /\ Cardinality(Claimants(c)) \in Nat
    BY Finite, FS_CardinalityType
  <2>2. ref[c] \in Nat /\ ref[c] >= Cardinality(Links(c)) + Cardinality(Claimants(c))
    BY DEF IndInv, TypeOK, CountInv
  <2> QED
    BY <2>1, <2>2
<1> QED
  BY <1>1, Invariance, PTL

\* A version that has left the draft holds the bytes it left it with, as long
\* as requests work on a version one at a time.
THEOREM ReleasedStaysTheSame == Exclusive => (Spec => []NonDraftIsImmutable)
<1> SUFFICES ASSUME Exclusive PROVE Spec => []NonDraftIsImmutable
  OBVIOUS
<1>1. IndInv => NonDraftIsImmutable
  BY DEF IndInv
<1> QED
  BY <1>1, Invariance, PTL
=============================================================================
