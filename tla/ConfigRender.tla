---------------------------- MODULE ConfigRender ----------------------------
(***************************************************************************)
(* What server.yaml says of one configuration file and what becomes of it: *)
(* the overrides are validated when they are put, then normalized and      *)
(* merged into the file of a version by each preview, pull and comparison  *)
(* anew.  Normalize ranges over a Go map, so every use of the overrides    *)
(* takes their keys in an order of its own.                                *)
(*                                                                         *)
(* A tree is a function from a prefix-closed set of paths to nodes.  A     *)
(* node is a scalar or a map, and a map is either a plain map[string]any   *)
(* or "named": yaml.v3 decodes the maps inside FileOverrides as            *)
(* FileOverrides, which AsStringMap copies.  Values are Go's: two functions *)
(* say what json.Unmarshal makes of a number (a float64) and which text    *)
(* fmt.Sprint makes of a value.  Layout, comments and names with dots      *)
(* inside a block are left out, and so is the directory: names of          *)
(* configuration files are unique in a version.                            *)
(***************************************************************************)
EXTENDS Naturals, SequencesExt

CONSTANTS
    Names,       \* names of keys, one for each step of a path
    Scalars,     \* scalar values
    Nil,         \* the scalar null, one of them
    Lists,       \* those that IsScalar refuses: lists and timestamps
    Float64,     \* the scalar that json.Unmarshal makes of each
    Sprint,      \* the text, one of them too, that fmt.Sprint makes of each
    PlainNames,  \* names of letters, digits, _ and -, no digit first
    Overrides,   \* what server.yaml may say: functions from keys to values
    Kinds,       \* among "structured" (YAML, JSON), "properties" and "other"
    Trees,       \* contents of a structured file
    Texts,       \* contents of a properties file: sequences of [key, val]
    FileTags,    \* tags that the file may have
    Targets      \* tags that a pull may ask for

VARIABLES
    kind,     \* the kind of the file
    json,     \* a structured file is JSON, otherwise YAML
    form,     \* how the overrides are put: "yaml" or "json"
    written,  \* the overrides as they are put
    file,     \* the file, in those of the versions "from" and "to" that have it
    tags,     \* the tags of the file in version "to"
    target,   \* the tags of the pull
    stage,    \* the use that is at work
    todo,     \* the keys that Normalize still has to take
    out,      \* what it made of the others
    result    \* what the uses returned

renderVars == <<kind, json, form, written, file, tags, target, stage, todo, out, result>>

\* The uses of the overrides, one after another.
Uses == <<"validate", "preview", "bundle", "from", "to">>
Use == Uses[stage]
Ended(u) == \E i \in 1 .. stage - 1 : Uses[i] = u

-----------------------------------------------------------------------------
(* Paths and trees.                                                        *)

Paths == Seq(Names)

\* The path q under p, what follows p on the way to q, and the ways to p.
Under(p, q) == p \o q
After(p, q) == SubSeq(q, Len(p) + 1, Len(q))
Above(p) == {SubSeq(p, 1, i) : i \in 0 .. Len(p) - 1}

IsMap(x) == x \in {"map", "named"}
IsTree(t) ==
    /\ DOMAIN t \subseteq Paths /\ <<>> \in DOMAIN t
    /\ \A q \in DOMAIN t : /\ t[q] \in Scalars \cup {"map", "named"}
                           /\ \A p \in Above(q) : p \in DOMAIN t /\ IsMap(t[p])

\* Scalars are no maps, one of them is null.  A decoded document is finite,
\* and the contents of files are plain maps or lines.
ASSUME ScalarAssumption ==
    /\ Nil \in Scalars /\ Lists \subseteq Scalars /\ \A x \in Scalars : ~IsMap(x)
    /\ Float64 \in [Scalars -> Scalars] /\ Sprint \in [Scalars -> Scalars]
ASSUME OverridesAssumption ==
    \A o \in Overrides :
        /\ DOMAIN o \subseteq Paths \ {<<>>} /\ IsFiniteSet(DOMAIN o)
        /\ \A k \in DOMAIN o : IsTree(o[k]) /\ IsFiniteSet(DOMAIN o[k])
ASSUME FileAssumption ==
    /\ \A t \in Trees : IsTree(t) /\ IsMap(t[<<>>])
    /\ Texts \subseteq Seq([key : Paths, val : Scalars])

Empty == [p \in {<<>>} |-> "map"]
Failed == <<>>   \* no tree is empty: an error

Below(tree, p) == {q \in DOMAIN tree : IsStrictPrefix(p, q)}
Leaves(tree) == {p \in DOMAIN tree : ~IsMap(tree[p])}

\* A copy that has only plain maps.
DeepCopyMap(tree) == [p \in DOMAIN tree |-> IF IsMap(tree[p]) THEN "map" ELSE tree[p]]

\* The tree that json.Unmarshal makes.
AsJSON(tree) == [p \in DOMAIN tree |-> IF IsMap(tree[p]) THEN tree[p] ELSE Float64[tree[p]]]

Subtree(tree, p) ==
    [q \in {After(p, r) : r \in Below(tree, p) \cup {p}} |-> tree[Under(p, q)]]

\* The tree in which value is all there is at p.
Graft(tree, p, value) ==
    [q \in (DOMAIN tree \ Below(tree, p)) \cup {Under(p, r) : r \in DOMAIN value} |->
        IF IsPrefix(p, q) THEN value[After(p, q)] ELSE tree[q]]

\* `{http_port}` without quotes is a map with one null.
isYAMLScalarPlaceholder(tree, p) ==
    \E q \in Below(tree, p) :
        Below(tree, p) = {q} /\ tree[q] = Nil /\ q[Len(q)] \in PlainNames

\* A map that meets a scalar is refused, a placeholder excepted; and without
\* the exception.
AnyMismatch(dst, src, p) == IsMap(dst[p]) # IsMap(src[p])
Mismatch(dst, src, p) ==
    /\ IsMap(dst[p]) # IsMap(src[p])
    /\ ~(IsMap(dst[p]) /\ isYAMLScalarPlaceholder(dst, p))

DeepMergeInPlace(dst, src) ==
    LET both == DOMAIN dst \cap DOMAIN src
        gone == UNION {Below(dst, p) : p \in {q \in both : ~IsMap(src[q])}}
    IN IF \E p \in both : Mismatch(dst, src, p) THEN Failed
       ELSE [p \in (DOMAIN dst \ gone) \cup DOMAIN src |->
               IF p \notin DOMAIN src THEN dst[p]
               ELSE IF p \in both /\ IsMap(src[p]) THEN "map" ELSE src[p]]

\* SetNestedMap walks down to the key.  Through a named map it walks into a
\* copy, and what it sets there is lost.
SetNestedMap(tree, key, value) ==
    LET way  == Above(key) \ {<<>>}
        made == [p \in DOMAIN tree \cup way |-> IF p \in DOMAIN tree THEN tree[p] ELSE "map"]
    IN IF \E p \in way \cap DOMAIN tree : ~IsMap(tree[p]) THEN Failed
       ELSE IF \E p \in way \cap DOMAIN tree : tree[p] = "named" THEN tree
       ELSE IF key \in DOMAIN tree /\ tree[key] = "map" /\ value[<<>>] = "map" THEN Failed
       ELSE Graft(made, key, value)

-----------------------------------------------------------------------------
(* Normalization of the overrides, one key at a time.                      *)

\* mergeSubtree; and one that does nothing when there is something already.
FirstWins(tree, key, block) ==
    IF key \in DOMAIN tree THEN tree ELSE Graft(tree, key, DeepCopyMap(block))
mergeSubtree(tree, key, block) ==
    IF key \notin DOMAIN tree THEN Graft(tree, key, DeepCopyMap(block))
    ELSE IF ~IsMap(tree[key]) THEN Failed
    ELSE LET merged == DeepMergeInPlace(Subtree(tree, key), block)
         IN IF merged = Failed THEN Failed ELSE Graft(tree, key, merged)

normalizeStructured(tree, key, value) ==
    IF Len(key) > 1
    THEN IF value[<<>>] = "map" THEN Failed ELSE SetNestedMap(tree, key, value)
    ELSE IF IsMap(value[<<>>]) THEN mergeSubtree(tree, key, value)
    ELSE IF value[<<>>] \in Lists THEN Failed ELSE Graft(tree, key, value)

\* Only a plain map is flattened.
normalizeProperties(flat, key, value) ==
    IF value[<<>>] = "named" \/ value[<<>>] \in Lists THEN Failed
    ELSE LET new == {Under(key, p) : p \in Leaves(value)}
         IN [q \in DOMAIN flat \cup new |->
               IF q \in new THEN value[After(key, q)] ELSE flat[q]]

\* json.Unmarshal makes plain maps and float64s.  What was accepted is saved
\* as YAML: the numbers stay, and its maps are named when it is read again.
given == [key \in DOMAIN written |-> IF form = "json" THEN AsJSON(written[key]) ELSE written[key]]
Value(key) == IF form = "json" /\ stage = 1 THEN DeepCopyMap(given[key]) ELSE given[key]

NormalizeKey(key) ==
    CASE kind = "structured" -> normalizeStructured(out, key, Value(key))
      [] kind = "properties" -> normalizeProperties(out, key, Value(key))
      [] OTHER -> Failed

-----------------------------------------------------------------------------
(* Merging into a file, and reading it.                                    *)

\* What is read of a file.
Loaded(content) == IF kind = "structured" /\ json THEN AsJSON(content) ELSE content

First(text, key) == CHOOSE i \in DOMAIN text :
    text[i].key = key /\ \A j \in 1 .. i - 1 : text[j].key # key
Final(text, key) == CHOOSE i \in DOMAIN text :
    text[i].key = key /\ \A j \in DOMAIN text : text[j].key = key => j <= i
KeysOf(text) == {text[i].key : i \in DOMAIN text}

\* replaceProperties: the first line of each key, and the missing ones at the
\* end, in the order of a Go map.
replaceProperties(text, flat) ==
    LET lines == [i \in DOMAIN text |->
          IF text[i].key \in DOMAIN flat /\ First(text, text[i].key) = i
          THEN [text[i] EXCEPT !.val = flat[text[i].key]] ELSE text[i]]
    IN {lines \o [i \in DOMAIN s |-> [key |-> s[i], val |-> flat[s[i]]]] :
          s \in SetToSeqs(DOMAIN flat \ KeysOf(text))}

FlattenScalars(tree) == [p \in Leaves(tree) |-> tree[p]]

\* The contents that MergeBytes may return.  A JSON file goes through float64,
\* and a properties file gets texts.
MergeBytes(content, tree) ==
    IF kind = "structured" THEN {DeepMergeInPlace(Loaded(content), tree)}
    ELSE replaceProperties(content, [p \in Leaves(tree) |-> Sprint[tree[p]]])

\* Preview and comparison show texts.  The preview reads the first line of a
\* key, the comparison the last.
Shown(value) == IF IsMap(value) THEN value ELSE Sprint[value]
Has(content, key) ==
    IF kind = "structured" THEN key \in DOMAIN content ELSE key \in KeysOf(content)
ReadKey(content, key) ==
    IF kind = "structured" THEN Shown(Loaded(content)[key])
    ELSE content[First(content, key)].val

flattenConfig(content) ==
    IF kind = "structured"
    THEN LET flat == FlattenScalars(Loaded(content)) IN [p \in DOMAIN flat |-> Sprint[flat[p]]]
    ELSE [k \in KeysOf(content) |-> content[Final(content, k)].val]

\* filetags: no tag is all tags.
Normalize(S) == IF S = {} \/ "*" \in S THEN {"*"} ELSE S
Matches(have, want) == "*" \in Normalize(have) \/ Normalize(have) \cap Normalize(want) # {}

-----------------------------------------------------------------------------
(* The uses.                                                               *)

Refused == [ok |-> FALSE]
Returned(value) == [ok |-> TRUE, value |-> value]

\* BuildPreview: what each key was and will be.  A version without the file
\* is a warning.  And one that announces what the file says.
OldValues(content, merged, tree) ==
    {[key |-> k, action |-> "replace", after |-> ReadKey(content, k)] :
        k \in {q \in Leaves(tree) : Has(content, q)}}
previewKeyChanges(content, merged, tree) ==
    {[key |-> k, after |-> ReadKey(merged, k),
      action |-> IF ~Has(content, k) THEN "add"
                 ELSE IF ReadKey(content, k) = ReadKey(merged, k) THEN "unchanged"
                 ELSE "replace"] : k \in Leaves(tree)}

BuildPreview(tree) ==
    IF "to" \notin DOMAIN file
    THEN {Returned({[key |-> k, after |-> Sprint[tree[k]], action |-> "add"] : k \in Leaves(tree)})}
    ELSE {IF merged = Failed /\ kind = "structured" THEN Refused
          ELSE Returned(previewKeyChanges(file["to"], merged, tree)) :
            merged \in MergeBytes(file["to"], tree)}

\* BuildBundle copies the files that the tags select and renders the copies.
BuildBundle(tree) ==
    IF "to" \notin DOMAIN file \/ ~Matches(tags, target) THEN {Refused}
    ELSE {IF merged = Failed /\ kind = "structured" THEN Refused ELSE Returned(merged) :
            merged \in MergeBytes(file["to"], tree)}

\* renderEffectiveConfig of one of the versions compared.
renderEffectiveConfig(v, tree) ==
    IF v \notin DOMAIN file THEN {Returned(Failed)}
    ELSE {IF merged = Failed /\ kind = "structured" THEN Refused
          ELSE Returned(flattenConfig(merged)) : merged \in MergeBytes(file[v], tree)}

Outcomes(use, tree) ==
    CASE use = "validate" -> {Returned({})}
      [] use = "preview" -> BuildPreview(tree)
      [] use = "bundle" -> BuildBundle(tree)
      [] OTHER -> renderEffectiveConfig(use, tree)

\* DiffVersions: the keys whose values differ; and one that forgets those of
\* the older version.
OnlyNewer(from, to) ==
    {k \in DOMAIN to : k \notin DOMAIN from \/ from[k] # to[k]}
DiffVersions(from, to) ==
    {k \in DOMAIN from \cup DOMAIN to :
        k \in DOMAIN from /\ k \in DOMAIN to => from[k] # to[k]}

-----------------------------------------------------------------------------
\* The next use begins.  What was accepted is saved, versions are uploaded,
\* and a pull names its tags.
Begin(i) ==
    /\ stage' = i /\ todo' = DOMAIN written /\ out' = Empty
    /\ IF i = 2
       THEN \E V \in SUBSET {"from", "to"} :
              file' \in [V -> IF kind = "properties" THEN Texts ELSE Trees]
       ELSE UNCHANGED file
    /\ IF i = 3 THEN tags' \in FileTags /\ target' \in Targets
       ELSE UNCHANGED <<tags, target>>

RenderInit ==
    /\ kind \in Kinds /\ json \in (IF kind = "structured" THEN BOOLEAN ELSE {FALSE})
    /\ form \in {"yaml", "json"} /\ written \in Overrides
    /\ file = <<>> /\ tags = {} /\ target = {}
    /\ stage = 1 /\ todo = DOMAIN written /\ out = Empty
    /\ result = [u \in Range(Uses) |-> Refused]

\* An iteration of the loop of Normalize.
TakeKey(key) ==
    /\ key \in todo /\ NormalizeKey(key) # Failed
    /\ out' = NormalizeKey(key) /\ todo' = todo \ {key}
    /\ UNCHANGED <<kind, json, form, written, file, tags, target, stage, result>>

\* An error ends the use, and a put that is refused changes nothing.
Fail(key) ==
    /\ key \in todo /\ NormalizeKey(key) = Failed
    /\ Begin(IF Use = "validate" THEN Len(Uses) + 1 ELSE stage + 1)
    /\ UNCHANGED <<kind, json, form, written, result>>

Return ==
    /\ todo = {} /\ DOMAIN written # {}
    /\ \E r \in Outcomes(Use, out) : result' = [result EXCEPT ![Use] = r]
    /\ Begin(stage + 1)
    /\ UNCHANGED <<kind, json, form, written>>

RenderNext ==
    /\ stage <= Len(Uses)
    /\ Return \/ \E key \in todo : TakeKey(key) \/ Fail(key)

RenderSpec == RenderInit /\ [][RenderNext]_renderVars

-----------------------------------------------------------------------------
(* Correctness: what the overrides ask for, without the algorithm.         *)

Spelled(key) == {Under(key, p) : p \in Leaves(given[key])}
Asked == UNION {Spelled(key) : key \in DOMAIN given}
AskedFor(p) ==
    LET key == CHOOSE k \in DOMAIN given : p \in Spelled(k) IN given[key][After(key, p)]

\* No two entries speak of one key, or of a key and one below it.
Clear ==
    \A k, l \in DOMAIN given : k # l =>
        \A p \in Spelled(k), r \in DOMAIN given[l] : ~IsPrefix(p, Under(l, r))

\* A dotted key leads to or through a map inside another entry: there it may
\* be lost, in some orders of the keys.
Entangled ==
    \E k, l \in DOMAIN given : /\ k # l /\ Len(k) > 1
        /\ \E r \in DOMAIN given[l] : /\ IsMap(given[l][r]) /\ Len(Under(l, r)) > 1
                                      /\ IsPrefix(Under(l, r), k)

Settled == Clear /\ ~Entangled

\* The keys that a rendered file has, and their values, both as those who
\* read the last line of a key read them: where a properties file repeats a
\* key, its first line is replaced and the override has no effect.
Expected(content) ==
    IF kind = "properties" THEN Asked \cup KeysOf(content)
    ELSE Asked \cup {p \in Leaves(content) : \A q \in Asked : ~IsPrefix(q, p)}
ExpectedValue(content, key) ==
    IF kind = "structured" THEN IF key \in Asked THEN AskedFor(key) ELSE content[key]
    ELSE IF key \in Asked /\ (key \in KeysOf(content) => First(content, key) = Final(content, key))
    THEN Sprint[AskedFor(key)] ELSE content[Final(content, key)].val
Effective(rendered, key) ==
    IF kind = "structured" THEN rendered[key] ELSE rendered[Final(rendered, key)].val

\* The file itself does not take the overrides: an entry leads through a
\* scalar of the file, or puts a scalar where the file has a map.
Clashes(content) ==
    /\ kind = "structured"
    /\ \E k \in DOMAIN given : \E r \in DOMAIN given[k] :
         \/ \E p \in Leaves(content) : /\ IsPrefix(p, Under(k, r))
                                       /\ p = Under(k, r) => IsMap(given[k][r])
         \/ /\ Under(k, r) \in DOMAIN content /\ IsMap(content[Under(k, r)])
            /\ ~IsMap(given[k][r]) /\ ~isYAMLScalarPlaceholder(content, Under(k, r))

Accepted == Ended("validate") /\ result["validate"].ok

\* Normalize makes trees of a structured file's overrides: the maps that lead
\* to each node are there, and only maps have something below them.
RenderTypeOK ==
    /\ kind \in Kinds /\ json \in BOOLEAN /\ form \in {"yaml", "json"}
    /\ DOMAIN file \subseteq {"from", "to"}
    /\ \A v \in DOMAIN file : file[v] \in IF kind = "properties" THEN Texts ELSE Trees
    /\ stage \in 1 .. Len(Uses) + 1 /\ todo \subseteq DOMAIN written
    /\ DOMAIN result = Range(Uses) /\ \A u \in Range(Uses) : result[u].ok \in BOOLEAN
    /\ IF kind = "structured" THEN IsTree(out) /\ IsMap(out[<<>>])
       ELSE \A p \in DOMAIN out : p \in Paths /\ out[p] \in Scalars \cup {"map"}

\* Whatever order Normalize takes the keys in, and however dotted and nested
\* keys are mixed, the file that is delivered has the keys that it had and
\* those of the overrides, and they have the values that are asked for and
\* otherwise what they had.  (A JSON put and a JSON file make float64s of
\* numbers, and a properties file takes texts.)
OverridesArrive ==
    Ended("bundle") /\ result["bundle"].ok /\ Settled =>
        LET rendered == result["bundle"].value
            content  == Loaded(file["to"])
        IN /\ Expected(content) = IF kind = "structured" THEN Leaves(rendered) ELSE KeysOf(rendered)
           /\ \A k \in Expected(content) : Effective(rendered, k) = ExpectedValue(content, k)

\* Normalize makes trees whose inner nodes are maps, and what is rendered from
\* them is what was asked for.
RendersWhatIsAsked == RenderTypeOK /\ OverridesArrive

\* A pull delivers what the preview announced, although each normalizes the
\* overrides on its own, and it delivers nothing that could not be previewed.
PreviewIsDelivered ==
    Ended("bundle") /\ result["bundle"].ok /\ Settled =>
        /\ result["preview"].ok
        /\ \A change \in result["preview"].value :
             ReadKey(result["bundle"].value, change.key) = change.after

\* What the comparison shows of such a value.
Text(value) == IF kind # "structured" THEN value ELSE Sprint[IF json THEN Float64[value] ELSE value]

\* The comparison reports a key exactly when the two rendered files show
\* another value for it, and nothing that both sides override.
DiffIsExact ==
    Ended("to") /\ Settled /\ result["from"].ok /\ result["to"].ok
    => LET effective == [v \in {"from", "to"} |->
             IF v \notin DOMAIN file THEN <<>>
             ELSE [k \in Expected(Loaded(file[v])) |-> Text(ExpectedValue(Loaded(file[v]), k))]]
       IN DiffVersions(result["from"].value, result["to"].value) =
            {k \in DOMAIN effective["from"] \cup DOMAIN effective["to"] :
                ~\E x \in Scalars : \A v \in {"from", "to"} :
                    k \in DOMAIN effective[v] /\ effective[v][k] = x}

\* Overrides that were accepted fail later only because of the version: it
\* lacks the file, the tags of the pull leave it out, or a map and a scalar
\* meet.  (Nested overrides of a properties file that were put as JSON are
\* the exception.)
AcceptedIsUsable ==
    Accepted /\ Settled
    /\ (kind = "properties" => \A k \in DOMAIN given : ~IsMap(given[k][<<>>]))
    => \A u \in Range(Uses) : Ended(u) /\ ~result[u].ok =>
         \/ u = "bundle" /\ ("to" \notin DOMAIN file
                             \/ (tags # {} /\ "*" \notin tags
                                 /\ (tags \cap target = {} \/ "*" \in target)))
         \/ Clashes(Loaded(file[IF u = "from" THEN "from" ELSE "to"]))
=============================================================================
