---------------------------- MODULE VisualIndex -----------------------------
(***************************************************************************)
(* The local index of images: the media of case after case are searched    *)
(* for and then added. Rows, FAISS vectors and the rows that say whose a   *)
(* vector is are three files, written one after the other.                 *)
(* Source: src/retrieval/visual_index.py, local_reverse_image_search.py,   *)
(* and their use in src/processing/media_loader.py.                        *)
(*                                                                         *)
(* An image is what is in a file: two files are the same if they hold the  *)
(* same image. phash.jsonl is written and never read: left out.            *)
(***************************************************************************)
EXTENDS Integers, Sequences, FiniteSets, SequencesExt, FiniteSetsExt

CONSTANTS
    Images,
    Jobs,         \* sequence of [case, files: sequence of [path, image]]: media processed
    Distance,     \* [Images \X Images -> 0 .. 64], of the perceptual hashes
    Alike,        \* [Images \X Images -> 0 .. 100], percent, of the embeddings
    MethodSets,   \* what local_reverse_methods may be
    MaxDistance, MinAlike,       \* phash_threshold, clip_similarity_threshold
    MaxMatches,   \* how many matches become evidence: 5
    MaxVectors,   \* how many vectors are looked up: 10
    FaissChanges, \* FAISS may be installed later
    MaxCrashes    \* bound

ASSUME IndexAssumption ==
    /\ Jobs \in Seq([case : STRING, files : Seq([path : STRING, image : Images])]) /\ Jobs # <<>>
    /\ Distance \in [Images \X Images -> 0 .. 64] /\ Alike \in [Images \X Images -> 0 .. 100]
    /\ \A image \in Images : Distance[image, image] = 0
    /\ MethodSets \subseteq SUBSET {"phash", "clip_faiss"} /\ FaissChanges \in BOOLEAN
    /\ {MaxMatches, MaxVectors} \subseteq Nat \ {0} /\ {MaxDistance, MinAlike, MaxCrashes} \subseteq Nat

VARIABLES
    methods,    \* local_reverse_methods
    assets,     \* assets.jsonl
    vectors,    \* clip.index.faiss: sequence of images
    meta,       \* clip_meta.jsonl
    job, step,  \* which media are processed, and how far
    fresh,      \* of add_assets: [rows, clip], still to be written
    looked,     \* of a search, for each file: what could be computed of it, see Looks
    reported,   \* the matches that the searches of this job made evidence
    faiss, crashes

indexVars == <<methods, assets, vectors, meta, job, step, fresh, looked, reported, faiss, crashes>>

Nothing == [rows |-> <<>>, clip |-> <<>>]

IndexInit ==
    /\ methods \in MethodSets
    /\ assets = <<>> /\ vectors = <<>> /\ meta = <<>>
    /\ job = 1 /\ step = "search" /\ fresh = Nothing /\ looked = <<>> /\ reported = {}
    /\ faiss \in (IF FaissChanges THEN {FALSE} ELSE BOOLEAN) /\ crashes = 0

Current == Jobs[job]
None == -1

-----------------------------------------------------------------------------
\* VisualIndex.search.

\* The digest, the hash and the embedding of the file that is searched for may each
\* fail, or the lookup in FAISS; the search goes on with what there is.  What is not
\* used is not computed.
Looks == {look \in [digest: BOOLEAN, hash: BOOLEAN, embedding: BOOLEAN] :
             (look.hash => "phash" \in methods) /\ (look.embedding => "clip_faiss" \in methods /\ faiss)}

\* Mutant: the same image of the same case is not skipped.
SkipPath(row, file, look) == row.path = file.path

\* Not the file itself, nor the same image indexed for the same case; without a
\* digest no row has the same image.
Skip(row, file, look) ==
    \/ row.path = file.path
    \/ look.digest /\ row.case = Current.case /\ row.image = file.image

\* The rows whose hash is near that of the file.
PhashMatches(file, look) ==
    {row \in ToSet(assets) : /\ look.hash /\ ~Skip(row, file, look)
                            /\ Distance[file.image, row.image] <= MaxDistance}

\* The vectors that are nearest to the query, by position.
Nearest(file) ==
    LET closer(i, j) == \/ Alike[file.image, vectors[i]] > Alike[file.image, vectors[j]]
                        \/ Alike[file.image, vectors[i]] = Alike[file.image, vectors[j]] /\ i < j
    IN  {i \in DOMAIN vectors : Cardinality({j \in DOMAIN vectors : closer(j, i)}) < MaxVectors}

\* Mutant: the position in the index counts from one.
AssetOffByOne(i) == {meta[n].asset : n \in {k \in DOMAIN meta : meta[k].vector = i}}

\* Whose the vector at position i is: the last row about its identity.
AssetOf(i) ==
    LET rows == {n \in DOMAIN meta : meta[n].vector = i - 1}
    IN  IF rows = {} THEN {} ELSE {meta[Max(rows)].asset}

\* An asset is what is in a file at a path.
Asset(row) == [path |-> row.path, image |-> row.image]

\* The near vectors that are alike enough and belong to the row.
ClipMatches(row, file, look) ==
    {i \in Nearest(file) : /\ look.embedding /\ ~Skip(row, file, look)
                           /\ Asset(row) \in AssetOf(i) /\ Alike[file.image, vectors[i]] >= MinAlike}

\* What both methods find is one match.
Match(row, file, look) ==
    [row |-> row,
     distance |-> IF row \in PhashMatches(file, look) THEN Distance[file.image, row.image] ELSE None,
     alike |-> Max({Alike[file.image, vectors[i]] : i \in ClipMatches(row, file, look)} \cup {None})]

Matches(file, look) ==
    {Match(row, file, look) :
        row \in {r \in ToSet(assets) : r \in PhashMatches(file, look) \/ ClipMatches(r, file, look) # {}}}

\* _match_sort_key, by 6400: a distance of zero counts as none.
Score(m) ==
    Max({100 * (64 - (IF m.distance \in {None, 0} THEN 64 ELSE m.distance)),
         64 * (IF m.alike = None THEN 0 ELSE m.alike)})
Tie(m) == IF m.distance \in {None, 0} THEN 999 ELSE m.distance

\* Where equal matches were found: the hashes are compared first, row by row.
Place(m) ==
    (CHOOSE i \in DOMAIN assets : assets[i] = m.row) + (IF m.distance = None THEN Len(assets) ELSE 0)

\* The order of the matches.
Ahead(a, b) ==
    \/ Score(a) > Score(b)
    \/ Score(a) = Score(b) /\ Tie(a) < Tie(b)
    \/ Score(a) = Score(b) /\ Tie(a) = Tie(b) /\ Place(a) < Place(b)

\* Mutant: a match without a score is left out.
ReportedScored(file, look) == {m \in Matches(file, look) : Score(m) > 0}

\* LocalReverseImageSearch.search: the first matches become evidence.
Reported(file, look) ==
    {m \in Matches(file, look) : Cardinality({n \in Matches(file, look) : Ahead(n, m)}) < MaxMatches}

SearchImages ==
    /\ step = "search"
    /\ looked' \in [DOMAIN Current.files -> Looks]
    /\ reported' = UNION {{[file |-> f, match |-> m] : m \in Reported(Current.files[f], looked'[f])} :
                            f \in DOMAIN Current.files}
    /\ step' = "add"
    /\ UNCHANGED <<methods, assets, vectors, meta, job, fresh, faiss, crashes>>

-----------------------------------------------------------------------------
\* VisualIndex.add_assets.

NextVector == Max({meta[i].vector : i \in DOMAIN meta} \cup {None}) + 1

\* Mutant: an image that is there already gets another row.
NewFilesAll(files) == SUBSET DOMAIN files

\* Which files may get a row, each of which can be read and hashed: an image that is
\* there already gets none, nor one that an earlier file of this call gave a row.
NewFiles(files) ==
    {F \in SUBSET DOMAIN files :
        /\ \A f \in F, i \in DOMAIN assets : assets[i].image # files[f].image
        /\ \A f, g \in F : files[f].image = files[g].image => f = g}

\* The places of S in their order.
Ordered(S) == {places \in [1 .. Cardinality(S) -> S] : \A i, k \in DOMAIN places : i < k => places[i] < places[k]}

Rows(places) ==
    [n \in DOMAIN places |->
        [path |-> Current.files[places[n]].path, image |-> Current.files[places[n]].image, case |-> Current.case]]

\* Mutant: the images without an embedding are counted too.
NumberedAll(places) ==
    [n \in DOMAIN places |-> [vector |-> NextVector + places[n] - 1, asset |-> Asset(Current.files[places[n]])]]

\* The images that have an embedding are numbered, from the last number on.
Numbered(places) ==
    [n \in DOMAIN places |-> [vector |-> NextVector + n - 1, asset |-> Asset(Current.files[places[n]])]]

\* Hashing a file may fail, which skips the file; embedding may fail too.
Prepare ==
    /\ step = "add"
    /\ \E readable \in NewFiles(Current.files) :
       \E embedded \in IF "clip_faiss" \in methods THEN SUBSET readable ELSE {{}} :
       \E places \in Ordered(readable), clip \in Ordered(embedded) :
          fresh' = [rows |-> Rows(places), clip |-> Numbered(clip)]
    /\ step' = "rows" /\ looked' = <<>> /\ reported' = {}
    /\ UNCHANGED <<methods, assets, vectors, meta, job, faiss, crashes>>

AppendRows ==
    /\ step = "rows"
    /\ assets' = assets \o fresh.rows
    /\ step' = "vectors"
    /\ UNCHANGED <<methods, vectors, meta, job, fresh, looked, reported, faiss, crashes>>

\* Without FAISS no vector is written, and no error reported.
AppendVectors ==
    /\ step = "vectors"
    /\ vectors' = IF faiss THEN vectors \o [n \in DOMAIN fresh.clip |-> fresh.clip[n].asset.image] ELSE vectors
    /\ step' = "meta"
    /\ UNCHANGED <<methods, assets, meta, job, fresh, looked, reported, faiss, crashes>>

AppendMeta ==
    /\ step = "meta"
    /\ meta' = meta \o fresh.clip
    /\ step' = "end"
    /\ UNCHANGED <<methods, assets, vectors, job, fresh, looked, reported, faiss, crashes>>

NextJob ==
    /\ step = "end" /\ job < Len(Jobs)
    /\ job' = job + 1 /\ step' = "search" /\ fresh' = Nothing
    /\ faiss' \in (IF FaissChanges THEN {faiss, TRUE} ELSE {faiss})
    /\ UNCHANGED <<methods, assets, vectors, meta, looked, reported, crashes>>

\* The process ends between two files; the case is run again from its start.
Crash ==
    /\ step \in {"add", "rows", "vectors", "meta"} /\ crashes < MaxCrashes
    /\ crashes' = crashes + 1
    /\ step' = "search" /\ fresh' = Nothing /\ looked' = <<>> /\ reported' = {}
    /\ UNCHANGED <<methods, assets, vectors, meta, job, faiss>>

IndexNext ==
    SearchImages \/ Prepare \/ AppendRows \/ AppendVectors \/ AppendMeta \/ NextJob \/ Crash

IndexSpec == IndexInit /\ [][IndexNext]_indexVars

-----------------------------------------------------------------------------
\* With hashes alone nothing shifts; with embeddings, as long as no crash came
\* between two files and FAISS was there from the start or never.
Steady == "clip_faiss" \notin methods \/ (crashes = 0 /\ ~FaissChanges)

\* What the search found for the file it was given.
Asked(r) == Current.files[r.file]

\* What is reported as a visual match looks like the query: the evidence says
\* so (local_reverse_image_search.py:86).
MatchesTrue ==
    Steady => \A r \in reported :
        \/ Distance[Asked(r).image, r.match.row.image] <= MaxDistance
        \/ Alike[Asked(r).image, r.match.row.image] >= MinAlike

\* With FAISS, the vector of an image is where its number says: the search takes
\* the position of a vector for its number (visual_index.py:193-197).
Aligned ==
    Steady /\ faiss /\ step \in {"search", "end"} => \A i \in DOMAIN meta :
        /\ meta[i].vector + 1 \in DOMAIN vectors
        /\ vectors[meta[i].vector + 1] = meta[i].asset.image
        /\ \E a \in ToSet(assets) : Asset(a) = meta[i].asset

\* An image is indexed once, however often its case is run again.
IndexedOnce == \A i, k \in DOMAIN assets : assets[i].image = assets[k].image => i = k

\* No file is evidence about itself, and no image about its own case, unless the
\* digest of the query could not be computed: the code then compares with none
\* (visual_index.py:101-104, 207).
NotItself ==
    \A r \in reported :
        /\ r.match.row.path # Asked(r).path
        /\ looked[r.file].digest /\ r.match.row.case = Current.case => r.match.row.image # Asked(r).image

\* A copy of an indexed image is reported
\* (tests/test_local_reverse_image_search.py:27), if the query can be hashed, and
\* while there are not more images than become evidence.
DuplicateFound ==
    step = "add" /\ Len(assets) <= MaxMatches =>
        \A f \in DOMAIN Current.files : \A a \in ToSet(assets) :
            looked[f].hash /\ a.image = Current.files[f].image /\ ~Skip(a, Current.files[f], looked[f])
                => \E r \in reported : r.file = f /\ r.match.row = a

\* The index names the right image: what is reported looks like the query
\* (local_reverse_image_search.py:86), is not the query itself nor, where it has a
\* digest, its image indexed for the same case; a copy of a query that has a hash is found
\* (tests/test_local_reverse_image_search.py:27); the number of a vector is its
\* position (visual_index.py:193-197), and no image is indexed twice.
IndexTrue == MatchesTrue /\ Aligned /\ IndexedOnce /\ NotItself /\ DuplicateFound
=============================================================================
