----------------------------- MODULE MCEvidence ------------------------------
(***************************************************************************)
(* Instances of the modules that bring evidence.  They share no state: two *)
(* are at rest while one is explored.                                      *)
(***************************************************************************)
EXTENDS MediaProcessing, VisualIndex, GdeltResearch

VARIABLE explored

evidenceVars == <<mediaVars, indexVars, researchVars, explored>>

-----------------------------------------------------------------------------
\* Media.  No video is opened as a picture, and an image has no frames.
Media(types, toolsets, factsets, looks, maxFrames) ==
    {w \in [type : types, exists : BOOLEAN, tools : toolsets, facts : factsets,
            described : BOOLEAN, look : [0 .. maxFrames -> looks]] :
        /\ ~w.described
        /\ w.type = "video" => w.look[0] = 0
        /\ w.type = "image" => \A f \in 1 .. maxFrames : w.look[f] = 0}

Tools == {"exiftool", "ffprobe", "ffmpeg", "imagehash", "trufor"}

\* Images and videos, with every tool missing in turn.
AnyMedium ==
    Media({"image", "video"}, {Tools, Tools \ {"trufor"}, Tools \ {"ffmpeg"}, Tools \ {"exiftool"}},
          {{}, {"gps", "creation"}, {"gps", "creation", "editor"}}, {0, 1, 3}, 2)

\* Videos of three frames, with all resemblances.
Videos == Media({"video"}, {Tools, Tools \ {"ffprobe", "imagehash"}}, {{"gps", "creation"}}, 0 .. 3, 3)

MediaSettings ==
    [forensics |->
        [media |-> AnyMedium, engine |-> "trufor", fallbacks |-> BOOLEAN, maxFrames |-> 2, maxTargets |-> 2,
         readings |-> {"read", "empty", "metadata_tool_failed"}, texts |-> {"nothing"},
         scenes |-> {"vlm_unsure"}, speeches |-> {"speech"}, matches |-> {"failed"},
         scores |-> {-2, -1, 49, 50}, cues |-> {"black_border_or_recapture_cue"}],
     frames |->
        [media |-> Videos, engine |-> "basic", fallbacks |-> BOOLEAN, maxFrames |-> 3, maxTargets |-> 2,
         readings |-> {"read"}, texts |-> {"failed", "sign"},
         scenes |-> {"scene", "failed", "nothing", "null_flags"},
         speeches |-> {"asr_low_confidence", "no_audio_stream"}, matches |-> {"match"},
         scores |-> {}, cues |-> {}]]

-----------------------------------------------------------------------------
\* An image, one that looks like it, and one that does not, in three cases.
Pictures == {"street", "crop", "bridge"}
PictureDistance == [p \in Pictures \X Pictures |->
    IF p[1] = p[2] THEN 0 ELSE IF "bridge" \in {p[1], p[2]} THEN 30 ELSE 6]
PictureAlike == [p \in Pictures \X Pictures |->
    IF p[1] = p[2] THEN 100 ELSE IF "bridge" \in {p[1], p[2]} THEN 20 ELSE 90]

File(path, image) == [path |-> path, image |-> image]
PictureJobs == <<
    [case |-> "c1", files |-> <<File("a.jpg", "street"), File("b.jpg", "bridge")>>],
    [case |-> "c2", files |-> <<File("copy.jpg", "street"), File("crop.jpg", "crop")>>],
    [case |-> "c1", files |-> <<File("a2.jpg", "street"), File("b.jpg", "street")>>]>>

\* Hashes alone; hashes and embeddings.
PictureMethods == {{"phash"}, {"phash", "clip_faiss"}}

-----------------------------------------------------------------------------
\* Two claims that share a query, on one thread and on two.
MCClaims == {"c1", "c2"}
MCQueries == [c \in MCClaims |-> IF c = "c1" THEN <<"q1", "q2", "q3">> ELSE <<"q2">>]
MCCaches == {{}, {"q1", "old"}}

-----------------------------------------------------------------------------
SomeMedium == CHOOSE w \in Videos : TRUE
MediaAtRest == MediaInit /\ setting = "frames" /\ world = SomeMedium
IndexAtRest == IndexInit /\ methods = {"phash"} /\ faiss
ResearchAtRest == ResearchInit /\ threads = 1 /\ cache = {}

EvidenceInit ==
    \/ explored = "media" /\ MediaInit /\ IndexAtRest /\ ResearchAtRest
    \/ explored = "index" /\ IndexInit /\ MediaAtRest /\ ResearchAtRest
    \/ explored = "research" /\ ResearchInit /\ MediaAtRest /\ IndexAtRest

MediaStep ==
    /\ explored = "media" /\ MediaNext
    /\ UNCHANGED <<explored, indexVars, researchVars>>

IndexStep ==
    /\ explored = "index" /\ IndexNext
    /\ UNCHANGED <<explored, mediaVars, researchVars>>

Rest == explored = "research" /\ UNCHANGED <<explored, mediaVars, indexVars>>
ResearchStep == ResearchNext /\ Rest
TimePasses == Tick /\ Rest
Works(c) == Thread(c) /\ Rest

EvidenceSpec ==
    /\ EvidenceInit /\ [][MediaStep \/ IndexStep \/ ResearchStep]_evidenceVars
    /\ WF_evidenceVars(TimePasses) /\ \A c \in Claims : WF_evidenceVars(Works(c))

-----------------------------------------------------------------------------
\* Every claim gets its evidence in the end, through all retries and sleeps.
EvidenceComes == explored = "research" => ResearchEnds
=============================================================================
