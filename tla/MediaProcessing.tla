--------------------------- MODULE MediaProcessing ---------------------------
(***************************************************************************)
(* What becomes of one medium of a case: metadata, keyframes, text, scene, *)
(* forensics, speech and earlier uses of the same picture. Every stage may *)
(* lack its tool, fail, or answer anything; what it leaves are pieces of   *)
(* evidence. Source: src/processing/ and, for what the evidence is taken   *)
(* for, src/argumentation/argument_generator.py.                           *)
(*                                                                         *)
(* Target 0 is the medium itself, 1, 2, ... are the frames of a video.     *)
(* A piece of evidence is [type, seen, flags, says]; a flag is named       *)
(* without the exception the code appends to it.                           *)
(***************************************************************************)
EXTENDS Integers, FiniteSets, Functions, FiniteSetsExt

CONSTANT
    Settings  \* [name -> media, configuration, and what tools and models may answer]

\* A result of TruFor, in percent; no result, and a result without a score.
Failed == -2
Unscored == -1
Threshold == 50

ForensicCues == {"low_noise_possible_recompression", "black_border_or_recapture_cue"}

\* The look of a picture: neighbours resemble each other; 0 is unreadable.
ASSUME MediaAssumption ==
    \A s \in DOMAIN Settings : LET S == Settings[s] IN
        /\ \A medium \in S.media :
              /\ medium.type \in {"image", "video"} /\ medium.exists \in BOOLEAN
              /\ medium.look \in [0 .. S.maxFrames -> Nat]
        /\ S.engine \in {"disabled", "basic", "trufor"} /\ S.fallbacks \subseteq BOOLEAN
        /\ {S.maxFrames, S.maxTargets} \subseteq Nat \ {0}
        /\ S.readings \subseteq {"read", "empty", "metadata_tool_failed", "metadata_json_parse_failed"}
        /\ S.speeches \subseteq {"speech", "asr_low_confidence", "asr_adapter_unavailable", "asr_empty_transcript",
                                 "asr_adapter_disabled", "ffmpeg_audio_extract_failed", "no_audio_stream"}
        /\ S.scores \subseteq Failed .. 100 /\ S.cues \subseteq ForensicCues

VARIABLES
    setting,   \* the name of the setting
    world,     \* the medium, its file, its frames and the tools
    stage,     \* where RawMediaProcessor.process is
    read,      \* what ExifTool came to
    frames,    \* frames of the video that were extracted, and those kept
    evidence,
    scores,    \* results of TruFor, by target
    report,    \* of the forensic report: highest score and strongest target
    indexed    \* targets given to the visual index

mediaVars == <<setting, world, stage, read, frames, evidence, scores, report, indexed>>

Setting == Settings[setting]

NoReport == [max |-> Unscored, named |-> 0, listed |-> 0]

MediaInit ==
    /\ setting \in DOMAIN Settings /\ world \in Setting.media
    /\ stage = "metadata" /\ read = "unread"
    /\ frames = [extracted |-> {}, kept |-> {}]
    /\ evidence = {} /\ scores = <<>> /\ report = NoReport /\ indexed = {}

Item(type, seen, flags, says) == [type |-> type, seen |-> seen, flags |-> flags, says |-> says]
Unavailable(seen, flag) == Item("synthetic_uncertainty", seen, {flag}, "unavailable")
Video == world.type = "video"
Has(tool) == tool \in world.tools
Readable(target) == world.look[target] # 0

-----------------------------------------------------------------------------
\* MetadataExtractor: ExifTool, FFprobe, and what Pillow reads of an image.

Opened == world.exists /\ ~Video /\ Readable(0)

BasicFlags ==
    CASE ~world.exists -> {"media_file_missing", "metadata_missing"}
      [] world.exists /\ ~Video /\ ~Readable(0) -> {"image_metadata_unreadable"}
      [] OTHER -> {}

Parsed(reading) == IF reading = "read" THEN world.facts \cup {"file"} ELSE {}

\* Mutant: what Pillow read is forgotten.
KnownFactsParsed(parsed) == parsed

KnownFacts(parsed) == parsed \cup IF Opened THEN world.facts \ {"gps"} ELSE {}

QualityFlags(parsed, engine) ==
    {flag \in {"metadata_missing", "gps_missing", "creation_time_missing",
               "software_tag_suspicious", "metadata_stripped"} :
        CASE flag = "metadata_missing" -> parsed = {}
          [] flag = "gps_missing" -> "gps" \notin parsed
          [] flag = "creation_time_missing" -> "creation" \notin KnownFacts(parsed)
          [] flag = "software_tag_suspicious" -> engine = "exiftool" /\ "editor" \in KnownFacts(parsed)
          [] flag = "metadata_stripped" -> engine = "exiftool" /\ parsed = {}}

ToolItem(tool, type, missing, reading) ==
    IF Has(tool) /\ world.exists
    THEN Item(type, {0},
              BasicFlags \cup QualityFlags(Parsed(reading), tool)
                         \cup ({reading} \cap {"metadata_tool_failed", "metadata_json_parse_failed"}),
              "metadata")
    ELSE Unavailable({0}, IF world.exists THEN missing ELSE "metadata_missing")

ExtractMetadata ==
    /\ stage = "metadata"
    /\ \E exif, probe \in Setting.readings :
         /\ evidence' = {ToolItem("exiftool", "metadata_exiftool", "exiftool_missing", exif),
                         ToolItem("ffprobe", "metadata_ffprobe", "ffprobe_missing", probe)}
         /\ read' = IF Has("exiftool") /\ world.exists THEN exif ELSE "unread"
    /\ stage' = IF Video THEN "keyframes" ELSE "ocr"
    /\ UNCHANGED <<setting, world, frames, scores, report, indexed>>

-----------------------------------------------------------------------------
\* SceneKeyframeExtractor: scenes, or else uniform times; frames that fail are
\* left out, and so is a frame that resembles one kept before.

\* Two perceptual hashes are at most four bits apart (external: imagehash).
Resemble(f, g) == Readable(f) /\ Readable(g) /\ world.look[f] - world.look[g] \in -1 .. 1

\* Mutant: a frame is compared with the last one kept only.
DeduplicateNeighbours(some) ==
    IF ~Has("imagehash") THEN some
    ELSE CHOOSE kept \in SUBSET some :
            \A f \in some : f \in kept <=>
               \A k \in kept : k < f /\ (\A l \in kept : l <= k \/ l >= f) => ~Resemble(f, k)

\* Mutant: the frames that are kept are numbered from 0.
DeduplicateShifted(some) == {f - 1 : f \in some}

\* What the pass keeps: a frame stays unless it resembles one kept before it.
Deduplicate(some) ==
    IF ~Has("imagehash") THEN some
    ELSE CHOOSE kept \in SUBSET some :
            \A f \in some : f \in kept <=> \A k \in kept : k < f => ~Resemble(f, k)

\* Without the duration of the video there is one uniform time, the start.
Times(scenes) ==
    CASE scenes > 0 -> scenes
      [] scenes = 0 /\ Has("ffprobe") -> Setting.maxFrames
      [] OTHER -> 1

Extracted(some) ==
    /\ frames' = [extracted |-> some, kept |-> Deduplicate(some)]
    /\ evidence' = evidence \cup
          IF some = {} THEN {Unavailable({0}, "video_keyframes_unavailable")}
          ELSE {Item("scene_keyframe", {f}, {}, "frame") : f \in Deduplicate(some)}

ExtractKeyframes ==
    /\ stage = "keyframes"
    /\ \/ (~world.exists \/ ~Has("ffmpeg")) /\ Extracted({})
       \/ /\ world.exists /\ Has("ffmpeg")
          /\ \E scenes \in 0 .. Setting.maxFrames : \E good \in SUBSET (1 .. Times(scenes)) : Extracted(good)
    /\ stage' = "ocr"
    /\ UNCHANGED <<setting, world, read, scores, report, indexed>>

Targets == IF Video THEN frames.kept ELSE IF world.exists THEN {0} ELSE {}

-----------------------------------------------------------------------------
\* OCRExtractor, VLMVisualAnalyzer and ASRExtractor.

\* One text is one piece of evidence, whatever frames it is read on.
ReadText ==
    /\ stage = "ocr"
    /\ \E text \in [Targets -> Setting.texts] :
          LET on(answer) == {t \in Targets : text[t] = answer}
          IN  evidence' = evidence
                 \cup {Unavailable({t}, "ocr_failed") : t \in on("failed")}
                 \cup {Item("ocr", on(answer), {}, answer) :
                          answer \in Range(text) \ {"failed", "nothing"}}
    /\ stage' = "vlm"
    /\ UNCHANGED <<setting, world, read, frames, scores, report, indexed>>

\* Mutant: a picture the model does not answer for is passed over.
SceneItemSilent(target, answer) ==
    IF answer \in {"failed", "nothing"} THEN {}
    ELSE {Item("visual_caption", {target}, {answer} \cap {"vlm_unsure"}, "scene")}

SceneItem(target, answer) ==
    CASE answer = "failed" -> {Unavailable({target}, "vlm_adapter_failed")}
      [] answer = "nothing" -> {Unavailable({target}, "vlm_empty_output")}
      [] OTHER -> {Item("visual_caption", {target}, {answer} \cap {"vlm_unsure"}, "scene")}

\* An answer whose list of uncertainties is null is read outside the try: the
\* exception leaves process, and the case ends.
DescribeScenes ==
    /\ stage = "vlm"
    /\ \E answer \in [Targets -> Setting.scenes] :
          IF \E t \in Targets : answer[t] = "null_flags"
          THEN stage' = "error" /\ UNCHANGED evidence
          ELSE /\ stage' = "forensics"
               /\ evidence' = evidence \cup UNION {SceneItem(t, answer[t]) : t \in Targets}
    /\ UNCHANGED <<setting, world, read, frames, scores, report, indexed>>

Transcribe ==
    /\ stage = "asr"
    /\ \E answer \in Setting.speeches :
          evidence' = evidence \cup
             CASE ~world.exists -> {Unavailable({0}, "asr_media_missing")}
               [] world.exists /\ ~Has("ffmpeg") -> {Unavailable({0}, "ffmpeg_audio_extract_failed")}
               [] world.exists /\ Has("ffmpeg") /\ answer \notin {"speech", "asr_low_confidence"} ->
                     {Unavailable({0}, answer)}
               [] OTHER -> {Item("asr", {0}, {answer} \cap {"asr_low_confidence"}, "speech")}
    /\ stage' = "reverse"
    /\ UNCHANGED <<setting, world, read, frames, scores, report, indexed>>

-----------------------------------------------------------------------------
\* ForensicAnalyzer with the TruFor backend.

ForensicTargets == IF Targets = {} /\ world.exists THEN {0} ELSE Targets

\* The first ones.
Candidates ==
    {t \in ForensicTargets : Cardinality({u \in ForensicTargets : u < t}) < Setting.maxTargets}

\* The words of an editor are looked for in the whole record, which holds the
\* description of the medium.
MetadataFlags ==
    LET items == {e \in evidence : e.says = "metadata" \/ "exiftool_missing" \in e.flags
                     \/ "ffprobe_missing" \in e.flags \/ "metadata_missing" \in e.flags}
        parsed == \E e \in items : e.says = "metadata" /\ "metadata_missing" \notin e.flags
        named == world.described \/ ("editor" \in world.facts /\ (Opened \/ parsed))
    IN  UNION {e.flags : e \in items} \cup IF named THEN {"software_tag_suspicious"} ELSE {}

Basic(extra) ==
    \E cues \in SUBSET Setting.cues :
      LET looked == \E t \in Candidates : Readable(t)
          flags == MetadataFlags \cup (IF looked THEN cues ELSE {})
                      \cup (IF ~looked /\ ~Video THEN {"forensic_image_unreadable"} ELSE {})
          says == CASE "metadata_stripped" \in flags -> "stripped"
                    [] flags = {} -> "clear"
                    [] OTHER -> "caution"
      IN  /\ evidence' = evidence \cup
                {Item("forensic_analysis", Candidates, flags \cup extra, says)}
          /\ UNCHANGED report

\* Mutant: the tags of the fallback are forgotten.
FallbackUntagged(flag) == TRUE \in Setting.fallbacks /\ Basic({})

FallbackOrUncertainty(flag) ==
    \/ TRUE \in Setting.fallbacks /\ Basic({flag, "deep_forensic_fallback"})
    \/ /\ FALSE \in Setting.fallbacks /\ UNCHANGED report
       /\ evidence' = evidence \cup {Unavailable({0}, flag)}

\* Mutant: one target without a score is taken for a failure of all.
AllFailedAny(result) == \E t \in DOMAIN result : result[t].score < 0

AllFailed(result) == \A t \in DOMAIN result : result[t].score < 0

ResultFlags(r) ==
    {flag \in {"deep_forensic_inference_failed", "deep_forensic_high_manipulation_score",
               "deep_forensic_low_confidence"} :
        CASE flag = "deep_forensic_inference_failed" -> r.score = Failed
          [] flag = "deep_forensic_high_manipulation_score" -> r.score >= Threshold
          [] flag = "deep_forensic_low_confidence" -> r.score # Failed /\ r.unsure}

First(targets) == Min(targets)

\* The text names the target of the highest score, the metadata the first one
\* whose score is high. Not all failed: there is a score.
DeepReport(result) ==
    LET highest == Max({result[t].score : t \in DOMAIN result})
        flags == UNION {ResultFlags(result[t]) : t \in DOMAIN result}
    IN  /\ evidence' = evidence \cup
              {Item("forensic_analysis", DOMAIN result, flags,
                    IF highest >= Threshold THEN "deep_cues" ELSE "deep_clear")}
        /\ report' = IF highest < Threshold THEN [NoReport EXCEPT !.max = highest]
                     ELSE [max |-> highest,
                           named |-> First({t \in DOMAIN result : result[t].score = highest}),
                           listed |-> First({t \in DOMAIN result : result[t].score >= Threshold})]

Result == {r \in [score : Setting.scores, unsure : BOOLEAN] : r.score = Failed => ~r.unsure}

\* The backend is missing, or answers for each target by itself.
Deep ==
    \/ /\ ~Has("trufor") /\ scores' = <<>>
       /\ FallbackOrUncertainty("deep_forensic_backend_unavailable")
    \/ /\ Has("trufor")
       /\ \E result \in [Candidates -> Result] :
             /\ \A t \in DOMAIN result : ~Readable(t) => result[t].score = Failed
             /\ scores' = result
             /\ IF AllFailed(result) THEN FallbackOrUncertainty("deep_forensic_inference_failed")
                ELSE DeepReport(result)

Unexamined(flag) ==
    /\ evidence' = evidence \cup {Unavailable({0}, flag)}
    /\ UNCHANGED <<scores, report>>

AnalyzeForensics ==
    /\ stage = "forensics"
    /\ CASE Setting.engine = "disabled" -> Unexamined("forensic_adapter_disabled")
         [] Setting.engine # "disabled" /\ Candidates = {} -> Unexamined("forensic_media_missing")
         [] Setting.engine = "basic" /\ Candidates # {} -> Basic({}) /\ UNCHANGED scores
         [] Setting.engine = "trufor" /\ Candidates # {} -> Deep
    /\ stage' = IF Video THEN "asr" ELSE "reverse"
    /\ UNCHANGED <<setting, world, read, frames, indexed>>

-----------------------------------------------------------------------------
\* LocalReverseImageSearch: the search comes before the pictures are added.
ReverseSearch ==
    /\ stage = "reverse"
    /\ \E answer \in [Targets -> Setting.matches] :
          evidence' = evidence
             \cup {Unavailable({t}, "local_reverse_search_failed") : t \in {u \in Targets : answer[u] = "failed"}}
             \cup {Item("reverse_image_local", {t}, {}, "match") : t \in {u \in Targets : answer[u] = "match"}}
    /\ indexed' = Targets
    /\ stage' = "done"
    /\ UNCHANGED <<setting, world, read, frames, scores, report>>

MediaNext ==
    \/ ExtractMetadata \/ ExtractKeyframes \/ ReadText \/ DescribeScenes
    \/ AnalyzeForensics \/ Transcribe \/ ReverseSearch

MediaSpec == MediaInit /\ [][MediaNext]_mediaVars

-----------------------------------------------------------------------------
\* ArgumentGenerator._infer_stance, for the argument that is made of one piece
\* of evidence. Of the texts written here, those of TruFor hold the word "not".

NeutralFlags ==
    {"exiftool_missing", "ffprobe_missing", "metadata_missing", "metadata_json_parse_failed",
     "metadata_tool_failed", "gps_missing", "creation_time_missing", "media_file_missing",
     "forensic_media_missing", "forensic_image_unreadable", "video_keyframes_unavailable",
     "asr_media_missing", "local_reverse_search_failed"}

\* Mutant: one flag of a missing tool makes the others neutral.
StanceAny(e) ==
    CASE e.type = "synthetic_uncertainty" -> "neutral"
      [] e.type # "synthetic_uncertainty" /\ e.says \in {"deep_clear", "deep_cues"} -> "attack"
      [] e.type # "synthetic_uncertainty" /\ e.says \notin {"deep_clear", "deep_cues"} ->
            IF e.flags = {} THEN "support"
            ELSE IF e.flags \cap NeutralFlags # {} THEN "neutral" ELSE "attack"

Stance(e) ==
    CASE e.type = "synthetic_uncertainty" -> "neutral"
      [] e.type # "synthetic_uncertainty" /\ e.says \in {"deep_clear", "deep_cues"} -> "attack"
      [] e.type # "synthetic_uncertainty" /\ e.says \notin {"deep_clear", "deep_cues"} ->
            IF e.flags = {} THEN "support"
            ELSE IF e.flags \subseteq NeutralFlags THEN "neutral" ELSE "attack"

Forensic == {e \in evidence : e.type = "forensic_analysis"}
Examined == stage \in {"asr", "reverse", "done"}

(***************************************************************************)
(* One type invariant: the stages, the frames and the evidence.            *)
(***************************************************************************)
MediaTypeOK ==
    /\ world.type \in {"image", "video"} /\ world.exists \in BOOLEAN
    /\ world.look \in [0 .. Setting.maxFrames -> Nat]
    /\ stage \in {"metadata", "keyframes", "ocr", "vlm", "forensics", "asr", "reverse", "done", "error"}
    /\ frames.kept \subseteq frames.extracted
    /\ \A e \in evidence : e.seen \subseteq 0 .. Setting.maxFrames

(***************************************************************************)
(* Where TruFor gave no result, the evidence says so: for every target, by *)
(* the tags of the fallback or of the uncertainty (README.md:596), for one *)
(* of several, by the flag of that target.                                 *)
(***************************************************************************)
FallbackTold ==
    Examined /\ Setting.engine = "trufor" /\ Candidates # {} =>
        \/ DOMAIN scores # {} /\ \A t \in DOMAIN scores : scores[t].score # Failed
        \/ \E e \in evidence :
             /\ e.flags \cap {"deep_forensic_backend_unavailable", "deep_forensic_inference_failed"} # {}
             /\ e.says \in {"clear", "caution", "stripped"} => "deep_forensic_fallback" \in e.flags

(***************************************************************************)
(* A picture that TruFor scores high is reported, with that score, however *)
(* many of the others fail: no failure of one target hides the cue of      *)
(* another.                                                                *)
(***************************************************************************)
CuesReported ==
    Examined /\ (\E t \in DOMAIN scores : scores[t].score >= Threshold) =>
        /\ \E e \in Forensic : e.says = "deep_cues" /\ "deep_forensic_high_manipulation_score" \in e.flags
        /\ \A t \in DOMAIN scores : scores[t].score <= report.max

(***************************************************************************)
(* The frames that are kept stand for all that were extracted, and no two  *)
(* of them resemble each other, although resemblance is not transitive.    *)
(***************************************************************************)
FramesStand ==
    Has("imagehash") =>
        /\ \A f \in frames.extracted : \E k \in frames.kept : k = f \/ Resemble(f, k)
        /\ \A f, k \in frames.kept : f # k => ~Resemble(f, k)

(***************************************************************************)
(* A medium that comes through leaves, for every picture the others were   *)
(* given, a description or the reason there is none; a medium without      *)
(* pictures leaves the reason for that.                                    *)
(***************************************************************************)
GapsTold ==
    stage = "done" =>
        /\ \A t \in Targets : \E e \in evidence :
              /\ t \in e.seen
              /\ \/ e.type = "visual_caption"
                 \/ e.flags \cap {"vlm_adapter_failed", "vlm_empty_output"} # {}
        /\ Targets = {} => \E e \in evidence :
              e.flags \cap {"metadata_missing", "video_keyframes_unavailable"} # {}

(***************************************************************************)
(* An image that carries the tag of an editor is reported as such, also    *)
(* when ExifTool fails on it: Pillow has read the tag.                     *)
(***************************************************************************)
EditorReported ==
    Examined /\ Opened /\ "editor" \in world.facts /\ read # "unread" =>
        \E e \in evidence : e.type = "metadata_exiftool" /\ "software_tag_suspicious" \in e.flags

(***************************************************************************)
(* A detected signal drives an attack (argument_generator.py:22-25): no    *)
(* report that carries one is argued for support or taken for a missing    *)
(* tool, whatever else was missing beside it.                              *)
(***************************************************************************)
Signals == ForensicCues \cup {"software_tag_suspicious", "metadata_stripped", "deep_forensic_high_manipulation_score"}

SignalsArgued == \A e \in evidence : e.flags \cap Signals # {} => Stance(e) = "attack"

(***************************************************************************)
(* The evidence of a medium hides nothing: no failure of a target or a     *)
(* tool hides a cue or the tag of an editor or goes untold, what was       *)
(* detected is argued as an attack, the frames that are kept stand for     *)
(* all, and every picture has a description or the reason there is none.   *)
(***************************************************************************)
NothingHidden ==
    /\ MediaTypeOK
    /\ FallbackTold /\ EditorReported /\ CuesReported /\ SignalsArgued
    /\ FramesStand /\ GapsTold
=============================================================================
