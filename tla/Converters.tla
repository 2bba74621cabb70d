------------------------------ MODULE Converters ------------------------------
(***************************************************************************)
(* One attempt of convert_one (commands/job/transform: worker.rs, format.rs, *)
(* media.rs, documents.rs, soffice.rs, sheets.rs, procreate.rs, icns.rs,     *)
(* vobject.rs): which converter an input kind goes to, what is checked before *)
(* and after the external tool, and what each error is taken for.  The tools  *)
(* are external: what one does in an attempt is a Run.                        *)
(***************************************************************************)
EXTENDS FiniteSets

Copied == {"jpeg", "pdf", "txt", "svg"}
Flattened == {"avif", "tif", "tiff", "webp", "bmp"}
Still == {"png", "heic", "ico", "icns"} \cup Flattened
Video == {"mov", "m4v", "mp4"}
Audio == {"mp4-audio", "m4a", "mp3", "aac", "wav", "opus"}
Office == {"doc", "docx", "pages", "rtf", "pptx", "key", "ai", "emz"}
Markup == {"md", "rst"}
InProcess == {"textclipping", "tsv", "ics", "vcf", "procreate", "procreate-2"}
Spreadsheets == {"numbers", "xlsx", "xls", "csv"}
Kinds == Copied \cup Still \cup Video \cup Audio \cup Office \cup Markup \cup InProcess
           \cup Spreadsheets \cup {"eps", "epub"}

\* What the bytes are: of the run's kind, a message rendered as Markdown, of
\* another kind, or damaged.
Natures == {"good", "email", "wrongKind", "broken"}

\* What goes wrong in an attempt; "signalPart" and "exitPart" leave the beginning
\* of an output behind; after "part", "nearly" and "unread" the tool exits 0 with
\* one that is cut short, by no more than is_truncated_encode allows, or where
\* ffprobe reads one of the two files' length or size and not the other's; "blind"
\* is a has_video_stream whose ffprobe fails.
Runs == {"clean", "spawn", "exit", "signal", "timeout", "exitPart", "signalPart", "part",
         "nearly", "unread", "blind"}

\* An output: all of the file, what is short of it and no guard sees, or a part.
Extents == {"whole", "short", "part"}

\* "again" is an error that may be retried, "no" one that is not, "wrongKind" one
\* that says the file is not of the run's kind.
Verdicts == Extents \cup {"again", "no", "wrongKind"}

\* What a tool leaves; of bytes that are damaged or of another kind it makes
\* nothing or something.
Written(nature, run) ==
  CASE run \in {"spawn", "exit", "signal", "timeout"} -> {"nothing"}
    [] run \in {"exitPart", "signalPart", "part"} -> {"part"}
    [] run \in {"nearly", "unread"} -> {"short"}
    [] OTHER -> IF nature = "good" THEN {"whole"} ELSE {"nothing", "part"}

\* The tool ends by itself and says that all is well, which ffmpeg does of many a
\* damaged file.
Exited0(run) == run \in {"clean", "blind", "part", "nearly", "unread"}

\* Where the exit status decides, and no output is an error.
Accepted(nature, run) ==
  IF Exited0(run) THEN {IF w = "nothing" THEN "wrongKind" ELSE w : w \in Written(nature, run)}
  ELSE {"wrongKind"}

\* has_video_stream: false as well when ffprobe fails, which it may on a damaged
\* file.  Cover art is no video stream.
HasVideo(kind, nature, run) ==
  IF run = "blind" THEN {FALSE}
  ELSE IF nature = "broken" THEN BOOLEAN
  ELSE {(nature = "good") = (kind \in Video)}

\* The pixel-area guard: a still image that is not the whole canvas has another
\* area.  Not asked where ffprobe cannot read one of the two files.
FullSize(kind, run) == kind \in Still => run \notin {"part", "nearly"}

\* Mistake: a shortened output is not noticed.
AnyLength(kind, run) == TRUE

\* is_truncated_encode: a cut stream shortens a video or an audio output.  Half a
\* second and 2 % are let pass, and nothing is compared where ffprobe cannot read
\* one of the two lengths.
LongEnough(kind, run) == kind \in Video \cup Audio => run # "part"

\* What ffmpeg and the guards make of an input it was given.  Some of what it says
\* when it fails, and another area, is in NON_RETRYABLE_SIGNATURES; a shortened
\* duration is not.
Transcode(kind, nature, run) ==
  IF run \in {"spawn", "signal", "signalPart"} THEN {"again"}
  ELSE IF ~Exited0(run) THEN {"again", "no"}
  ELSE IF nature # "good" THEN {"again", "no", "part"}
  ELSE IF ~FullSize(kind, run) THEN {"no"}
  ELSE IF ~LongEnough(kind, run) THEN {"again"}
  ELSE Written(nature, run)

\* largest_entry: no container, or no image in it ffmpeg reads.
LargestEntry(nature) == nature = "good"

\* transcode_still; for an icns the largest image in it.
TranscodeStill(kind, nature, run) ==
  IF kind = "icns" /\ ~LargestEntry(nature) THEN {"wrongKind"} ELSE Transcode(kind, nature, run)

\* transcode_video: audio only is refused before ffmpeg runs.
TranscodeVideo(kind, nature, run) ==
  UNION {IF video THEN Transcode(kind, nature, run) ELSE {"wrongKind"} :
         video \in HasVideo(kind, nature, run)}

\* transcode_audio: a video is refused, unless ffprobe fails; then its audio is
\* all that comes out.
TranscodeAudio(kind, nature, run) ==
  UNION {IF video THEN {"wrongKind"} ELSE Transcode(kind, nature, run) :
         video \in HasVideo(kind, nature, run)}

\* soffice::convert: whatever the exit status, a non-empty file is the output.
Soffice(nature, run) ==
  CASE run = "spawn" -> {"no"}
    [] run = "timeout" -> {"wrongKind"}
    [] OTHER -> {IF w # "nothing" THEN w ELSE IF run = "signal" THEN "no" ELSE "wrongKind" :
                 w \in Written(nature, run)}

\* ensure_keynote: a .key that is no zip is no presentation.
EnsureKeynote(kind, nature) == kind = "key" => nature # "wrongKind"

\* to_pdf, to_svg.
ToOffice(kind, nature, run) ==
  IF EnsureKeynote(kind, nature) THEN Soffice(nature, run) ELSE {"wrongKind"}

\* svg_draws_something: the beginning of an SVG may draw nothing yet.
DrawsSomething(v) == IF v = "part" THEN {v, "no"} ELSE {v}

\* eps_to_svg.  Ghostscript must exit 0 and write something; what soffice makes of
\* its PDF must draw something.  tool says which of the two the run is.
EpsToSvg(nature, tool, run) ==
  IF tool = "gs" THEN IF run = "spawn" THEN {"no"} ELSE Accepted(nature, run)
  ELSE UNION {DrawsSomething(v) : v \in Soffice(nature, run)}

\* epub_to_pdf: as soffice, without a timeout and without telling a crash.
EpubToPdf(nature, run) ==
  IF run = "spawn" THEN {"no"}
  ELSE {IF w = "nothing" THEN "wrongKind" ELSE w : w \in Written(nature, run)}

\* markup_to_text: pandoc's exit status decides.
MarkupToText(nature, run) == IF run = "spawn" THEN {"no"} ELSE Accepted(nature, run)

\* tsv_to_csv; the csv reader is flexible, so that it reads most of what is text.
\* What is no text, or has no rows, is an error.
TsvToCsv(nature, run) ==
  IF run # "clean" THEN {"no"}
  ELSE IF nature = "good" THEN {"whole"} ELSE {"wrongKind", "no", "part"}

\* clipping_to_text.
ClippingToText(nature, run) ==
  IF nature # "good" THEN {"wrongKind"} ELSE IF run # "clean" THEN {"no"} ELSE {"whole"}

\* has_begin: the file is of the kind if it has the BEGIN line.
HasBegin(nature) == nature \in {"good", "broken"}

\* ics_to_text, vcf_to_text: refused without its BEGIN line, lossy otherwise, so
\* that damage goes unnoticed.
RenderText(nature, run) ==
  IF ~HasBegin(nature) THEN {"wrongKind"}
  ELSE IF run # "clean" THEN {"no"}
  ELSE IF nature = "good" THEN {"whole"} ELSE {"part"}

\* Document::parse, assemble: what is no archive with a document in it, or lacks
\* a tile's data, is not read.
ReadDocument(nature) == nature \in {"good", "broken"}

\* verify_against_thumbnail: tiles gone wrong show.
MatchesThumbnail(nature) == nature = "good"

\* export_png: an image that differs from the document's own thumbnail is refused,
\* and is no sign of a wrong kind.
ExportPng(nature, run) ==
  IF ~ReadDocument(nature) THEN {"wrongKind"}
  ELSE IF ~MatchesThumbnail(nature) \/ run # "clean" THEN {"no"} ELSE {"whole"}

\* split_workbook_blocking: a file that does not open as a workbook, or has no
\* sheet with anything in it, is of another kind; a sheet that cannot be read, is
\* too large or cannot be written is an error of its own.
SplitWorkbook(nature, run) ==
  CASE nature = "wrongKind" -> {"wrongKind"}
    [] nature = "broken" -> {"wrongKind", "no"}
    [] OTHER -> IF run = "clean" THEN {"whole"} ELSE {"no"}

\* convert_spreadsheet.  calamine does not open the beginning of an .xlsx; what
\* soffice makes of a damaged .numbers it may.
Spreadsheet(kind, nature, tool, run) ==
  CASE kind = "csv" -> IF run = "clean" THEN {"whole"} ELSE {"no"}
    [] kind = "numbers" /\ tool = "soffice" ->
         IF "part" \in Written("good", run) THEN {"wrongKind"} ELSE Soffice(nature, run)
    [] OTHER -> SplitWorkbook(nature, run)

\* The tools of a kind; the verdict is that of the one a run goes wrong in.
Tools(kind) ==
  CASE kind \in Still \cup Video \cup Audio -> {"ffmpeg"}
    [] kind \in Office -> {"soffice"}
    [] kind = "eps" -> {"gs", "soffice"}
    [] kind = "numbers" -> {"soffice", "none"}
    [] kind = "epub" -> {"ebook-convert"}
    [] kind \in Markup -> {"pandoc"}
    [] OTHER -> {"none"}

\* What can go wrong with a tool.
RunsOf(tool) ==
  CASE tool = "none" -> {"clean", "exit"}
    [] tool = "ffmpeg" -> Runs \ {"timeout"}
    [] tool \in {"soffice", "gs"} -> Runs \ {"blind", "nearly", "unread"}
    [] OTHER -> Runs \ {"blind", "nearly", "unread", "timeout"}

\* convert_one: what an attempt may come to.
Verdict(kind, nature, tool, run) ==
  CASE kind \in Spreadsheets -> Spreadsheet(kind, nature, tool, run)
    [] kind \in Copied -> IF run = "clean" THEN {"whole"} ELSE {"no"}
    [] kind \in Still -> TranscodeStill(kind, nature, run)
    [] kind \in Video -> TranscodeVideo(kind, nature, run)
    [] kind \in Audio -> TranscodeAudio(kind, nature, run)
    [] kind \in Office -> ToOffice(kind, nature, run)
    [] kind = "eps" -> EpsToSvg(nature, tool, run)
    [] kind = "epub" -> EpubToPdf(nature, run)
    [] kind \in Markup -> MarkupToText(nature, run)
    [] kind = "tsv" -> TsvToCsv(nature, run)
    [] kind = "textclipping" -> ClippingToText(nature, run)
    [] kind \in {"ics", "vcf"} -> RenderText(nature, run)
    [] OTHER -> ExportPng(nature, run)

\* Kinds whose output is taken on the tool's word.
Unguarded == Office \cup Markup \cup {"eps", "epub", "ics", "vcf"}

\* Kinds of which something is made although the bytes are damaged, or another's,
\* and nothing shows.
Lenient == Still \cup Video \cup Audio \cup {"numbers", "tsv"}
=============================================================================
