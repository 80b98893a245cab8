---------------------------- MODULE UploadService ----------------------------
(***************************************************************************)
(* UploadService: direct uploads through a command and a strategy, with    *)
(* its observers, and the deletion of what any upload has stored.          *)
(***************************************************************************)
EXTENDS MediaStorage

CONSTANTS
    Inputs,     \* what callers hand in: [form, ext, size]
    NoFile      \* not a file

\* ext is the type whose extensions the file name's belongs to ("none": no type's), and
\* size is compared with the limit of the type.
Form == {"none", "upload", "base64", "buffer", "multer", "stream"}
File == [form : Form, ext : Kind \cup {"none"}, size : {"small", "large"}]

ASSUME ServiceAssumption == Inputs \subseteq File

VARIABLES
    place,      \* place[d]: how direct call d has ended
    deleted     \* owners whose file was deleted by its URL

serviceVars == <<place, deleted>>

InitService == place = [d \in Direct |-> "idle"] /\ deleted = {}

\* InputProcessorService: a DTO and a promise are unwrapped, a GraphQL upload has no size
\* yet and passes the limit, and a buffer is named "upload-<now>.bin".
Unwrapped(i) ==
    CASE i.form = "none" -> NoFile
      [] i.form = "upload" -> [i EXCEPT !.size = "small"]
      [] i.form = "buffer" -> [i EXCEPT !.ext = "none"]
      [] OTHER -> i

\* FileValidatorService: the extension is one of the type's, the size within its limit.
Accepts(k, i) == Unwrapped(i) # NoFile /\ Unwrapped(i).ext = k /\ Unwrapped(i).size = "small"

\* The options of the five types.
ImageCore == [folder |-> "avatars", resource |-> "image"]
VideoCore == [folder |-> "videos", resource |-> "video"]
AudioCore == [folder |-> "audios", resource |-> "video"]
FileCore == [folder |-> "files", resource |-> "raw"]
Model3dCore == [folder |-> "models", resource |-> "raw"]

Core(k) ==
    CASE k = "image" -> ImageCore [] k = "video" -> VideoCore [] k = "audio" -> AudioCore
      [] k = "file" -> FileCore [] OTHER -> Model3dCore

Answer(d, outcome) == place' = [place EXCEPT ![d] = outcome]

\* UploadCommand executes; an error is told to the observers and rethrown, and so is the
\* exception of an observer that is told the success.
Execute(d) ==
    \/ Stores(d, {d}) /\ Answer(d, "uploaded")
    \/ Befalls("observer") /\ PutAs(d, FreshName(d), {d}) /\ Answer(d, "failed")
    \/ Rejects(d, {d}) /\ Answer(d, "failed")

\* upload and uploadImage ... uploadModel3d.
Upload(d) ==
    /\ place[d] = "idle"
    /\ \E i \in Inputs :
          IF Accepts(kind[d], i) THEN Execute(d)
          ELSE Answer(d, "failed") /\ UNCHANGED <<storageVars, mishaps>>
    /\ UNCHANGED deleted

\* The resource type that deleteImage ... deleteModel3d destroy.
DestroyedAs(k) ==
    CASE k \in {"file", "model3d"} -> "raw" [] k = "audio" -> "video" [] OTHER -> k

\* extractPublicId: in a cdnUrl the transformation becomes a part of the public id.
Finds(o, k, link) ==
    provider = "local" \/ (link = "url" /\ DestroyedAs(k) = Core(kind[o]).resource)

\* deleteResource with a link that an upload has returned; what is not found counts as
\* deleted too.
DeleteResource(o, k, link) ==
    /\ o \notin deleted
    /\ Finds(o, k, link)
    /\ deleted' = deleted \cup {o}
    /\ Remove(o)
    /\ Befalls("deleted")
    /\ UNCHANGED place
=============================================================================
