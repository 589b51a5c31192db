------------------------------ MODULE Library ------------------------------
(***************************************************************************)
(* Uploaded files and the photos, tracks, videos, documents, notes and     *)
(* albums made of them: internal/upload/upload.go, internal/store/geo.go,  *)
(* internal/store/media.go, and the handlers of internal/api/uploads.go,   *)
(* internal/api/photos.go, internal/api/audio.go, internal/web/uploads.go, *)
(* internal/web/photos.go and internal/web/media_pages.go.                 *)
(*                                                                         *)
(* An upload is a file on the disk and a row in the table uploads, both    *)
(* under the hash of its data and name; a client of the API saves it by a  *)
(* later request, the web version in the same one.  The pieces are written *)
(* one after the other by handlers that interleave, fail and are killed.   *)
(*                                                                         *)
(* Files with one hash are one file here.  Ids come from one counter, not  *)
(* from one per table, and rows have no owner: ids tell them apart.        *)
(***************************************************************************)
EXTENDS Naturals, FiniteSets

CONSTANTS
    Files,      \* what is uploaded: data and name
    Handlers,   \* goroutines that serve requests
    MaxId,      \* bound: ids given out
    MaxAid,     \* bound: ids that clients name as an album's
    Failures,   \* may writing a file fail?
    Crashes,    \* may the process be killed?
    None        \* no file, no album

ASSUME ConstantsAssumption ==
    /\ None \notin Files \cup Nat
    /\ MaxId \in Nat /\ MaxAid \in 0 .. MaxId
    /\ {Failures, Crashes} \subseteq BOOLEAN

ASSUME HandlersAssumption == IsFiniteSet(Handlers)

VARIABLES
    disk,       \* disk[f]: "none", "cut" (truncated, or written in part) or "whole"
    uploads,    \* the files with a row in table uploads
    items,      \* rows of the other tables: [type, id, album, url]
    albums,     \* table albums
    copies,     \* the URLs that avatars and posts have been given
    lastId,     \* the counter of nextID
    handler,    \* what each handler does next
    broken,     \* history: files whose last writing failed or was killed
    gone,       \* history: the albums that were deleted
    early,      \* history: ids named as an album's before there was one
    strays      \* history: albums that may have left photos behind

past == <<gone, early, strays>>

vars == <<disk, uploads, items, albums, copies, lastId, handler, broken, past>>

FileTypes == {"photo", "audio", "video", "doc"}

Idle == [pc |-> "idle", then |-> "answer", file |-> None, type |-> "none", album |-> None, id |-> 0, copy |-> FALSE]

Init ==
    /\ disk = [f \in Files |-> "none"]
    /\ uploads = {}
    /\ items = {}
    /\ albums = {}
    /\ copies = {}
    /\ lastId = 0
    /\ handler = [h \in Handlers |-> Idle]
    /\ broken = {}
    /\ gone = {}
    /\ early = {}
    /\ strays = {}

-----------------------------------------------------------------------------
(* The history the properties ask about.  Photos may be left behind in an  *)
(* album that a client names when it is not there, one that is deleted     *)
(* while a photo is being saved into it, and one whose deletion is killed. *)

Deletes(pc) == pc \in {"deleteAlbum", "deletePhotos"}

Strays(work) ==
    {a \in {work.album} \ {None} :
        \/ ~Deletes(work.pc) /\ a \notin albums
        \/ \E k \in Handlers : handler[k].album = a /\ Deletes(handler[k].pc) # Deletes(work.pc)}

Starts(h, work) ==
    /\ handler[h].pc = "idle"
    /\ handler' = [handler EXCEPT ![h] = work]
    /\ early' = early \cup {a \in {work.album} \ {None} : ~Deletes(work.pc) /\ a \notin albums \cup gone}
    /\ strays' = strays \cup Strays(work)
    /\ UNCHANGED <<disk, uploads, items, albums, copies, lastId, broken, gone>>

Pending == {h \in Handlers : handler[h].pc \in {"truncate", "write", "saveUpload", "lookUp", "readItem", "nextID"}}

MayTakeId == lastId + Cardinality(Pending) < MaxId

(* Clients name what they have seen; by the time the handler looks it may  *)
(* be gone.                                                                *)
IdsOf(type) == {i.id : i \in {j \in items : j.type = type}}

(* POST /upload/<kind> of the API: the file is stored, and linked to the   *)
(* video with the given id if there is one.                                *)
handleUpload(h, f, vid) ==
    /\ vid \in {0} \cup IdsOf("video")
    /\ Starts(h, [Idle EXCEPT !.pc = "truncate", !.file = f, !.id = vid,
                     !.then = IF vid = 0 THEN "answer" ELSE "readVideo"])

(* The methods that make a row of an upload.                               *)
save(h, f, type, album) ==
    /\ MayTakeId
    /\ Starts(h, [Idle EXCEPT !.pc = "lookUp", !.file = f, !.type = type, !.album = album])

(* Any id will do, of a deleted album or of none: nobody looks.            *)
photosSave(h, f, aid) == save(h, f, "photo", aid)
photosSaveWallPhoto(h, f) == save(h, f, "photo", None)
audioSave(h, f) == save(h, f, "audio", None)
docsSave(h, f) == save(h, f, "doc", None)

(* The uploads of the web version store the file and the row: savePhoto,   *)
(* saveAudio, saveVideo, saveDoc.  The caption of a photo is left out.     *)
savePart(h, f, type) ==
    /\ MayTakeId
    /\ Starts(h, [Idle EXCEPT !.pc = "truncate", !.file = f, !.type = type, !.then = "nextID"])

handlePhotoUpload(h, f) == savePart(h, f, "photo")
handleMusicUpload(h, f) == savePart(h, f, "audio")
handleVideoUpload(h, f) == savePart(h, f, "video")
handleDocUpload(h, f) == savePart(h, f, "doc")

(* The file of a new post: its name decides what it is.  The post gets a   *)
(* copy of the row.                                                        *)
uploadAttachment(h, f) ==
    \E type \in FileTypes :
       /\ MayTakeId
       /\ Starts(h, [Idle EXCEPT !.pc = "truncate", !.file = f, !.type = type, !.then = "nextID", !.copy = TRUE])

(* A post of the API gets a copy of a row that is there already.           *)
applyAttachment(h, type, id) ==
    /\ id \in IdsOf(type)
    /\ Starts(h, [Idle EXCEPT !.pc = "readItem", !.type = type, !.id = id, !.copy = TRUE])

handleUploadAvatar(h, f) ==
    Starts(h, [Idle EXCEPT !.pc = "truncate", !.file = f, !.then = "setAvatar"])

saveWithoutFile(h, type) ==
    /\ MayTakeId
    /\ Starts(h, [Idle EXCEPT !.pc = "nextID", !.type = type])

(* The file of a video of the API is uploaded later. *)
videoSave(h) == saveWithoutFile(h, "video")
handleNoteAdd(h) == saveWithoutFile(h, "note")
photosCreateAlbum(h) == saveWithoutFile(h, "album")
handleAlbumCreate(h) == saveWithoutFile(h, "album")

audioAdd(h, aid) ==
    /\ MayTakeId
    /\ aid \in IdsOf("audio")
    /\ Starts(h, [Idle EXCEPT !.pc = "readItem", !.type = "audio", !.id = aid])

photosDeleteAlbum(h, aid) == Starts(h, [Idle EXCEPT !.pc = "deleteAlbum", !.album = aid])

-----------------------------------------------------------------------------
(* Storing a file: upload.Save.                                            *)

Goes(h, pc) ==
    handler' = [handler EXCEPT ![h] = IF pc = "idle" THEN Idle ELSE [@ EXCEPT !.pc = pc]]

File(h) == handler[h].file

(* About to store the post, with an attachment that is a copy of a row.    *)
Posting(url) == [Idle EXCEPT !.pc = "createPost", !.file = url]

(* os.WriteFile truncates a file that is there already, and then writes    *)
(* all the data by one call.                                               *)
Truncate(h) ==
    /\ handler[h].pc = "truncate"
    /\ disk' = [disk EXCEPT ![File(h)] = "cut"]
    /\ Goes(h, "write")
    /\ UNCHANGED <<uploads, items, albums, copies, lastId, broken, past>>

Write(h) ==
    /\ handler[h].pc = "write"
    /\ disk' = [disk EXCEPT ![File(h)] = "whole"]
    /\ broken' = broken \ {File(h)}
    /\ Goes(h, "saveUpload")
    /\ UNCHANGED <<uploads, items, albums, copies, lastId, past>>

(* Mutant: the error of os.WriteFile is ignored. *)
WriteFailsUnseen(h) ==
    /\ Failures
    /\ handler[h].pc = "write"
    /\ disk' = [disk EXCEPT ![File(h)] = "cut"]
    /\ Goes(h, "saveUpload")
    /\ UNCHANGED <<uploads, items, albums, copies, lastId, broken, past>>

WriteFails(h) ==
    /\ Failures
    /\ handler[h].pc = "write"
    /\ disk' = [disk EXCEPT ![File(h)] = "cut"]
    /\ broken' = broken \cup {File(h)}
    /\ Goes(h, "idle")
    /\ UNCHANGED <<uploads, items, albums, copies, lastId, past>>

(* INSERT, or UPDATE of the row with the hash. *)
SaveUpload(h) ==
    /\ handler[h].pc = "saveUpload"
    /\ uploads' = uploads \cup {File(h)}
    /\ Goes(h, handler[h].then)
    /\ UNCHANGED <<disk, items, albums, copies, lastId, broken, past>>

(* linkVideo reads the row of the video, and writes it back with the URL   *)
(* of the upload.                                                          *)
Video(h) ==
    /\ handler[h].pc = "readVideo"
    /\ \E found \in BOOLEAN :
          /\ found = (\E i \in items : i.type = "video" /\ i.id = handler[h].id)
          /\ Goes(h, IF found THEN "updateVideo" ELSE "answer")
    /\ UNCHANGED <<disk, uploads, items, albums, copies, lastId, broken, past>>

UpdateVideo(h) ==
    /\ handler[h].pc = "updateVideo"
    /\ items' = {IF i.type = "video" /\ i.id = handler[h].id THEN [i EXCEPT !.url = File(h)] ELSE i : i \in items}
    /\ Goes(h, "answer")
    /\ UNCHANGED <<disk, uploads, albums, copies, lastId, broken, past>>

(* The hash of the file is returned. *)
Answer(h) ==
    /\ handler[h].pc = "answer"
    /\ Goes(h, "idle")
    /\ UNCHANGED <<disk, uploads, items, albums, copies, lastId, broken, past>>

-----------------------------------------------------------------------------
(* Rows. *)

(* The save methods of the API answer "not found" to an unknown hash. *)
Upload(h) ==
    /\ handler[h].pc = "lookUp"
    /\ Goes(h, IF File(h) \in uploads THEN "nextID" ELSE "idle")
    /\ UNCHANGED <<disk, uploads, items, albums, copies, lastId, broken, past>>

(* audio.add and wall.post copy the row of an item, with its URL.  (A post *)
(* is made without it if it is gone.)                                      *)
ReadItem(h) ==
    LET w == handler[h]
        found == {i \in items : i.type = w.type /\ i.id = w.id}
    IN  /\ w.pc = "readItem"
        /\ \/ \E i \in found :
                 handler' = [handler EXCEPT ![h] = IF w.copy THEN Posting(i.url)
                                                   ELSE [w EXCEPT !.pc = "nextID", !.file = i.url, !.id = 0]]
           \/ found = {} /\ Goes(h, "idle")
    /\ UNCHANGED <<disk, uploads, items, albums, copies, lastId, broken, past>>

(* Mutant: the id after the last one in the table. *)
NextIDOfTable(h) ==
    /\ handler[h].pc = "nextID"
    /\ lastId' = lastId + 1
    /\ \E last \in {0} \cup albums \cup {i.id : i \in items} :
          /\ \A i \in (IF handler[h].type = "album" THEN albums ELSE {j.id : j \in items}) : i <= last
          /\ handler' = [handler EXCEPT ![h].pc = "insert", ![h].id = last + 1]
    /\ UNCHANGED <<disk, uploads, items, albums, copies, broken, past>>

NextID(h) ==
    /\ handler[h].pc = "nextID"
    /\ lastId' = lastId + 1
    /\ handler' = [handler EXCEPT ![h].pc = "insert", ![h].id = lastId + 1]
    /\ UNCHANGED <<disk, uploads, items, albums, copies, broken, past>>

(* AddPhoto, AddAudio, AddVideo, AddDoc, AddNote, AddAlbum. *)
Insert(h) ==
    LET w == handler[h]
    IN  /\ w.pc = "insert"
        /\ IF w.type = "album"
           THEN albums' = albums \cup {w.id} /\ UNCHANGED items
           ELSE /\ items' = items \cup {[type |-> w.type, id |-> w.id, album |-> w.album, url |-> w.file]}
                /\ UNCHANGED albums
        /\ handler' = [handler EXCEPT ![h] = IF w.copy THEN Posting(w.file) ELSE Idle]
        /\ UNCHANGED <<disk, uploads, copies, lastId, broken, past>>

(* The URL goes into the user's row, or into that of the new post.         *)
CopyURL(h) ==
    /\ copies' = copies \cup ({File(h)} \ {None})
    /\ Goes(h, "idle")
    /\ UNCHANGED <<disk, uploads, items, albums, lastId, broken, past>>

SetUserAvatar(h) == handler[h].pc = "setAvatar" /\ CopyURL(h)

CreatePost(h) == handler[h].pc = "createPost" /\ CopyURL(h)

(* One statement.  Nothing deletes a video, an upload or a file.           *)
Delete(type, id) ==
    /\ items' = {i \in items : ~(i.type = type /\ i.id = id)}
    /\ UNCHANGED <<disk, uploads, albums, copies, lastId, handler, broken, past>>

photosDelete(id) == Delete("photo", id)
audioDelete(id) == Delete("audio", id)
handlePhotoDelete(id) == Delete("photo", id)
handleMusicDelete(id) == Delete("audio", id)
handleDocDelete(id) == Delete("doc", id)
handleNoteDelete(id) == Delete("note", id)

(* Mutant: the photos of an album are kept. *)
DeletePhotosNone(h) ==
    /\ handler[h].pc = "deletePhotos"
    /\ Goes(h, "idle")
    /\ UNCHANGED <<disk, uploads, items, albums, copies, lastId, broken, past>>

(* Store.DeleteAlbum: two statements. *)
DeleteAlbum(h) ==
    /\ handler[h].pc = "deleteAlbum"
    /\ albums' = albums \ {handler[h].album}
    /\ gone' = gone \cup (albums \cap {handler[h].album})
    /\ Goes(h, "deletePhotos")
    /\ UNCHANGED <<disk, uploads, items, copies, lastId, broken, early, strays>>

DeletePhotos(h) ==
    /\ handler[h].pc = "deletePhotos"
    /\ items' = {i \in items : ~(i.type = "photo" /\ i.album = handler[h].album)}
    /\ Goes(h, "idle")
    /\ UNCHANGED <<disk, uploads, albums, copies, lastId, broken, past>>

(* What a GET of the URL of an upload returns: the row, then its file.     *)
serveUpload(f) == IF f \in uploads THEN disk[f] ELSE "none"

-----------------------------------------------------------------------------
Crash ==
    /\ Crashes
    /\ handler' = [h \in Handlers |-> Idle]
    /\ broken' = broken \cup {File(h) : h \in {k \in Handlers : handler[k].pc = "write"}}
    /\ strays' = strays \cup {handler[h].album : h \in {k \in Handlers : handler[k].pc = "deletePhotos"}}
    /\ UNCHANGED <<disk, uploads, items, albums, copies, lastId, gone, early>>

Execute(h) ==
    \/ Truncate(h) \/ Write(h) \/ WriteFails(h) \/ SaveUpload(h)
    \/ Video(h) \/ UpdateVideo(h) \/ Answer(h)
    \/ Upload(h) \/ ReadItem(h) \/ NextID(h) \/ Insert(h)
    \/ SetUserAvatar(h) \/ CreatePost(h)
    \/ DeleteAlbum(h) \/ DeletePhotos(h)

Ids == 1 .. MaxId
Aids == 1 .. MaxAid

Request(h) ==
    \/ \E f \in Files :
          \/ \E vid \in {0} \cup Ids : handleUpload(h, f, vid)
          \/ \E aid \in Aids \cup {None} : photosSave(h, f, aid)
          \/ photosSaveWallPhoto(h, f) \/ audioSave(h, f) \/ docsSave(h, f)
          \/ handlePhotoUpload(h, f) \/ handleMusicUpload(h, f)
          \/ handleVideoUpload(h, f) \/ handleDocUpload(h, f) \/ uploadAttachment(h, f)
          \/ handleUploadAvatar(h, f)
    \/ videoSave(h) \/ handleNoteAdd(h) \/ photosCreateAlbum(h) \/ handleAlbumCreate(h)
    \/ \E id \in Ids : audioAdd(h, id)
    \/ \E aid \in Aids : photosDeleteAlbum(h, aid)
    \/ \E id \in Ids, type \in FileTypes \cup {"note"} : applyAttachment(h, type, id)

Deletion(id) ==
    \/ photosDelete(id) \/ audioDelete(id)
    \/ handlePhotoDelete(id) \/ handleMusicDelete(id)
    \/ handleDocDelete(id) \/ handleNoteDelete(id)

Next ==
    \/ \E h \in Handlers : Request(h) \/ Execute(h)
    \/ \E id \in Ids : Deletion(id)
    \/ Crash

Spec == Init /\ [][Next]_vars

-----------------------------------------------------------------------------
ItemType == [type : FileTypes \cup {"note"}, id : Ids, album : Ids \cup {None}, url : Files \cup {None}]

Pcs == {"idle", "truncate", "write", "saveUpload", "readVideo", "updateVideo", "answer",
        "lookUp", "readItem", "nextID", "insert", "setAvatar", "createPost", "deleteAlbum", "deletePhotos"}

HandlerType == [pc : Pcs, then : {"answer", "readVideo", "nextID", "setAvatar"}, file : Files \cup {None},
                type : FileTypes \cup {"note", "album", "none"},
                album : Ids \cup {None}, id : 0 .. MaxId, copy : BOOLEAN]

PastOK == gone \subseteq Ids /\ early \subseteq Ids /\ strays \subseteq Ids

(* Type invariant.  An id names one row. *)
TypeOK ==
    /\ disk \in [Files -> {"none", "cut", "whole"}]
    /\ uploads \subseteq Files
    /\ items \subseteq ItemType
    /\ albums \subseteq Ids
    /\ copies \subseteq Files
    /\ lastId \in 0 .. MaxId
    /\ handler \in [Handlers -> HandlerType]
    /\ broken \subseteq Files
    /\ PastOK
    /\ \A i, j \in items : i.id = j.id => i = j

Writing(f) == \E h \in Handlers : handler[h].pc = "write" /\ File(h) = f

(* Whatever a row, an avatar, a post or an answered upload refers to has   *)
(* its row in uploads and its file.  The file is whole, unless it is being *)
(* written again, or its last writing failed or was killed: an upload of a *)
(* file that is there already destroys it first, and only an upload        *)
(* repairs it.                                                             *)
FilesBehindItems ==
    /\ \A i \in items : i.url # None => i.url \in uploads
    /\ copies \cup {File(h) : h \in {k \in Handlers : handler[k].pc = "answer"}} \subseteq uploads
    /\ \A f \in uploads : serveUpload(f) = "whole" \/ Writing(f) \/ f \in broken

(* A photo is in an album that is there, or about to be deleted with it:   *)
(* DeleteAlbum leaves none behind, whatever else is served meanwhile.  Not *)
(* so in an album that was named when it was not there, or while it was    *)
(* being deleted, or whose deletion was killed between the statements.     *)
NoPhotoLeftBehind ==
    \A i \in items :
        \/ i.album \in {None} \cup albums \cup strays
        \/ \E h \in Handlers : handler[h].pc = "deletePhotos" /\ handler[h].album = i.album

(* A new album is empty, whatever was left behind by deletions that raced  *)
(* with uploads or were killed: the id of a deleted album is never given   *)
(* out again, so its photos never show up in an album of later.  (They do  *)
(* that were saved with an id that no album had had yet.)                  *)
AlbumStartsEmpty ==
    [][\A a \in albums' \ albums : a \in early \/ \A i \in items : i.album # a]_vars
=============================================================================
