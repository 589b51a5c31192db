--------------------------- MODULE LibraryProofs ---------------------------
(* Proofs about uploads and what is made of them, for every set of files   *)
(* and handlers.                                                           *)
EXTENDS Library, FiniteSetTheorems, TLAPS

(* Handlers that will take an id. *)
Taking(w) ==
    \/ w.pc \in {"lookUp", "nextID"}
    \/ w.pc \in {"truncate", "write", "saveUpload"} /\ w.then = "nextID"
    \/ w.pc = "readItem" /\ ~w.copy

Takers == {h \in Handlers : Taking(handler[h])}

(* What a handler has made sure of before it gets where it is.             *)
HandlerOK(h) ==
    LET w == handler[h]
    IN  /\ w.pc \in {"truncate", "write", "saveUpload", "lookUp"} => w.file \in Files
        /\ w.pc \in {"truncate", "write", "saveUpload"} /\ w.then = "nextID" => w.type \in FileTypes
        /\ w.pc = "lookUp" => w.type \in FileTypes
        /\ w.pc \in {"nextID", "insert"} => w.type \in FileTypes \cup {"note", "album"}
        /\ w.pc = "readItem" /\ ~w.copy => w.type = "audio"
        /\ w.pc = "saveUpload" => disk[w.file] # "none"
        /\ w.pc \in {"readVideo", "updateVideo", "answer"} => w.file \in uploads
        /\ w.pc \in {"nextID", "insert", "setAvatar", "createPost"} => w.file \in uploads \cup {None}
        /\ w.album # None => Deletes(w.pc) \/ w.type = "photo"
        /\ Deletes(w.pc) => w.album # None

WorkInv == \A h \in Handlers : HandlerOK(h)

Inserting == {h \in Handlers : handler[h].pc = "insert"}

(* The album a photo is about to be saved into. *)
SavesInto(h, id) == handler[h].album = id /\ ~Deletes(handler[h].pc)

(* An id that nothing has been given, and no photo is in an album of that  *)
(* id but by a client that named it too early.                             *)
Fresh(id) ==
    /\ id \notin albums \cup gone
    /\ \A i \in items : i.id # id /\ (i.album = id => id \in early)
    /\ \A h \in Handlers : SavesInto(h, id) => id \in early

Given(id) == id \in (1 .. lastId) \cup early \cup {None}

IdsInv ==
    /\ albums \cup gone \subseteq 1 .. lastId
    /\ \A i \in items : i.id \in 1 .. lastId /\ Given(i.album)
    /\ \A h \in Handlers : ~Deletes(handler[h].pc) => Given(handler[h].album)
    /\ \A h \in Inserting : handler[h].id \in 1 .. lastId /\ Fresh(handler[h].id)
    /\ \A h, k \in Inserting : handler[h].id = handler[k].id => h = k

FileInv ==
    /\ \A f \in Files : disk[f] = "cut" => Writing(f) \/ f \in broken
    /\ \A f \in uploads : disk[f] # "none"
    /\ \A i \in items : i.url # None => i.url \in uploads
    /\ copies \subseteq uploads

Bound == lastId + Cardinality(Takers) <= MaxId

Inv == TypeOK /\ Bound /\ WorkInv /\ IdsInv /\ FileInv

LEMMA IdleFacts ==
    /\ Idle \in HandlerType /\ Idle.pc = "idle" /\ Idle.album = None /\ Idle.file = None
    /\ ~Taking(Idle)
  BY ConstantsAssumption DEF Idle, HandlerType, Pcs, Taking, FileTypes

LEMMA PostingFacts ==
    ASSUME NEW url \in Files \cup {None}
    PROVE  /\ Posting(url) \in HandlerType /\ Posting(url).pc = "createPost" /\ Posting(url).file = url
           /\ Posting(url).album = None /\ ~Taking(Posting(url))
  <1>1. Posting(url) = [Idle EXCEPT !.pc = "createPost", !.file = url]
    BY DEF Posting
  <1>2. /\ Posting(url).pc = "createPost" /\ Posting(url).file = url /\ Posting(url).album = None
        /\ Posting(url) \in HandlerType
    BY <1>1, IdleFacts DEF Idle, HandlerType, Pcs
  <1> QED  BY <1>2 DEF Taking

LEMMA InitInv == Init => Inv
  <1> SUFFICES ASSUME Init PROVE Inv
    OBVIOUS
  <1>1. TypeOK
    BY IdleFacts, ConstantsAssumption DEF Init, TypeOK, PastOK
  <1>2. Takers = {} /\ Inserting = {}
    BY IdleFacts DEF Init, Takers, Inserting
  <1>3. Bound
    BY <1>2, FS_EmptySet, ConstantsAssumption DEF Init, Bound
  <1>4. WorkInv
    BY IdleFacts DEF Init, WorkInv, HandlerOK, Deletes
  <1>5. IdsInv
    BY <1>2, IdleFacts DEF Init, IdsInv, Given
  <1>6. FileInv
    BY DEF Init, FileInv
  <1> QED  BY <1>1, <1>3, <1>4, <1>5, <1>6 DEF Inv

-----------------------------------------------------------------------------
(* A step of a handler that inserts nothing and takes no id.               *)
Rest(h) == \A k \in Handlers : k # h => handler'[k] = handler[k]

Moves(h) ==
    /\ handler' \in [Handlers -> HandlerType]
    /\ Rest(h)
    /\ handler'[h].pc # "insert"
    /\ \/ Deletes(handler'[h].pc)
       \/ handler'[h].album = handler[h].album /\ ~Deletes(handler[h].pc)
       \/ handler'[h].album \in {None} \cup albums \cup gone \cup early'
    /\ HandlerOK(h)'

(* Uploads and files stay; rows and albums may go, rows may change URL.    *)
Keeps ==
    /\ lastId' = lastId
    /\ albums' \cup gone' \subseteq albums \cup gone
    /\ albums' \subseteq albums
    /\ early \subseteq early'
    /\ uploads \subseteq uploads'
    /\ \A f \in Files : disk[f] # "none" => disk'[f] # "none"
    /\ items' \subseteq ItemType
    /\ \A i, j \in items' : i.id = j.id => i = j
    /\ \A i \in items' : \E j \in items : j.id = i.id /\ j.album = i.album

LEMMA HandlerOKStays ==
    ASSUME Inv, NEW h \in Handlers, handler'[h] = handler[h], uploads \subseteq uploads',
           \A f \in Files : disk[f] # "none" => disk'[f] # "none"
    PROVE  HandlerOK(h)'
  <1>1. HandlerOK(h)
    BY DEF Inv, WorkInv
  <1> QED  BY <1>1 DEF HandlerOK

LEMMA TakersFacts ==
    /\ IsFiniteSet(Takers) /\ Cardinality(Takers) \in Nat
    /\ IsFiniteSet(Takers') /\ Cardinality(Takers') \in Nat
    /\ IsFiniteSet(Pending) /\ Cardinality(Pending) \in Nat
    /\ Cardinality(Takers) <= Cardinality(Pending)
    /\ Takers' \subseteq Takers => Cardinality(Takers') <= Cardinality(Takers)
  <1>1. IsFiniteSet(Takers) /\ IsFiniteSet(Takers') /\ IsFiniteSet(Pending)
    BY HandlersAssumption, FS_Subset DEF Takers, Pending
  <1>2. Takers \subseteq Pending
    BY DEF Takers, Pending, Taking
  <1> QED  BY <1>1, <1>2, FS_CardinalityType, FS_Subset

LEMMA MoveKeepsInv ==
    ASSUME Inv, NEW h \in Handlers, Moves(h), Keeps
    PROVE  WorkInv' /\ IdsInv'
  <1>1. WorkInv'
    <2>1. \A k \in Handlers : k # h => HandlerOK(k)'
      BY HandlerOKStays DEF Moves, Rest, Keeps
    <2> QED  BY <2>1 DEF WorkInv, Moves
  <1>2. \A k \in Inserting' : k \in Inserting /\ handler'[k] = handler[k]
    BY DEF Inserting, Moves, Rest
  <1>3. \A k \in Handlers : \A id : SavesInto(k, id)' =>
             id \in {None} \cup albums \cup gone \cup early' \/ SavesInto(k, id)
    BY DEF Moves, Rest, SavesInto
  <1>4. \A k \in Handlers : ~Deletes(handler'[k].pc) => Given(handler[k].album)'
    <2> SUFFICES ASSUME NEW k \in Handlers, ~Deletes(handler'[k].pc) PROVE Given(handler[k].album)'
      OBVIOUS
    <2>1. PICK id : id = handler'[k].album
      OBVIOUS
    <2>2. SavesInto(k, id)'
      BY <2>1 DEF SavesInto
    <2>3. id \in {None} \cup albums \cup gone \cup early' \/ SavesInto(k, id)
      BY <1>3, <2>2
    <2>4. SavesInto(k, id) => Given(id)
      BY DEF SavesInto, Inv, IdsInv
    <2> QED  BY <2>1, <2>3, <2>4 DEF Inv, IdsInv, Given, Keeps
  <1>5. \A i \in items' : i.id \in 1 .. lastId' /\ Given(i.album)'
    BY DEF Inv, IdsInv, Given, Keeps
  <1>6. ASSUME NEW k \in Inserting' PROVE handler'[k].id \in 1 .. lastId' /\ Fresh(handler[k].id)'
    <2>1. handler'[k].id = handler[k].id /\ handler[k].id \in 1 .. lastId /\ Fresh(handler[k].id)
      BY <1>2 DEF Inv, IdsInv
    <2>2. None \notin 1 .. lastId
      BY ConstantsAssumption DEF Inv, TypeOK
    <2>n. PICK id : id = handler[k].id
      OBVIOUS
    <2>3. /\ id \notin albums' \cup gone'
          /\ \A i \in items' : i.id # id /\ (i.album = id => id \in early')
      BY <2>1, <2>n DEF Fresh, Keeps
    <2>4. \A l \in Handlers : SavesInto(l, id)' => id \in early'
      BY <1>3, <2>1, <2>2, <2>n DEF Fresh, Keeps
    <2>5. Fresh(id)'
      BY <2>3, <2>4 DEF Fresh
    <2> QED  BY <2>1, <2>5, <2>n DEF Keeps, past
  <1>7. \A k, l \in Inserting' : handler'[k].id = handler'[l].id => k = l
    BY <1>2 DEF Inv, IdsInv
  <1>8. albums' \cup gone' \subseteq 1 .. lastId'
    BY DEF Inv, IdsInv, Keeps
  <1> QED  BY <1>1, <1>4, <1>5, <1>6, <1>7, <1>8 DEF IdsInv

LEMMA MoveKeepsBound ==
    ASSUME Inv, NEW h \in Handlers, Rest(h), lastId' = lastId, Taking(handler'[h]) => Taking(handler[h])
    PROVE  Bound'
  <1>1. Takers' \subseteq Takers
    BY DEF Takers, Rest
  <1>2. lastId \in Nat /\ MaxId \in Nat
    BY ConstantsAssumption DEF Inv, TypeOK
  <1> QED  BY <1>1, <1>2, TakersFacts DEF Inv, Bound

LEMMA WritingStays ==
    ASSUME NEW h \in Handlers, Rest(h), handler[h].pc # "write", NEW f, Writing(f) PROVE Writing(f)'
  BY DEF Writing, Rest, File

-----------------------------------------------------------------------------
(* Requests: what a handler starts with.                                   *)
StartOK(work) ==
    /\ work.pc \in {"truncate", "lookUp", "nextID", "readItem", "deleteAlbum"}
    /\ work.pc \in {"truncate", "lookUp"} => work.file \in Files
    /\ work.pc = "truncate" /\ work.then = "nextID" => work.type \in FileTypes
    /\ work.pc = "lookUp" => work.type \in FileTypes
    /\ work.pc = "nextID" => work.type \in FileTypes \cup {"note", "album"} /\ work.file = None
    /\ work.pc = "readItem" /\ ~work.copy => work.type = "audio"
    /\ work.album # None => work.pc = "deleteAlbum" \/ work.type = "photo"
    /\ work.pc = "deleteAlbum" => work.album # None
    /\ work.album \in Ids \cup {None}
    /\ Taking(work) => MayTakeId

LEMMA RequestStarts ==
    ASSUME Inv, NEW h \in Handlers, Request(h)
    PROVE  \E work \in HandlerType : Starts(h, work) /\ StartOK(work)
  <1> DEFINE Fits == \E work \in HandlerType : Starts(h, work) /\ StartOK(work)
  <1>t. Aids \subseteq Ids /\ None \notin Ids /\ MaxId \in Nat
    BY ConstantsAssumption DEF Ids, Aids
  <1>1. ASSUME NEW f \in Files, NEW vid \in {0} \cup Ids, handleUpload(h, f, vid) PROVE Fits
    <2> DEFINE then == IF vid = 0 THEN "answer" ELSE "readVideo"
               work == [Idle EXCEPT !.pc = "truncate", !.file = f, !.id = vid, !.then = then]
    <2>1. then \in {"answer", "readVideo"}
      OBVIOUS
    <2>2. vid \in 0 .. MaxId
      BY <1>t DEF Ids
    <2>3. Starts(h, work)
      BY <1>1 DEF handleUpload
    <2> HIDE DEF then
    <2>4. /\ work \in HandlerType /\ work.pc = "truncate" /\ work.file = f /\ work.then = then /\ work.album = None
      BY <2>1, <2>2, IdleFacts DEF Idle, HandlerType, Pcs
    <2>5. StartOK(work)
      BY <2>1, <2>4 DEF StartOK, Taking
    <2> QED  BY <2>3, <2>4, <2>5
  <1>2. ASSUME NEW f \in Files, NEW type \in FileTypes, NEW album \in Aids \cup {None},
               album # None => type = "photo", save(h, f, type, album)
        PROVE  Fits
    <2> DEFINE work == [Idle EXCEPT !.pc = "lookUp", !.file = f, !.type = type, !.album = album]
    <2>1. Starts(h, work) /\ MayTakeId
      BY <1>2 DEF save
    <2>2. work \in HandlerType /\ work.pc = "lookUp" /\ work.file = f /\ work.type = type /\ work.album = album
      BY <1>t, IdleFacts DEF Idle, HandlerType, Pcs
    <2>3. StartOK(work)
      BY <1>t, <1>2, <2>1, <2>2 DEF StartOK
    <2> QED  BY <2>1, <2>2, <2>3
  <1>3. ASSUME NEW f \in Files, NEW type \in FileTypes, MayTakeId, NEW work, Starts(h, work),
               \/ work = [Idle EXCEPT !.pc = "truncate", !.file = f, !.type = type, !.then = "nextID"]
               \/ work = [Idle EXCEPT !.pc = "truncate", !.file = f, !.type = type, !.then = "nextID", !.copy = TRUE]
        PROVE  Fits
    <2>1. work \in HandlerType /\ work.pc = "truncate" /\ work.file = f /\ work.type = type /\ work.album = None
      BY <1>3, IdleFacts DEF Idle, HandlerType, Pcs
    <2>2. StartOK(work)
      BY <1>3, <2>1 DEF StartOK
    <2> QED  BY <1>3, <2>1, <2>2
  <1>4. ASSUME NEW f \in Files, NEW type \in FileTypes, savePart(h, f, type) PROVE Fits
    BY <1>3, <1>4 DEF savePart
  <1>5. ASSUME NEW f \in Files, uploadAttachment(h, f) PROVE Fits
    BY <1>3, <1>5 DEF uploadAttachment
  <1>6. ASSUME NEW type \in FileTypes \cup {"note"}, NEW id \in Ids, NEW work, Starts(h, work),
               \/ /\ work = [Idle EXCEPT !.pc = "readItem", !.type = type, !.id = id]
                  /\ type = "audio" /\ MayTakeId
               \/ work = [Idle EXCEPT !.pc = "readItem", !.type = type, !.id = id, !.copy = TRUE]
        PROVE  Fits
    <2>1. id \in 0 .. MaxId
      BY <1>t DEF Ids
    <2>2. work \in HandlerType /\ work.pc = "readItem" /\ work.type = type /\ work.album = None
      BY <1>6, <2>1, IdleFacts DEF Idle, HandlerType, Pcs
    <2>3. work.copy \/ (type = "audio" /\ MayTakeId)
      BY <1>6, IdleFacts DEF Idle
    <2>4. StartOK(work)
      BY <2>2, <2>3 DEF StartOK, Taking
    <2> QED  BY <1>6, <2>2, <2>4
  <1>7. ASSUME NEW f \in Files, handleUploadAvatar(h, f) PROVE Fits
    <2> DEFINE work == [Idle EXCEPT !.pc = "truncate", !.file = f, !.then = "setAvatar"]
    <2>1. work \in HandlerType /\ work.pc = "truncate" /\ work.file = f /\ work.then = "setAvatar" /\ work.album = None
      BY IdleFacts DEF Idle, HandlerType, Pcs
    <2>2. StartOK(work)
      BY <2>1 DEF StartOK, Taking
    <2> QED  BY <1>7, <2>1, <2>2 DEF handleUploadAvatar
  <1>8. ASSUME NEW type \in FileTypes \cup {"note", "album"}, saveWithoutFile(h, type) PROVE Fits
    <2> DEFINE work == [Idle EXCEPT !.pc = "nextID", !.type = type]
    <2>1. work \in HandlerType /\ work.pc = "nextID" /\ work.type = type /\ work.album = None /\ work.file = None
      BY IdleFacts DEF Idle, HandlerType, Pcs
    <2>2. StartOK(work)
      BY <1>8, <2>1 DEF StartOK, saveWithoutFile
    <2> QED  BY <1>8, <2>1, <2>2 DEF saveWithoutFile
  <1>9. ASSUME NEW id \in Ids, audioAdd(h, id) PROVE Fits
    BY <1>6, <1>9 DEF audioAdd, FileTypes
  <1>10. ASSUME NEW id \in Aids, photosDeleteAlbum(h, id) PROVE Fits
    <2> DEFINE work == [Idle EXCEPT !.pc = "deleteAlbum", !.album = id]
    <2>1. work \in HandlerType /\ work.pc = "deleteAlbum" /\ work.album = id
      BY <1>t, IdleFacts DEF Idle, HandlerType, Pcs
    <2>2. StartOK(work)
      BY <1>t, <2>1 DEF StartOK, Taking
    <2> QED  BY <1>10, <2>1, <2>2 DEF photosDeleteAlbum
  <1>11. ASSUME NEW id \in Ids, NEW type \in FileTypes \cup {"note"}, applyAttachment(h, type, id) PROVE Fits
    BY <1>6, <1>11 DEF applyAttachment
  <1> HIDE DEF Fits
  <1>12. ASSUME NEW f \in Files,
               \/ \E aid \in Aids \cup {None} : photosSave(h, f, aid)
               \/ photosSaveWallPhoto(h, f) \/ audioSave(h, f) \/ docsSave(h, f)
         PROVE  Fits
    BY <1>2, <1>12 DEF photosSave, photosSaveWallPhoto, audioSave, docsSave, FileTypes
  <1>13. ASSUME NEW f \in Files,
               handlePhotoUpload(h, f) \/ handleMusicUpload(h, f) \/ handleVideoUpload(h, f) \/ handleDocUpload(h, f)
         PROVE  Fits
    BY <1>4, <1>13 DEF handlePhotoUpload, handleMusicUpload, handleVideoUpload, handleDocUpload, FileTypes
  <1>14. ASSUME videoSave(h) \/ handleNoteAdd(h) \/ photosCreateAlbum(h) \/ handleAlbumCreate(h) PROVE Fits
    BY <1>8, <1>14 DEF videoSave, handleNoteAdd, photosCreateAlbum, handleAlbumCreate, FileTypes
  <1>15. Fits
    BY <1>1, <1>5, <1>7, <1>9, <1>10, <1>11, <1>12, <1>13, <1>14 DEF Request
  <1> QED  BY <1>15 DEF Fits

LEMMA RequestInv == ASSUME Inv, NEW h \in Handlers, Request(h) PROVE Inv'
  <1>1. PICK work \in HandlerType : Starts(h, work) /\ StartOK(work)
    BY RequestStarts
  <1>2. /\ handler \in [Handlers -> HandlerType] /\ handler[h].pc = "idle"
        /\ handler' = [handler EXCEPT ![h] = work]
        /\ UNCHANGED <<disk, uploads, items, albums, copies, lastId, broken>>
        /\ early' = early \cup {a \in {work.album} \ {None} : ~Deletes(work.pc) /\ a \notin albums \cup gone}
        /\ strays' = strays \cup Strays(work) /\ gone' = gone
    BY <1>1 DEF Starts, Inv, TypeOK
  <1>3. handler' \in [Handlers -> HandlerType] /\ Rest(h) /\ handler'[h] = work
    BY <1>2 DEF Rest
  <1>4. HandlerOK(h)'
    BY <1>1, <1>2, <1>3, ConstantsAssumption DEF HandlerOK, StartOK, Deletes
  <1>5. Moves(h) /\ Keeps
    BY <1>1, <1>2, <1>3, <1>4, ConstantsAssumption DEF Moves, Keeps, StartOK, Deletes, Inv, TypeOK
  <1>6. WorkInv' /\ IdsInv'
    BY <1>5, MoveKeepsInv
  <1>7. TypeOK'
    <2>1. Strays(work) \subseteq Ids /\ work.album \in Ids \cup {None}
      BY <1>1 DEF Strays, StartOK
    <2>2. PastOK'
      BY <1>2, <2>1 DEF Inv, TypeOK, PastOK
    <2> QED  BY <1>2, <1>3, <2>2 DEF Inv, TypeOK
  <1>8. FileInv'
    <2>1. \A f \in Files : Writing(f) => Writing(f)'
      BY <1>2, <1>3, WritingStays
    <2> QED  BY <1>2, <2>1 DEF Inv, FileInv
  <1>9. Bound'
    <2>1. CASE Taking(work)
      <3>1. lastId + Cardinality(Pending) < MaxId
        BY <1>1, <2>1 DEF StartOK, MayTakeId
      <3>2. Takers' = Takers \cup {h} /\ h \notin Takers
        BY <1>2, <1>3, <2>1 DEF Takers, Rest, Taking
      <3>3. Cardinality(Takers') = Cardinality(Takers) + 1
        BY <3>2, TakersFacts, FS_AddElement
      <3>4. lastId \in Nat /\ MaxId \in Nat /\ lastId' = lastId
        BY <1>2, ConstantsAssumption DEF Inv, TypeOK
      <3> QED  BY <3>1, <3>3, <3>4, TakersFacts DEF Bound
    <2>2. CASE ~Taking(work)
      BY <1>2, <1>3, <2>2, MoveKeepsBound
    <2> QED  BY <2>1, <2>2
  <1> QED  BY <1>6, <1>7, <1>8, <1>9 DEF Inv

-----------------------------------------------------------------------------
(* The steps of a handler. *)
LEMMA GoesFacts ==
    ASSUME Inv, NEW h \in Handlers, NEW pc \in Pcs, Goes(h, pc)
    PROVE  /\ handler' \in [Handlers -> HandlerType] /\ Rest(h)
           /\ pc = "idle" => handler'[h] = Idle
           /\ pc # "idle" => /\ handler'[h].pc = pc /\ handler'[h].file = handler[h].file
                             /\ handler'[h].then = handler[h].then /\ handler'[h].type = handler[h].type
                             /\ handler'[h].album = handler[h].album /\ handler'[h].id = handler[h].id
                             /\ handler'[h].copy = handler[h].copy
  <1> DEFINE w == handler[h]
             on == [w EXCEPT !.pc = pc]
             new == IF pc = "idle" THEN Idle ELSE on
  <1>1. handler \in [Handlers -> HandlerType] /\ w \in HandlerType
    BY DEF Inv, TypeOK
  <1>2. handler' = [handler EXCEPT ![h] = new]
    BY DEF Goes
  <1>3. /\ on \in HandlerType /\ on.pc = pc /\ on.file = w.file /\ on.then = w.then /\ on.type = w.type
        /\ on.album = w.album /\ on.id = w.id /\ on.copy = w.copy
    BY <1>1 DEF HandlerType
  <1> HIDE DEF on
  <1>4. new \in HandlerType
    BY <1>3, IdleFacts
  <1>5. handler' \in [Handlers -> HandlerType] /\ Rest(h) /\ handler'[h] = new
    BY <1>1, <1>2, <1>4 DEF Rest
  <1> QED  BY <1>3, <1>5

LEMMA StepInv ==
    ASSUME Inv, NEW h \in Handlers, Moves(h), Keeps, Taking(handler'[h]) => Taking(handler[h]),
           disk' \in [Files -> {"none", "cut", "whole"}], uploads' \subseteq Files, copies' \subseteq Files,
           broken' \subseteq Files, PastOK', FileInv'
    PROVE  Inv'
  <1>1. TypeOK'
    BY DEF Moves, Keeps, Inv, TypeOK
  <1>2. Bound'
    BY MoveKeepsBound DEF Moves, Keeps
  <1> QED  BY <1>1, <1>2, MoveKeepsInv DEF Inv

(* What is there of files and rows before a step. *)
LEMMA Types ==
    ASSUME Inv
    PROVE  /\ disk \in [Files -> {"none", "cut", "whole"}] /\ uploads \subseteq Files /\ copies \subseteq Files
           /\ broken \subseteq Files /\ PastOK /\ (past' = past => PastOK') /\ items \subseteq ItemType
           /\ handler \in [Handlers -> HandlerType]
           /\ \A i, j \in items : i.id = j.id => i = j
           /\ \A h \in Handlers : HandlerOK(h) /\ handler[h] \in HandlerType
  BY DEF Inv, TypeOK, WorkInv, PastOK, past

LEMMA TruncateInv == ASSUME Inv, NEW h \in Handlers, Truncate(h) PROVE Inv'
  <1>1. /\ handler[h].pc = "truncate" /\ disk' = [disk EXCEPT ![File(h)] = "cut"] /\ Goes(h, "write")
        /\ UNCHANGED <<uploads, items, albums, copies, lastId, broken, past>>
    BY DEF Truncate
  <1>2. File(h) \in Files /\ HandlerOK(h)
    BY <1>1, Types DEF HandlerOK, File
  <1>3. /\ handler' \in [Handlers -> HandlerType] /\ Rest(h)
        /\ handler'[h].pc = "write" /\ handler'[h].file = File(h) /\ handler'[h].then = handler[h].then
        /\ handler'[h].type = handler[h].type /\ handler'[h].album = handler[h].album
    BY <1>1, GoesFacts DEF Pcs, File
  <1>4. Keeps
    BY <1>1, <1>2, Types DEF Keeps, past
  <1>5. HandlerOK(h)'
    BY <1>1, <1>2, <1>3 DEF HandlerOK, File, Deletes
  <1>6. Moves(h) /\ (Taking(handler'[h]) => Taking(handler[h]))
    BY <1>1, <1>3, <1>5 DEF Moves, Taking, Deletes
  <1>7. FileInv'
    <2>1. \A f \in Files : Writing(f) => Writing(f)'
      BY <1>1, <1>3, WritingStays
    <2>2. Writing(File(h))'
      <3>1. \E k \in Handlers : handler'[k].pc = "write" /\ handler'[k].file = File(h)
        BY <1>3
      <3> QED  BY <1>3, <3>1 DEF Writing, File
    <2>3. \A f \in Files : disk'[f] = "cut" => Writing(f)' \/ f \in broken'
      <3> SUFFICES ASSUME NEW f \in Files, disk'[f] = "cut", f # File(h) PROVE Writing(f)' \/ f \in broken'
        BY <2>2, <1>3 DEF Writing, File
      <3>1. disk[f] = "cut"
        BY <1>1, Types
      <3> QED  BY <1>1, <2>1, <3>1 DEF Inv, FileInv
    <2>4. \A f \in uploads' : disk'[f] # "none"
      BY <1>1, Types DEF Inv, FileInv
    <2> QED  BY <1>1, <2>3, <2>4 DEF Inv, FileInv
  <1> QED  BY <1>1, <1>2, <1>4, <1>6, <1>7, Types, StepInv

LEMMA WriteInv == ASSUME Inv, NEW h \in Handlers, Write(h) PROVE Inv'
  <1>1. /\ handler[h].pc = "write" /\ disk' = [disk EXCEPT ![File(h)] = "whole"] /\ Goes(h, "saveUpload")
        /\ broken' = broken \ {File(h)}
        /\ UNCHANGED <<uploads, items, albums, copies, lastId, past>>
    BY DEF Write
  <1>2. File(h) \in Files /\ HandlerOK(h)
    BY <1>1, Types DEF HandlerOK, File
  <1>3. /\ handler' \in [Handlers -> HandlerType] /\ Rest(h)
        /\ handler'[h].pc = "saveUpload" /\ handler'[h].file = File(h) /\ handler'[h].then = handler[h].then
        /\ handler'[h].type = handler[h].type /\ handler'[h].album = handler[h].album
    BY <1>1, GoesFacts DEF Pcs, File
  <1>4. Keeps
    BY <1>1, <1>2, Types DEF Keeps, past
  <1>5. HandlerOK(h)'
    <2>1. disk'[File(h)] = "whole"
      BY <1>1, <1>2, Types
    <2> QED  BY <1>1, <1>2, <1>3, <2>1 DEF HandlerOK, File, Deletes
  <1>6. Moves(h) /\ (Taking(handler'[h]) => Taking(handler[h]))
    BY <1>1, <1>3, <1>5 DEF Moves, Taking, Deletes
  <1>7. FileInv'
    <2>1. ASSUME NEW f \in Files, f # File(h), Writing(f) PROVE Writing(f)'
      BY <1>3, <2>1 DEF Writing, Rest, File
    <2>2. \A f \in Files : f # File(h) => disk'[f] = disk[f]
      BY <1>1, Types
    <2>3. disk'[File(h)] = "whole"
      BY <1>1, <1>2, Types
    <2>4. \A f \in Files : disk'[f] = "cut" => Writing(f)' \/ f \in broken'
      BY <1>1, <2>1, <2>2, <2>3 DEF Inv, FileInv
    <2>5. \A f \in uploads' : disk'[f] # "none"
      BY <1>1, Types DEF Inv, FileInv
    <2> QED  BY <1>1, <2>4, <2>5 DEF Inv, FileInv
  <1> QED  BY <1>1, <1>2, <1>4, <1>6, <1>7, Types, StepInv

LEMMA WriteFailsInv == ASSUME Inv, NEW h \in Handlers, WriteFails(h) PROVE Inv'
  <1>1. /\ handler[h].pc = "write" /\ disk' = [disk EXCEPT ![File(h)] = "cut"] /\ Goes(h, "idle")
        /\ broken' = broken \cup {File(h)}
        /\ UNCHANGED <<uploads, items, albums, copies, lastId, past>>
    BY DEF WriteFails
  <1>2. File(h) \in Files
    BY <1>1, Types DEF HandlerOK, File
  <1>3. handler' \in [Handlers -> HandlerType] /\ Rest(h) /\ handler'[h] = Idle
    BY <1>1, GoesFacts DEF Pcs
  <1>4. Keeps
    BY <1>1, <1>2, Types DEF Keeps, past
  <1>5. HandlerOK(h)'
    BY <1>3, IdleFacts DEF HandlerOK, Deletes
  <1>6. Moves(h) /\ (Taking(handler'[h]) => Taking(handler[h]))
    BY <1>3, <1>5, IdleFacts DEF Moves
  <1>7. FileInv'
    <2>1. ASSUME NEW f \in Files, f # File(h), Writing(f) PROVE Writing(f)'
      BY <1>3, <2>1 DEF Writing, Rest, File
    <2>2. \A f \in Files : f # File(h) => disk'[f] = disk[f]
      BY <1>1, Types
    <2>3. \A f \in Files : disk'[f] = "cut" => Writing(f)' \/ f \in broken'
      BY <1>1, <2>1, <2>2 DEF Inv, FileInv
    <2>4. \A f \in uploads' : disk'[f] # "none"
      BY <1>1, Types DEF Inv, FileInv
    <2> QED  BY <1>1, <2>3, <2>4 DEF Inv, FileInv
  <1> QED  BY <1>1, <1>2, <1>4, <1>6, <1>7, Types, StepInv

(* Steps that leave the disk alone, by a handler that is not writing.      *)
LEMMA SameDisk ==
    ASSUME Inv, NEW h \in Handlers, Moves(h), Keeps, Taking(handler'[h]) => Taking(handler[h]),
           handler[h].pc # "write", UNCHANGED <<disk, broken>>, PastOK', uploads' \subseteq Files,
           \A f \in uploads' : disk[f] # "none",
           \A i \in items' : i.url # None => i.url \in uploads', copies' \subseteq uploads'
    PROVE  Inv'
  <1>1. \A f \in Files : Writing(f) => Writing(f)'
    BY WritingStays DEF Moves
  <1>2. FileInv'
    BY <1>1 DEF Inv, FileInv
  <1> QED  BY <1>2, Types, StepInv

LEMMA SaveUploadInv == ASSUME Inv, NEW h \in Handlers, SaveUpload(h) PROVE Inv'
  <1>1. /\ handler[h].pc = "saveUpload" /\ uploads' = uploads \cup {File(h)} /\ Goes(h, handler[h].then)
        /\ UNCHANGED <<disk, items, albums, copies, lastId, broken, past>>
    BY DEF SaveUpload
  <1>2. File(h) \in Files /\ HandlerOK(h) /\ disk[File(h)] # "none"
    BY <1>1, Types DEF HandlerOK, File
  <1>3. handler[h].then \in {"answer", "readVideo", "nextID", "setAvatar"} /\ handler[h].then \in Pcs
    BY Types DEF HandlerType, Pcs
  <1>4. /\ handler' \in [Handlers -> HandlerType] /\ Rest(h)
        /\ handler'[h].pc = handler[h].then /\ handler'[h].file = File(h) /\ handler'[h].then = handler[h].then
        /\ handler'[h].type = handler[h].type /\ handler'[h].album = handler[h].album
    BY <1>1, <1>3, GoesFacts DEF File
  <1>5. Keeps
    BY <1>1, Types DEF Keeps, past
  <1>6. HandlerOK(h)'
    <2>1. handler'[h].file \in uploads'
      BY <1>1, <1>4
    <2> QED  BY <1>1, <1>2, <1>3, <1>4, <2>1 DEF HandlerOK, Deletes
  <1>7. Moves(h) /\ (Taking(handler'[h]) => Taking(handler[h]))
    BY <1>1, <1>3, <1>4, <1>6 DEF Moves, Taking, Deletes
  <1>8. /\ \A f \in uploads' : disk[f] # "none"
        /\ \A i \in items' : i.url # None => i.url \in uploads'
        /\ copies' \subseteq uploads'
    BY <1>1, <1>2 DEF Inv, FileInv
  <1> QED  BY <1>1, <1>2, <1>5, <1>7, <1>8, Types, SameDisk

(* Steps that change nothing but the handler. *)
LEMMA HandlerOnly ==
    ASSUME Inv, NEW h \in Handlers, Moves(h), Taking(handler'[h]) => Taking(handler[h]),
           handler[h].pc # "write", UNCHANGED <<disk, uploads, items, albums, copies, lastId, broken, past>>
    PROVE  Inv'
  <1>1. Keeps
    BY Types DEF Keeps, past
  <1>2. /\ \A f \in uploads' : disk[f] # "none"
        /\ \A i \in items' : i.url # None => i.url \in uploads'
        /\ copies' \subseteq uploads'
    BY DEF Inv, FileInv
  <1> QED  BY <1>1, <1>2, Types, SameDisk

LEMMA IdleMoves ==
    ASSUME Inv, NEW h \in Handlers, Goes(h, "idle")
    PROVE  Moves(h) /\ handler'[h] = Idle /\ (Taking(handler'[h]) => Taking(handler[h]))
  <1>1. handler' \in [Handlers -> HandlerType] /\ Rest(h) /\ handler'[h] = Idle
    BY GoesFacts DEF Pcs
  <1>2. HandlerOK(h)'
    BY <1>1, IdleFacts DEF HandlerOK, Deletes
  <1> QED  BY <1>1, <1>2, IdleFacts DEF Moves

LEMMA VideoInv == ASSUME Inv, NEW h \in Handlers, Video(h) PROVE Inv'
  <1>1. PICK pc \in {"updateVideo", "answer"} : Goes(h, pc)
    BY DEF Video
  <1>2. /\ handler[h].pc = "readVideo"
        /\ UNCHANGED <<disk, uploads, items, albums, copies, lastId, broken, past>>
    BY DEF Video
  <1>3. /\ handler' \in [Handlers -> HandlerType] /\ Rest(h) /\ handler'[h].pc = pc
        /\ handler'[h].file = handler[h].file /\ handler'[h].type = handler[h].type
        /\ handler'[h].album = handler[h].album
    BY <1>1, GoesFacts DEF Pcs
  <1>4. HandlerOK(h)'
    BY <1>2, <1>3, Types DEF HandlerOK, Deletes
  <1> QED  BY <1>2, <1>3, <1>4, HandlerOnly DEF Moves, Taking, Deletes

LEMMA AnswerInv == ASSUME Inv, NEW h \in Handlers, Answer(h) PROVE Inv'
  BY IdleMoves, HandlerOnly DEF Answer

LEMMA UploadInv == ASSUME Inv, NEW h \in Handlers, Upload(h) PROVE Inv'
  <1>1. /\ handler[h].pc = "lookUp"
        /\ UNCHANGED <<disk, uploads, items, albums, copies, lastId, broken, past>>
    BY DEF Upload
  <1>2. CASE File(h) \in uploads
    <2>1. Goes(h, "nextID")
      BY <1>2 DEF Upload
    <2>2. /\ handler' \in [Handlers -> HandlerType] /\ Rest(h) /\ handler'[h].pc = "nextID"
          /\ handler'[h].file = handler[h].file /\ handler'[h].type = handler[h].type
          /\ handler'[h].album = handler[h].album
      BY <2>1, GoesFacts DEF Pcs
    <2>3. HandlerOK(h)'
      BY <1>1, <1>2, <2>2, Types DEF HandlerOK, Deletes, File
    <2> QED  BY <1>1, <2>2, <2>3, HandlerOnly DEF Moves, Taking, Deletes
  <1>3. CASE File(h) \notin uploads
    BY <1>1, <1>3, IdleMoves, HandlerOnly DEF Upload
  <1> QED  BY <1>2, <1>3

LEMMA ReadItemInv == ASSUME Inv, NEW h \in Handlers, ReadItem(h) PROVE Inv'
  <1> DEFINE w == handler[h]
  <1>1. /\ w.pc = "readItem" /\ w \in HandlerType /\ HandlerOK(h)
        /\ UNCHANGED <<disk, uploads, items, albums, copies, lastId, broken, past>>
    BY Types DEF ReadItem
  <1>2. ASSUME NEW i \in items,
               handler' = [handler EXCEPT ![h] = IF w.copy THEN Posting(i.url)
                                                 ELSE [w EXCEPT !.pc = "nextID", !.file = i.url, !.id = 0]]
        PROVE  Moves(h) /\ (Taking(handler'[h]) => Taking(handler[h]))
    <2>1. i.url \in Files \cup {None} /\ i.url \in uploads \cup {None}
      <3>1. i \in ItemType
        BY Types
      <3> QED  BY <3>1 DEF ItemType, Inv, FileInv
    <2>2. CASE w.copy
      <3>1. handler' = [handler EXCEPT ![h] = Posting(i.url)]
        BY <1>2, <2>2
      <3>2. handler' \in [Handlers -> HandlerType] /\ Rest(h) /\ handler'[h] = Posting(i.url)
        BY <2>1, <3>1, PostingFacts, Types DEF Rest
      <3>3. HandlerOK(h)'
        BY <1>1, <2>1, <3>2, PostingFacts DEF HandlerOK, Deletes
      <3> QED  BY <2>1, <3>2, <3>3, PostingFacts DEF Moves
    <2>3. CASE ~w.copy
      <3> DEFINE new == [w EXCEPT !.pc = "nextID", !.file = i.url, !.id = 0]
      <3>1. handler' = [handler EXCEPT ![h] = new]
        BY <1>2, <2>3
      <3>2. 0 \in 0 .. MaxId
        BY ConstantsAssumption
      <3>3. new \in HandlerType /\ new.pc = "nextID" /\ new.file = i.url /\ new.type = w.type /\ new.album = w.album
        BY <1>1, <2>1, <3>2 DEF HandlerType, Pcs
      <3> HIDE DEF new
      <3>4. handler' \in [Handlers -> HandlerType] /\ Rest(h) /\ handler'[h] = new
        BY <3>1, <3>3, Types DEF Rest
      <3>5. HandlerOK(h)'
        BY <1>1, <2>1, <2>3, <3>3, <3>4 DEF HandlerOK, Deletes, FileTypes
      <3> QED  BY <1>1, <2>3, <3>3, <3>4, <3>5 DEF Moves, Taking, Deletes
    <2> QED  BY <2>2, <2>3
  <1>3. CASE Goes(h, "idle")
    BY <1>1, <1>3, IdleMoves, HandlerOnly
  <1>4. Goes(h, "idle") \/ \E i \in items :
            handler' = [handler EXCEPT ![h] = IF w.copy THEN Posting(i.url)
                                              ELSE [w EXCEPT !.pc = "nextID", !.file = i.url, !.id = 0]]
    BY DEF ReadItem
  <1> QED  BY <1>1, <1>2, <1>3, <1>4, HandlerOnly

LEMMA UpdateVideoInv == ASSUME Inv, NEW h \in Handlers, UpdateVideo(h) PROVE Inv'
  <1> DEFINE Linked(i) == IF i.type = "video" /\ i.id = handler[h].id THEN [i EXCEPT !.url = File(h)] ELSE i
  <1>1. /\ handler[h].pc = "updateVideo" /\ items' = {Linked(i) : i \in items} /\ Goes(h, "answer")
        /\ UNCHANGED <<disk, uploads, albums, copies, lastId, broken, past>>
    BY DEF UpdateVideo
  <1>2. File(h) \in uploads /\ File(h) \in Files /\ File(h) # None
    BY <1>1, Types, ConstantsAssumption DEF HandlerOK, File
  <1>3. /\ handler' \in [Handlers -> HandlerType] /\ Rest(h) /\ handler'[h].pc = "answer"
        /\ handler'[h].file = handler[h].file /\ handler'[h].type = handler[h].type
        /\ handler'[h].album = handler[h].album
    BY <1>1, GoesFacts DEF Pcs
  <1>4. HandlerOK(h)'
    BY <1>1, <1>3, Types DEF HandlerOK, Deletes
  <1>5. ASSUME NEW i \in items
        PROVE  /\ Linked(i) \in ItemType /\ Linked(i).id = i.id /\ Linked(i).album = i.album
               /\ Linked(i).url \in {i.url, File(h)}
    <2>1. i \in ItemType
      BY Types
    <2> QED  BY <1>2, <2>1 DEF ItemType
  <1> HIDE DEF Linked
  <1>6. \A i \in items' : \E j \in items : i = Linked(j)
    BY <1>1
  <1>7. \A i, j \in items' : i.id = j.id => i = j
    <2> SUFFICES ASSUME NEW i \in items', NEW j \in items', i.id = j.id PROVE i = j
      OBVIOUS
    <2>1. PICK a \in items, b \in items : i = Linked(a) /\ j = Linked(b)
      BY <1>6
    <2> QED  BY <1>5, <2>1, Types
  <1>8. Keeps
    BY <1>1, <1>5, <1>6, <1>7 DEF Keeps, past
  <1>9. /\ \A f \in uploads' : disk[f] # "none"
        /\ \A i \in items' : i.url # None => i.url \in uploads'
        /\ copies' \subseteq uploads'
    <2>1. \A i \in items : i.url # None => i.url \in uploads
      BY DEF Inv, FileInv
    <2>2. \A i \in items' : i.url # None => i.url \in uploads
      BY <1>2, <1>5, <1>6, <2>1
    <2> QED  BY <1>1, <2>2 DEF Inv, FileInv
  <1>10. Moves(h) /\ (Taking(handler'[h]) => Taking(handler[h]))
    BY <1>1, <1>3, <1>4 DEF Moves, Taking, Deletes
  <1> QED  BY <1>1, <1>8, <1>9, <1>10, Types, SameDisk

LEMMA CopyURLInv ==
    ASSUME Inv, NEW h \in Handlers, handler[h].pc \in {"setAvatar", "createPost"}, CopyURL(h) PROVE Inv'
  <1>1. /\ copies' = copies \cup ({File(h)} \ {None}) /\ Goes(h, "idle")
        /\ UNCHANGED <<disk, uploads, items, albums, lastId, broken, past>>
    BY DEF CopyURL
  <1>2. File(h) \in uploads \cup {None}
    BY Types DEF HandlerOK, File
  <1>3. Keeps
    BY <1>1, Types DEF Keeps, past
  <1>4. /\ \A f \in uploads' : disk[f] # "none"
        /\ \A i \in items' : i.url # None => i.url \in uploads'
        /\ copies' \subseteq uploads'
    BY <1>1, <1>2 DEF Inv, FileInv
  <1> QED  BY <1>1, <1>3, <1>4, IdleMoves, Types, SameDisk

LEMMA DeleteAlbumInv == ASSUME Inv, NEW h \in Handlers, DeleteAlbum(h) PROVE Inv'
  <1>1. /\ handler[h].pc = "deleteAlbum" /\ albums' \subseteq albums /\ gone \subseteq gone'
        /\ gone' \subseteq gone \cup albums /\ Goes(h, "deletePhotos")
        /\ UNCHANGED <<disk, uploads, items, copies, lastId, broken, early, strays>>
    BY DEF DeleteAlbum
  <1>2. /\ handler' \in [Handlers -> HandlerType] /\ Rest(h) /\ handler'[h].pc = "deletePhotos"
        /\ handler'[h].album = handler[h].album
    BY <1>1, GoesFacts DEF Pcs
  <1>3. HandlerOK(h)'
    BY <1>1, <1>2, Types DEF HandlerOK, Deletes
  <1>4. Keeps
    BY <1>1, Types DEF Keeps
  <1>5. /\ \A f \in uploads' : disk[f] # "none"
        /\ \A i \in items' : i.url # None => i.url \in uploads'
        /\ copies' \subseteq uploads'
    BY <1>1 DEF Inv, FileInv
  <1>6. Moves(h) /\ (Taking(handler'[h]) => Taking(handler[h]))
    BY <1>2, <1>3 DEF Moves, Taking, Deletes
  <1>7. PastOK'
    BY <1>1 DEF PastOK, Inv, TypeOK
  <1> QED  BY <1>1, <1>4, <1>5, <1>6, <1>7, Types, SameDisk

LEMMA DeletePhotosInv == ASSUME Inv, NEW h \in Handlers, DeletePhotos(h) PROVE Inv'
  <1>1. /\ handler[h].pc = "deletePhotos" /\ items' \subseteq items /\ Goes(h, "idle")
        /\ UNCHANGED <<disk, uploads, albums, copies, lastId, broken, past>>
    BY DEF DeletePhotos
  <1>2. Keeps
    BY <1>1, Types DEF Keeps, past
  <1>3. /\ \A f \in uploads' : disk[f] # "none"
        /\ \A i \in items' : i.url # None => i.url \in uploads'
        /\ copies' \subseteq uploads'
    BY <1>1 DEF Inv, FileInv
  <1> QED  BY <1>1, <1>2, <1>3, IdleMoves, Types, SameDisk

(* Deletions, each by a handler that is idle before and after: no handler  *)
(* moves.                                                                  *)
LEMMA DeleteInv == ASSUME Inv, NEW type, NEW id, Delete(type, id) PROVE Inv'
  <1>1. items' \subseteq items /\ UNCHANGED <<disk, uploads, albums, copies, lastId, handler, broken, past>>
    BY DEF Delete
  <1>2. TypeOK'
    BY <1>1, Types DEF Inv, TypeOK
  <1>3. WorkInv'
    BY <1>1 DEF Inv, WorkInv, HandlerOK
  <1>4. IdsInv'
    <2>1. Inserting' = Inserting
      BY <1>1 DEF Inserting
    <2>2. \A x : Fresh(x) => Fresh(x)'
      BY <1>1 DEF Fresh, SavesInto, past
    <2>3. \A x : Given(x)' <=> Given(x)
      BY <1>1 DEF Given, past
    <2> QED  BY <1>1, <2>1, <2>2, <2>3 DEF Inv, IdsInv, past
  <1>5. FileInv'
    BY <1>1 DEF Inv, FileInv, Writing, File
  <1>6. Bound'
    BY <1>1 DEF Inv, Bound, Takers
  <1> QED  BY <1>2, <1>3, <1>4, <1>5, <1>6 DEF Inv

LEMMA CrashInv == ASSUME Inv, Crash PROVE Inv'
  <1>1. /\ handler' = [h \in Handlers |-> Idle]
        /\ strays' = strays \cup {handler[h].album : h \in {k \in Handlers : handler[k].pc = "deletePhotos"}}
        /\ broken' = broken \cup {File(h) : h \in {k \in Handlers : handler[k].pc = "write"}}
        /\ UNCHANGED <<disk, uploads, items, albums, copies, lastId, gone, early>>
    BY DEF Crash
  <1>2. \A h \in Handlers : handler'[h] = Idle
    BY <1>1
  <1>3. TypeOK'
    <2>1. \A h \in Handlers : handler[h].pc = "write" => File(h) \in Files
      BY Types DEF HandlerOK, File
    <2>2. broken' \subseteq Files
      BY <1>1, <2>1, Types
    <2>3. handler' \in [Handlers -> HandlerType]
      BY <1>1, IdleFacts
    <2>4. PastOK'
      <3>1. \A h \in Handlers : handler[h].pc = "deletePhotos" => handler[h].album \in Ids
        BY Types DEF HandlerOK, HandlerType, Deletes
      <3> QED  BY <1>1, <3>1, Types DEF PastOK
    <2> QED  BY <1>1, <2>2, <2>3, <2>4 DEF Inv, TypeOK
  <1>4. WorkInv'
    BY <1>2, IdleFacts DEF WorkInv, HandlerOK, Deletes
  <1>5. IdsInv'
    <2>1. Inserting' = {}
      BY <1>2, IdleFacts DEF Inserting
    <2>2. \A x : Given(x)' <=> Given(x)
      BY <1>1 DEF Given
    <2>3. \A h \in Handlers : Given(handler[h].album)'
      BY <1>2, IdleFacts DEF Given
    <2> QED  BY <1>1, <2>1, <2>2, <2>3 DEF Inv, IdsInv
  <1>6. FileInv'
    BY <1>1 DEF Inv, FileInv, Writing, File
  <1>7. Bound'
    <2>1. Takers' = {}
      BY <1>2, IdleFacts DEF Takers
    <2> QED  BY <1>1, <2>1, FS_EmptySet, ConstantsAssumption DEF Inv, TypeOK, Bound
  <1> QED  BY <1>3, <1>4, <1>5, <1>6, <1>7 DEF Inv

(* An id is taken: it is larger than any that has been given.              *)
LEMMA NextIDInv == ASSUME Inv, NEW h \in Handlers, NextID(h) PROVE Inv'
  <1> DEFINE w == handler[h]
             new == [w EXCEPT !.pc = "insert", !.id = lastId + 1]
  <1>1. /\ w.pc = "nextID" /\ w \in HandlerType /\ HandlerOK(h) /\ lastId' = lastId + 1
        /\ handler' = [handler EXCEPT ![h] = new]
        /\ UNCHANGED <<disk, uploads, items, albums, copies, broken, past>>
    BY Types DEF NextID
  <1>2. h \in Takers
    BY <1>1 DEF Takers, Taking
  <1>3. lastId \in Nat /\ MaxId \in Nat /\ lastId + 1 \in 0 .. MaxId
    <2>1. Cardinality(Takers) # 0
      BY <1>2, TakersFacts, FS_EmptySet
    <2> QED  BY <2>1, TakersFacts, ConstantsAssumption DEF Inv, TypeOK, Bound
  <1>4. /\ new \in HandlerType /\ new.pc = "insert" /\ new.id = lastId + 1 /\ new.file = w.file
        /\ new.type = w.type /\ new.album = w.album
    BY <1>1, <1>3 DEF HandlerType, Pcs
  <1> HIDE DEF new
  <1>5. handler' \in [Handlers -> HandlerType] /\ Rest(h) /\ handler'[h] = new
    BY <1>1, <1>4, Types DEF Rest
  <1>6. TypeOK'
    BY <1>1, <1>3, <1>5, Types DEF Inv, TypeOK
  <1>7. WorkInv'
    <2>1. HandlerOK(h)'
      BY <1>1, <1>4, <1>5 DEF HandlerOK, Deletes
    <2>2. \A k \in Handlers : k # h => HandlerOK(k)'
      BY <1>1, <1>5, HandlerOKStays DEF Rest
    <2> QED  BY <2>1, <2>2 DEF WorkInv
  <1>8. Bound'
    <2>1. Takers' = Takers \ {h}
      BY <1>2, <1>4, <1>5 DEF Takers, Rest, Taking
    <2>2. Cardinality(Takers') = Cardinality(Takers) - 1
      BY <1>2, <2>1, TakersFacts, FS_RemoveElement
    <2> QED  BY <1>1, <1>3, <2>2, TakersFacts DEF Inv, Bound
  <1>9. FileInv'
    <2>1. \A f \in Files : Writing(f) => Writing(f)'
      BY <1>1, <1>5, WritingStays
    <2> QED  BY <1>1, <2>1 DEF Inv, FileInv
  <1>10. IdsInv'
    <2>1. \A x : Given(x) => Given(x)'
      BY <1>1, <1>3 DEF Given, past
    <2>s. \A k \in Handlers : \A x : SavesInto(k, x)' <=> SavesInto(k, x)
      BY <1>1, <1>4, <1>5 DEF SavesInto, Rest, Deletes
    <2>2. \A x : Fresh(x) => Fresh(x)'
      BY <1>1, <2>s DEF Fresh, past
    <2>n. PICK next : next = lastId + 1
      OBVIOUS
    <2>3. Fresh(next)'
      <3>1. \A x \in 1 .. lastId : x # next
        BY <1>3, <2>n
      <3>2. None # next
        BY <1>3, <2>n, ConstantsAssumption
      <3>3. /\ next \notin albums \cup gone
            /\ \A i \in items : i.id # next /\ (i.album = next => next \in early)
        BY <3>1, <3>2 DEF Inv, IdsInv, Given
      <3>4. \A k \in Handlers : SavesInto(k, next) => next \in early
        BY <3>1, <3>2 DEF Inv, IdsInv, Given, SavesInto
      <3> QED  BY <1>1, <2>s, <3>3, <3>4 DEF Fresh, past
    <2>4. \A k \in Inserting' : k # h => k \in Inserting /\ handler'[k] = handler[k]
      BY <1>5 DEF Inserting, Rest
    <2>5. \A k \in Inserting' : k # h => handler'[k].id \in 1 .. lastId
      BY <2>4 DEF Inv, IdsInv
    <2>6. ASSUME NEW k \in Inserting' PROVE handler'[k].id \in 1 .. lastId' /\ Fresh(handler[k].id)'
      <3>1. CASE k = h
        <4>1. handler'[k].id = next
          BY <1>4, <1>5, <2>n, <3>1
        <4> QED  BY <1>1, <1>3, <2>n, <2>3, <4>1
      <3>2. CASE k # h
        <4>1. handler'[k].id = handler[k].id /\ Fresh(handler[k].id)
          BY <2>4, <3>2 DEF Inv, IdsInv
        <4> QED  BY <1>1, <1>3, <2>2, <2>5, <3>2, <4>1
      <3> QED  BY <3>1, <3>2
    <2>7. \A k, l \in Inserting' : handler'[k].id = handler'[l].id => k = l
      <3>1. \A k \in Inserting' : k # h => handler'[k].id # handler'[h].id
        BY <1>3, <1>4, <1>5, <2>5
      <3>2. \A k, l \in Inserting' : k # h /\ l # h /\ handler'[k].id = handler'[l].id => k = l
        BY <2>4 DEF Inv, IdsInv
      <3> QED  BY <3>1, <3>2
    <2>8. \A k \in Handlers : ~Deletes(handler'[k].pc) => Given(handler[k].album)'
      <3>1. \A k \in Handlers : handler'[k].album = handler[k].album
                                 /\ (Deletes(handler[k].pc) => Deletes(handler'[k].pc))
        BY <1>1, <1>4, <1>5 DEF Rest, Deletes
      <3> QED  BY <2>1, <3>1 DEF Inv, IdsInv
    <2>9. albums' \cup gone' \subseteq 1 .. lastId' /\ \A i \in items' : i.id \in 1 .. lastId' /\ Given(i.album)'
      <3>1. 1 .. lastId \subseteq 1 .. lastId'
        BY <1>1, <1>3
      <3> QED  BY <1>1, <2>1, <3>1 DEF Inv, IdsInv, past
    <2> QED  BY <2>6, <2>7, <2>8, <2>9 DEF IdsInv
  <1> QED  BY <1>6, <1>7, <1>8, <1>9, <1>10 DEF Inv

(* What is inserted under the id a handler has taken.                      *)
Row(h) == [type |-> handler[h].type, id |-> handler[h].id, album |-> handler[h].album, url |-> handler[h].file]

LEMMA InsertFacts ==
    ASSUME Inv, NEW h \in Handlers, Insert(h)
    PROVE  /\ handler[h].pc = "insert" /\ h \in Inserting /\ HandlerOK(h)
           /\ handler' \in [Handlers -> HandlerType] /\ Rest(h)
           /\ handler'[h].pc \in {"idle", "createPost"} /\ handler'[h].album = None
           /\ ~Taking(handler'[h]) /\ HandlerOK(h)'
           /\ \/ /\ handler[h].type = "album" /\ albums' = albums \cup {handler[h].id} /\ items' = items
              \/ /\ handler[h].type \in FileTypes \cup {"note"} /\ items' = items \cup {Row(h)} /\ albums' = albums
           /\ Row(h).id = handler[h].id /\ Row(h).album = handler[h].album /\ Row(h).url = handler[h].file
           /\ Row(h).type = handler[h].type
           /\ UNCHANGED <<disk, uploads, copies, lastId, broken, past>>
  <1> DEFINE w == handler[h]
  <1>1. /\ w.pc = "insert" /\ HandlerOK(h) /\ w \in HandlerType
        /\ UNCHANGED <<disk, uploads, copies, lastId, broken, past>>
        /\ handler' = [handler EXCEPT ![h] = IF w.copy THEN Posting(w.file) ELSE Idle]
    BY Types DEF Insert
  <1>2. w.file \in uploads \cup {None} /\ w.file \in Files \cup {None} /\ w.type \in FileTypes \cup {"note", "album"}
    BY <1>1, Types DEF HandlerOK
  <1>3. PICK new \in HandlerType : /\ handler' = [handler EXCEPT ![h] = new]
                                   /\ new = Idle \/ new = Posting(w.file)
    BY <1>1, <1>2, IdleFacts, PostingFacts
  <1>4. handler' \in [Handlers -> HandlerType] /\ Rest(h) /\ handler'[h] = new
    BY <1>3, Types DEF Rest
  <1>5. new.pc \in {"idle", "createPost"} /\ new.album = None /\ ~Taking(new) /\ new.file \in uploads \cup {None}
    BY <1>2, <1>3, IdleFacts, PostingFacts
  <1>6. HandlerOK(h)'
    BY <1>1, <1>4, <1>5 DEF HandlerOK, Deletes
  <1>7. \/ /\ w.type = "album" /\ albums' = albums \cup {w.id} /\ items' = items
        \/ /\ w.type \in FileTypes \cup {"note"} /\ items' = items \cup {Row(h)} /\ albums' = albums
    BY <1>2 DEF Insert, Row
  <1> QED  BY <1>1, <1>4, <1>5, <1>6, <1>7 DEF Inserting, Row

LEMMA InsertInv == ASSUME Inv, NEW h \in Handlers, Insert(h) PROVE Inv'
  <1> DEFINE w == handler[h]
             id == handler[h].id
  <1>1. /\ h \in Inserting /\ HandlerOK(h) /\ w.pc = "insert" /\ w \in HandlerType
        /\ handler' \in [Handlers -> HandlerType] /\ Rest(h)
        /\ handler'[h].pc \in {"idle", "createPost"} /\ handler'[h].album = None
        /\ ~Taking(handler'[h]) /\ HandlerOK(h)'
        /\ UNCHANGED <<disk, uploads, copies, lastId, broken, past>>
    BY InsertFacts, Types
  <1>2. /\ \/ w.type = "album" /\ albums' = albums \cup {id} /\ items' = items
           \/ w.type \in FileTypes \cup {"note"} /\ items' = items \cup {Row(h)} /\ albums' = albums
        /\ Row(h).id = id /\ Row(h).album = w.album /\ Row(h).url = w.file
    BY InsertFacts
  <1>3. id \in 1 .. lastId /\ Fresh(id) /\ id \in Ids /\ Given(w.album) /\ SavesInto(h, w.album)
    <2>1. id \in 1 .. lastId /\ lastId \in 0 .. MaxId
      BY <1>1 DEF Inv, IdsInv, TypeOK
    <2>2. id \in Ids
      BY <2>1, ConstantsAssumption DEF Ids
    <2>3. ~Deletes(w.pc)
      BY <1>1 DEF Deletes
    <2> QED  BY <1>1, <2>1, <2>2, <2>3 DEF Inv, IdsInv, SavesInto
  <1>4. TypeOK'
    <2>1. w.type \in FileTypes \cup {"note"} => Row(h) \in ItemType
      BY <1>1, <1>3 DEF Row, ItemType, HandlerType
    <2>2. \A i, j \in items' : i.id = j.id => i = j
      BY <1>2, <1>3, Types DEF Fresh
    <2>3. items' \subseteq ItemType /\ albums' \subseteq Ids
      BY <1>2, <1>3, <2>1 DEF Inv, TypeOK
    <2> QED  BY <1>1, <2>2, <2>3, Types DEF Inv, TypeOK
  <1>5. WorkInv'
    <2>1. \A k \in Handlers : k # h => HandlerOK(k)'
      BY <1>1, HandlerOKStays DEF Rest
    <2> QED  BY <1>1, <2>1 DEF WorkInv
  <1>6. Bound'
    BY <1>1, MoveKeepsBound
  <1>7. FileInv'
    <2>1. \A f \in Files : Writing(f) => Writing(f)'
      BY <1>1, WritingStays
    <2>2. \A i \in items' : i.url # None => i.url \in uploads
      BY <1>1, <1>2 DEF HandlerOK, Inv, FileInv
    <2> QED  BY <1>1, <2>1, <2>2 DEF Inv, FileInv
  <1>8. IdsInv'
    <2>1. \A k \in Inserting' : k \in Inserting /\ handler'[k] = handler[k] /\ k # h
      BY <1>1 DEF Inserting, Rest
    <2>2. \A k \in Inserting' : handler[k].id # id /\ handler[k].id \in 1 .. lastId /\ Fresh(handler[k].id)
      BY <1>1, <2>1 DEF Inv, IdsInv
    <2>3. None \notin 1 .. lastId
      BY ConstantsAssumption DEF Inv, TypeOK
    <2>4. ASSUME NEW k \in Inserting' PROVE Fresh(handler[k].id)'
      <3>n. PICK x : x = handler[k].id
        OBVIOUS
      <3>1. x \notin albums' \cup gone'
        BY <1>1, <1>2, <2>2, <3>n DEF Fresh, past
      <3>2. w.album = x => x \in early
        BY <1>3, <2>2, <3>n DEF Fresh
      <3>3. \A i \in items' : i.id # x /\ (i.album = x => x \in early)
        BY <1>2, <2>2, <3>2, <3>n DEF Fresh
      <3>4. \A l \in Handlers : SavesInto(l, x)' => x \in early
        BY <1>1, <2>2, <2>3, <3>n DEF Fresh, Rest, SavesInto
      <3>5. Fresh(x)'
        BY <1>1, <3>1, <3>3, <3>4 DEF Fresh, past
      <3> QED  BY <2>1, <3>5, <3>n
    <2>5. \A x : Given(x)' <=> Given(x)
      BY <1>1 DEF Given, past
    <2>6. \A k \in Handlers : ~Deletes(handler'[k].pc) => Given(handler[k].album)'
      BY <1>1, <2>5 DEF Inv, IdsInv, Given, Rest
    <2>7. albums' \cup gone' \subseteq 1 .. lastId /\ \A i \in items' : i.id \in 1 .. lastId /\ Given(i.album)
      BY <1>1, <1>2, <1>3 DEF Inv, IdsInv, past
    <2>8. \A k, l \in Inserting' : handler'[k].id = handler'[l].id => k = l
      BY <2>1 DEF Inv, IdsInv
    <2> QED  BY <1>1, <2>1, <2>2, <2>4, <2>5, <2>6, <2>7, <2>8 DEF IdsInv
  <1> QED  BY <1>4, <1>5, <1>6, <1>7, <1>8 DEF Inv

LEMMA StutterInv == ASSUME Inv, UNCHANGED vars PROVE Inv'
  BY DEF vars, past, PastOK, Inv, TypeOK, Bound, Takers, WorkInv, HandlerOK, IdsInv, Inserting, Fresh, SavesInto, Given,
         FileInv, Writing, File

LEMMA NextInv == Inv /\ [Next]_vars => Inv'
  <1> SUFFICES ASSUME Inv, [Next]_vars PROVE Inv'
    OBVIOUS
  <1>1. ASSUME NEW h \in Handlers, Execute(h) PROVE Inv'
    BY <1>1, TruncateInv, WriteInv, WriteFailsInv, SaveUploadInv, VideoInv, UpdateVideoInv, AnswerInv,
       UploadInv, ReadItemInv, NextIDInv, InsertInv, CopyURLInv, DeleteAlbumInv, DeletePhotosInv
       DEF Execute, SetUserAvatar, CreatePost
  <1>2. ASSUME NEW id \in Ids, Deletion(id) PROVE Inv'
    BY <1>2, DeleteInv DEF Deletion, photosDelete, audioDelete, handlePhotoDelete, handleMusicDelete,
                           handleDocDelete, handleNoteDelete
  <1> QED  BY <1>1, <1>2, RequestInv, CrashInv, StutterInv DEF Next

(* Nothing has two rows under one id, whatever is deleted and whenever the *)
(* process is killed: the counter of nextID gives no id twice.             *)
THEOREM TypeCorrect == Spec => []TypeOK
  <1>1. Inv => TypeOK
    BY DEF Inv
  <1> QED  BY <1>1, InitInv, NextInv, PTL DEF Spec

(* Whatever is shown has its upload, and the file of an upload is whole,   *)
(* unless it is being written or its last writing broke off.               *)
THEOREM FilesAreThere == Spec => []FilesBehindItems
  <1>1. Inv => FilesBehindItems
    <2> SUFFICES ASSUME Inv PROVE FilesBehindItems
      OBVIOUS
    <2>1. \A h \in Handlers : handler[h].pc = "answer" => File(h) \in uploads
      BY Types DEF HandlerOK, File
    <2>2. \A f \in uploads : serveUpload(f) = "whole" \/ Writing(f) \/ f \in broken
      BY Types DEF Inv, FileInv, serveUpload
    <2> QED  BY <2>1, <2>2 DEF FilesBehindItems, Inv, FileInv
  <1> QED  BY <1>1, InitInv, NextInv, PTL DEF Spec

-----------------------------------------------------------------------------
(* New albums are empty.                                                   *)
LEMMA OnlyInsertAddsAlbums ==
    ASSUME Inv, [Next]_vars
    PROVE  albums' \subseteq albums \/ \E h \in Handlers : Insert(h)
  <1>1. ASSUME NEW h \in Handlers, Request(h) PROVE albums' = albums
    BY <1>1, RequestStarts DEF Starts
  <1>2. ASSUME NEW h \in Handlers, Execute(h), ~Insert(h) PROVE albums' \subseteq albums
    BY <1>2 DEF Execute, Truncate, Write, WriteFails, SaveUpload, Video, UpdateVideo, Answer, Upload, ReadItem,
                NextID, SetUserAvatar, CreatePost, CopyURL, DeleteAlbum, DeletePhotos
  <1>3. ASSUME NEW id \in Ids, Deletion(id) PROVE albums' = albums
    BY <1>3 DEF Deletion, photosDelete, audioDelete, handlePhotoDelete, handleMusicDelete,
                handleDocDelete, handleNoteDelete, Delete
  <1> QED  BY <1>1, <1>2, <1>3 DEF Next, Crash, vars

(* Photos left behind by a deletion do not turn up in a later album: the   *)
(* counter gives out no id of an album again, deleted or not.              *)
THEOREM NewAlbumsAreEmpty == Spec => AlbumStartsEmpty
  <1>1. Inv /\ [Next]_vars => [\A a \in albums' \ albums : a \in early \/ \A i \in items : i.album # a]_vars
    <2> SUFFICES ASSUME Inv, [Next]_vars, NEW a \in albums' \ albums, NEW i \in items, i.album = a PROVE a \in early
      OBVIOUS
    <2>1. PICK h \in Handlers : Insert(h)
      BY OnlyInsertAddsAlbums
    <2>2. a = handler[h].id /\ h \in Inserting
      BY <2>1, InsertFacts
    <2> QED  BY <2>2 DEF Inv, IdsInv, Fresh
  <1> QED  BY <1>1, InitInv, NextInv, PTL DEF Spec, AlbumStartsEmpty

-----------------------------------------------------------------------------
(* Which photos may be left behind: whoever saves into an album saves into *)
(* one that is there, and who deletes it meets nobody who does, or else    *)
(* the album is one of strays.                                             *)
Deleting(h, id) == handler[h].album = id /\ Deletes(handler[h].pc)

MeetInv ==
    \A h, k \in Handlers : \A a \in Ids : SavesInto(h, a) /\ Deleting(k, a) => a \in strays

SavingInv == \A h \in Handlers : \A a \in Ids : SavesInto(h, a) => a \in albums \cup strays

Doomed(album) == \E h \in Handlers : handler[h].pc = "deletePhotos" /\ handler[h].album = album

PhotosInv ==
    \A i \in items : i.album # None =>
        i.type = "photo" /\ (i.album \in albums \cup strays \/ Doomed(i.album))

RaceInv == MeetInv /\ SavingInv /\ PhotosInv

LEMMA InitRaceInv == Init => RaceInv
  <1>1. None \notin Ids
    BY ConstantsAssumption DEF Ids
  <1> QED  BY <1>1, IdleFacts DEF Init, RaceInv, MeetInv, SavingInv, PhotosInv, SavesInto

LEMMA RequestRace == ASSUME Inv, RaceInv, NEW h \in Handlers, Request(h) PROVE RaceInv'
  <1>1. PICK work \in HandlerType : Starts(h, work) /\ StartOK(work)
    BY RequestStarts
  <1>2. /\ handler[h].pc = "idle" /\ Rest(h) /\ handler'[h] = work
        /\ UNCHANGED <<items, albums>> /\ strays' = strays \cup Strays(work)
    BY <1>1, Types DEF Starts, Rest
  <1>3. None \notin Ids
    BY ConstantsAssumption DEF Ids
  <1>4. ASSUME NEW k \in Handlers, k # h, NEW a \in Ids, work.album = a, handler[k].album = a,
               ~(Deletes(handler[k].pc) <=> Deletes(work.pc))
        PROVE  a \in Strays(work)
    BY <1>3, <1>4 DEF Strays, Deletes
  <1>5. MeetInv'
    <2> SUFFICES ASSUME NEW k \in Handlers, NEW l \in Handlers, NEW a \in Ids,
                        SavesInto(k, a)', Deleting(l, a)'
                 PROVE  a \in strays'
      BY DEF MeetInv
    <2>1. k # l
      BY DEF SavesInto, Deleting
    <2>2. CASE k # h /\ l # h
      BY <1>2, <2>2 DEF Rest, SavesInto, Deleting, RaceInv, MeetInv
    <2>3. CASE k = h
      <3>1. work.album = a /\ ~Deletes(work.pc) /\ handler[l].album = a /\ Deletes(handler[l].pc)
        BY <1>2, <2>1, <2>3 DEF Rest, SavesInto, Deleting
      <3> QED  BY <1>2, <1>4, <2>1, <2>3, <3>1
    <2>4. CASE l = h
      <3>1. work.album = a /\ Deletes(work.pc) /\ handler[k].album = a /\ ~Deletes(handler[k].pc)
        BY <1>2, <2>1, <2>4 DEF Rest, SavesInto, Deleting
      <3> QED  BY <1>2, <1>4, <2>1, <2>4, <3>1
    <2> QED  BY <2>2, <2>3, <2>4
  <1>6. SavingInv'
    <2> SUFFICES ASSUME NEW k \in Handlers, NEW a \in Ids, SavesInto(k, a)' PROVE a \in albums' \cup strays'
      BY DEF SavingInv
    <2>1. CASE k # h
      BY <1>2, <2>1 DEF Rest, SavesInto, RaceInv, SavingInv
    <2>2. CASE k = h
      BY <1>2, <1>3, <2>2 DEF SavesInto, Strays
    <2> QED  BY <2>1, <2>2
  <1>7. PhotosInv'
    <2>1. \A album : Doomed(album) => Doomed(album)'
      BY <1>2 DEF Doomed, Rest
    <2> QED  BY <1>2, <2>1 DEF RaceInv, PhotosInv
  <1> QED  BY <1>5, <1>6, <1>7 DEF RaceInv

(* No handler has come to save into an album, or to delete one. *)
NoNewcomers ==
    \A k \in Handlers : \A a \in Ids :
        /\ SavesInto(k, a)' => SavesInto(k, a)
        /\ Deleting(k, a)' => Deleting(k, a)

LEMMA MeetStays ==
    ASSUME RaceInv, NoNewcomers, strays' = strays PROVE MeetInv'
  <1> SUFFICES ASSUME NEW k \in Handlers, NEW l \in Handlers, NEW a \in Ids,
                      SavesInto(k, a)', Deleting(l, a)'
               PROVE  a \in strays
    BY DEF MeetInv
  <1>1. SavesInto(k, a) /\ Deleting(l, a)
    BY DEF NoNewcomers, SavesInto, Deleting
  <1> QED  BY <1>1 DEF RaceInv, MeetInv

LEMMA SavingStays ==
    ASSUME RaceInv, NoNewcomers, strays' = strays, albums \subseteq albums' PROVE SavingInv'
  <1> SUFFICES ASSUME NEW k \in Handlers, NEW a \in Ids, SavesInto(k, a)' PROVE a \in albums' \cup strays
    BY DEF SavingInv
  <1>1. SavesInto(k, a)
    BY DEF NoNewcomers, SavesInto, Deleting
  <1> QED  BY <1>1 DEF RaceInv, SavingInv

(* A step of a handler that deletes no album. *)
LEMMA OtherRace ==
    ASSUME Inv, RaceInv, NEW h \in Handlers, Rest(h), past' = past, ~Deletes(handler[h].pc),
           ~Deletes(handler'[h].pc), handler'[h].album \in {None, handler[h].album},
           albums \subseteq albums',
           \A i \in items' : \/ i.album = None
                             \/ \E j \in items : i.album = j.album /\ i.type = j.type
                             \/ i.album = handler[h].album /\ i.type = "photo"
    PROVE  RaceInv'
  <1>0. None \notin Ids /\ strays' = strays
    BY ConstantsAssumption DEF Ids, past
  <1>1. NoNewcomers
    BY <1>0 DEF NoNewcomers, SavesInto, Deleting, Rest
  <1>2. MeetInv' /\ SavingInv'
    BY <1>0, <1>1, MeetStays, SavingStays
  <1>3. \A album : Doomed(album) => Doomed(album)'
    BY DEF Doomed, Deletes, Rest
  <1>4. handler[h].album \in albums \cup strays \cup {None}
    <2>1. handler[h].album \in Ids \cup {None}
      BY Types DEF HandlerType
    <2> QED  BY <2>1 DEF RaceInv, SavingInv, SavesInto
  <1>5. PhotosInv'
    BY <1>0, <1>3, <1>4 DEF RaceInv, PhotosInv
  <1> QED  BY <1>2, <1>5 DEF RaceInv

LEMMA DeleteAlbumRace == ASSUME Inv, RaceInv, NEW h \in Handlers, DeleteAlbum(h) PROVE RaceInv'
  <1>1. /\ handler[h].pc = "deleteAlbum" /\ albums' = albums \ {handler[h].album} /\ Goes(h, "deletePhotos")
        /\ UNCHANGED <<items, strays>>
    BY DEF DeleteAlbum
  <1>2. Rest(h) /\ handler'[h].pc = "deletePhotos" /\ handler'[h].album = handler[h].album
    BY <1>1, GoesFacts DEF Pcs
  <1>3. NoNewcomers
    BY <1>1, <1>2 DEF NoNewcomers, SavesInto, Deleting, Deletes, Rest
  <1>4. MeetInv'
    BY <1>1, <1>3, MeetStays
  <1>5. SavingInv'
    <2> SUFFICES ASSUME NEW k \in Handlers, NEW a \in Ids, SavesInto(k, a)'
                 PROVE  a \in albums' \cup strays
      BY <1>1 DEF SavingInv
    <2>0. SavesInto(k, a)
      BY <1>3 DEF NoNewcomers, SavesInto, Deleting
    <2>1. Deleting(h, a) => a \in strays
      BY <2>0 DEF RaceInv, MeetInv
    <2>2. a = handler[h].album => Deleting(h, a)
      BY <1>1 DEF Deleting, Deletes
    <2> QED  BY <1>1, <2>0, <2>1, <2>2 DEF RaceInv, SavingInv
  <1>6. PhotosInv'
    <2>1. Doomed(handler[h].album)'
      BY <1>2 DEF Doomed
    <2>2. \A album : Doomed(album) => Doomed(album)'
      BY <1>1, <1>2 DEF Doomed, Rest
    <2>3. ASSUME NEW i \in items, i.album # None
          PROVE  i.type = "photo" /\ (i.album \in albums' \cup strays \/ Doomed(i.album)')
      <3>n. PICK a : a = i.album
        OBVIOUS
      <3>1. i.type = "photo" /\ (a \in albums \cup strays \/ Doomed(a))
        BY <2>3, <3>n DEF RaceInv, PhotosInv
      <3>2. a = handler[h].album => Doomed(a)'
        BY <1>2 DEF Doomed
      <3>3. a \in albums' \cup strays \/ Doomed(a)'
        BY <1>1, <2>2, <3>1, <3>2
      <3> QED  BY <3>1, <3>3, <3>n
    <2> QED  BY <1>1, <2>3 DEF PhotosInv
  <1> QED  BY <1>4, <1>5, <1>6 DEF RaceInv

LEMMA DeletePhotosRace == ASSUME Inv, RaceInv, NEW h \in Handlers, DeletePhotos(h) PROVE RaceInv'
  <1>1. /\ handler[h].pc = "deletePhotos" /\ Goes(h, "idle") /\ UNCHANGED <<albums, past>>
        /\ items' = {i \in items : ~(i.type = "photo" /\ i.album = handler[h].album)}
    BY DEF DeletePhotos
  <1>2. Rest(h) /\ handler'[h] = Idle /\ None \notin Ids /\ strays' = strays
    BY <1>1, GoesFacts, ConstantsAssumption DEF Pcs, Ids, past
  <1>3. NoNewcomers
    BY <1>2, IdleFacts DEF NoNewcomers, SavesInto, Deleting, Rest
  <1>4. MeetInv' /\ SavingInv'
    BY <1>1, <1>2, <1>3, MeetStays, SavingStays
  <1>5. \A album : Doomed(album) => Doomed(album)' \/ album = handler[h].album
    BY <1>2 DEF Doomed, Rest
  <1>6. PhotosInv'
    <2>1. ASSUME NEW i \in items', i.album # None
          PROVE  i.type = "photo" /\ (i.album \in albums \cup strays \/ Doomed(i.album)')
      <3>n. PICK a : a = i.album
        OBVIOUS
      <3>1. i.type = "photo" /\ (a \in albums \cup strays \/ Doomed(a)) /\ a # handler[h].album
        BY <1>1, <2>1, <3>n DEF RaceInv, PhotosInv
      <3>2. a \in albums \cup strays \/ Doomed(a)'
        BY <1>5, <3>1
      <3> QED  BY <3>1, <3>2, <3>n
    <2> QED  BY <1>1, <1>2, <2>1 DEF PhotosInv
  <1> QED  BY <1>4, <1>6 DEF RaceInv

LEMMA ExecuteRace ==
    ASSUME Inv, RaceInv, NEW h \in Handlers, Execute(h), ~DeleteAlbum(h), ~DeletePhotos(h) PROVE RaceInv'
  <1>1. CASE Insert(h)
    <2>1. /\ handler[h].pc = "insert" /\ HandlerOK(h) /\ Rest(h) /\ past' = past /\ albums \subseteq albums'
          /\ handler'[h].pc \in {"idle", "createPost"} /\ handler'[h].album = None
          /\ \A i \in items' : i \in items \/ (i.album = handler[h].album /\ i.type = handler[h].type)
      BY <1>1, InsertFacts
    <2>2. handler[h].album # None => handler[h].type = "photo"
      BY <2>1 DEF HandlerOK, Deletes
    <2> QED  BY <2>1, <2>2, OtherRace DEF Deletes
  <1>2. CASE NextID(h)
    <2> DEFINE new == [handler[h] EXCEPT !.pc = "insert", !.id = lastId + 1]
    <2>1. handler[h] \in HandlerType /\ handler[h].pc = "nextID" /\ handler' = [handler EXCEPT ![h] = new]
      BY <1>2, Types DEF NextID
    <2>2. new.pc = "insert" /\ new.album = handler[h].album
      BY <2>1 DEF HandlerType
    <2> HIDE DEF new
    <2>3. Rest(h) /\ handler'[h] = new
      BY <2>1, Types DEF Rest
    <2>4. UNCHANGED <<items, albums, past>>
      BY <1>2 DEF NextID
    <2> QED  BY <2>1, <2>2, <2>3, <2>4, OtherRace DEF Deletes
  <1>3. CASE ReadItem(h)
    <2> DEFINE w == handler[h]
    <2>1. w \in HandlerType /\ w.pc = "readItem" /\ UNCHANGED <<items, albums, past>>
      BY <1>3, Types DEF ReadItem
    <2>2. PICK new : /\ handler' = [handler EXCEPT ![h] = new]
                     /\ new.pc \in {"idle", "createPost", "nextID"}
                     /\ new.album \in {None, w.album}
      <3>1. CASE Goes(h, "idle")
        BY <3>1, IdleFacts DEF Goes
      <3>2. ASSUME NEW i \in items,
                   handler' = [handler EXCEPT ![h] = IF w.copy THEN Posting(i.url)
                                                     ELSE [w EXCEPT !.pc = "nextID", !.file = i.url, !.id = 0]]
            PROVE  \E new : /\ handler' = [handler EXCEPT ![h] = new]
                            /\ new.pc \in {"idle", "createPost", "nextID"}
                            /\ new.album \in {None, w.album}
        <4>1. i \in ItemType
          BY Types
        <4>2. i.url \in Files \cup {None}
          BY <4>1 DEF ItemType
        <4>3. Posting(i.url).pc = "createPost" /\ Posting(i.url).album = None
          BY <4>2, PostingFacts
        <4> DEFINE on == [w EXCEPT !.pc = "nextID", !.file = i.url, !.id = 0]
        <4>4. on.pc = "nextID" /\ on.album = w.album
          BY <2>1 DEF HandlerType
        <4> HIDE DEF on
        <4>5. handler' = [handler EXCEPT ![h] = Posting(i.url)] \/ handler' = [handler EXCEPT ![h] = on]
          BY <3>2 DEF on
        <4> QED  BY <4>3, <4>4, <4>5
      <3> QED  BY <1>3, <3>1, <3>2 DEF ReadItem
    <2>3. Rest(h) /\ handler'[h] = new
      BY <2>2, Types DEF Rest
    <2> QED  BY <2>1, <2>2, <2>3, OtherRace DEF Deletes
  <1>4. CASE UpdateVideo(h)
    <2>1. /\ handler[h].pc = "updateVideo" /\ Goes(h, "answer") /\ UNCHANGED <<albums, past>>
          /\ items' = {IF i.type = "video" /\ i.id = handler[h].id THEN [i EXCEPT !.url = File(h)] ELSE i : i \in items}
      BY <1>4 DEF UpdateVideo
    <2>2. \A i \in items' : \E j \in items : i.album = j.album /\ i.type = j.type
      <3>1. ASSUME NEW j \in items
            PROVE  [j EXCEPT !.url = File(h)].album = j.album /\ [j EXCEPT !.url = File(h)].type = j.type
        <4>1. j \in ItemType
          BY Types
        <4> QED  BY <4>1 DEF ItemType
      <3> QED  BY <2>1, <3>1
    <2>3. Rest(h) /\ handler'[h].pc = "answer" /\ handler'[h].album = handler[h].album
      BY <2>1, GoesFacts DEF Pcs
    <2> QED  BY <2>1, <2>2, <2>3, OtherRace DEF Deletes
  <1>5. CASE \/ Truncate(h) \/ Write(h) \/ WriteFails(h) \/ SaveUpload(h) \/ Video(h) \/ Answer(h) \/ Upload(h)
             \/ SetUserAvatar(h) \/ CreatePost(h)
    <2>1. UNCHANGED <<items, albums, past>>
      BY <1>5 DEF Truncate, Write, WriteFails, SaveUpload, Video, Answer, Upload, SetUserAvatar, CreatePost, CopyURL
    <2>2. ~Deletes(handler[h].pc)
      BY <1>5 DEF Truncate, Write, WriteFails, SaveUpload, Video, Answer, Upload, SetUserAvatar, CreatePost,
                  Deletes
    <2>3. handler[h].then \in {"answer", "readVideo", "nextID", "setAvatar"}
      BY Types DEF HandlerType
    <2>4. PICK pc \in Pcs \ {"deleteAlbum", "deletePhotos"} : Goes(h, pc)
      BY <1>5, <2>3 DEF Truncate, Write, WriteFails, SaveUpload, Video, Answer, Upload, SetUserAvatar, CreatePost,
                        CopyURL, Pcs
    <2>5. /\ Rest(h) /\ handler'[h].pc = pc
          /\ handler'[h].album \in {None, handler[h].album}
      BY <2>4, GoesFacts, IdleFacts
    <2> QED  BY <2>1, <2>2, <2>4, <2>5, OtherRace DEF Deletes
  <1> QED  BY <1>1, <1>2, <1>3, <1>4, <1>5 DEF Execute

(* The album whose deletion is killed before its photos are deleted joins  *)
(* strays.                                                                 *)
LEMMA CrashRace == ASSUME RaceInv, Crash PROVE RaceInv'
  <1>1. /\ \A h \in Handlers : handler'[h] = Idle
        /\ strays' = strays \cup {handler[h].album : h \in {k \in Handlers : handler[k].pc = "deletePhotos"}}
        /\ UNCHANGED <<items, albums>> /\ None \notin Ids
    BY ConstantsAssumption DEF Crash, Ids
  <1>2. MeetInv' /\ SavingInv'
    BY <1>1, IdleFacts DEF MeetInv, SavingInv, SavesInto
  <1>3. \A album : Doomed(album) => album \in strays'
    BY <1>1 DEF Doomed
  <1> QED  BY <1>1, <1>2, <1>3 DEF RaceInv, PhotosInv

LEMMA NextRace == Inv /\ RaceInv /\ [Next]_vars => RaceInv'
  <1> SUFFICES ASSUME Inv, RaceInv, [Next]_vars PROVE RaceInv'
    OBVIOUS
  <1>1. ASSUME items' \subseteq items, UNCHANGED <<albums, handler, past>> PROVE RaceInv'
    BY <1>1 DEF RaceInv, MeetInv, SavingInv, PhotosInv, Doomed, Deleting, SavesInto, past
  <1>2. ASSUME NEW id \in Ids, Deletion(id) PROVE RaceInv'
    BY <1>1, <1>2 DEF Deletion, photosDelete, audioDelete, handlePhotoDelete, handleMusicDelete,
                      handleDocDelete, handleNoteDelete, Delete
  <1>3. CASE UNCHANGED vars
    BY <1>1, <1>3 DEF vars
  <1> QED  BY <1>2, <1>3, CrashRace, RequestRace, ExecuteRace, DeleteAlbumRace, DeletePhotosRace DEF Next

(* A photo is in an album that is there, or about to go with it, unless    *)
(* the album was named too early or too late, or a saving met a deletion.  *)
THEOREM NoPhotoIsLeft == Spec => []NoPhotoLeftBehind
  <1>1. Init => Inv /\ RaceInv
    BY InitInv, InitRaceInv
  <1>2. Inv /\ RaceInv /\ [Next]_vars => (Inv /\ RaceInv)'
    BY NextInv, NextRace
  <1>3. RaceInv => NoPhotoLeftBehind
    BY DEF RaceInv, PhotosInv, Doomed, NoPhotoLeftBehind
  <1> QED  BY <1>1, <1>2, <1>3, PTL DEF Spec
=============================================================================
