------------------------------- MODULE Images -------------------------------
(***************************************************************************)
(* Stores, advertisements and menu items, and their images: a row in the   *)
(* database and a file in an object storage for each (store, store-images, *)
(* advertisement, advertisement-images, menu-items, menu-item-images).     *)
(*                                                                         *)
(* The three image services are the same program over three tables and     *)
(* three buckets.  No transaction spans the two stores, and none spans two *)
(* statements of a handler: every statement and every call of the storage  *)
(* is a step, and what a request has done when it fails stays done.  The   *)
(* files of one upload are handled at once and independently of each       *)
(* other (Promise.all): each is a request of its own here.                 *)
(***************************************************************************)
EXTENDS FiniteSets

CONSTANTS Stores, Adverts, Items,  \* ids of what has images
          ImageIds,                \* ids of image rows
          Paths,                   \* names of files
          Reqs,                    \* slots for requests in flight
          None                     \* null

Owners == Stores \cup Adverts \cup Items

\* Stores and advertisements have a switch; items are edited otherwise.
Switched == Stores \cup Adverts

\* The services differ in their buckets: files of two kinds never collide.
SameBucket(o, p) == \E kind \in {Stores, Adverts, Items} : {o, p} \subseteq kind

Image == [owner : Owners, path : Paths]

ASSUME ImagesAssumption ==
  /\ None \notin Owners \cup ImageIds \cup Paths \cup Reqs \cup Image
  /\ None \notin BOOLEAN
  /\ Stores \cap Adverts = {} /\ Stores \cap Items = {} /\ Adverts \cap Items = {}

VARIABLES active,      \* isActive of each owner, None once it is deleted
          image,       \* the image rows
          files,       \* the files in the storage
          req,         \* the requests in flight
          spoiled,     \* history: images whose deletion broke off
          leaked       \* history: files left behind

history == <<spoiled, leaked>>
vars == <<active, image, files, req, spoiled, leaked>>

Idle == [pc |-> "idle", kind |-> None, owner |-> None, path |-> None,
         ids |-> {}, paths |-> {}, on |-> None]

Init ==
  /\ active = [o \in Owners |-> TRUE]
  /\ image = [i \in ImageIds |-> None]
  /\ files = {}
  /\ req = [r \in Reqs |-> Idle]
  /\ spoiled = {}
  /\ leaked = {}

-----------------------------------------------------------------------------
(* Requests. *)

At(r, pc) == req[r].pc = pc
Goto(r, pc) == req' = [req EXCEPT ![r].pc = pc]
Done(r) == req' = [req EXCEPT ![r] = Idle]

Exists(o) == active[o] # None

\* Nothing knows this owner: its id stands for that of a new one.
Unknown(o) == ~Exists(o) /\ \A q \in Reqs : req[q].owner # o
ImagesOf(o) == {i \in ImageIds : image[i] # None /\ image[i].owner = o}
PathsOf(ids) == {image[i].path : i \in {j \in ids : image[j] # None}}

\* A request that reads.
Reading == UNCHANGED <<active, image, files, history>>

\* What a request that ends now leaves behind: an upload its file, a deletion
\* rows whose files it has begun to remove.
Remains(r) ==
  /\ leaked' = IF At(r, "row") THEN leaked \cup {req[r].path} ELSE leaked
  /\ spoiled' = IF At(r, "rows") THEN spoiled \cup req[r].ids ELSE spoiled

\* The handler throws, or the process dies.
Throw(r) ==
  /\ Done(r)
  /\ Remains(r)
  /\ UNCHANGED <<active, image, files>>

Die(r) == ~At(r, "idle") /\ Throw(r)

Arrive(r, kind, pc, o) ==
  req' = [req EXCEPT ![r].pc = pc, ![r].kind = kind, ![r].owner = o]

\* create: a new store, advertisement or menu item, which is active.  (Their
\* other columns, and the updates of those, are left out.)
CreateOwner(o) ==
  /\ Unknown(o)
  /\ active' = [active EXCEPT ![o] = TRUE]
  /\ UNCHANGED <<image, files, req, spoiled, leaked>>

-----------------------------------------------------------------------------
(* uploadImages. *)

\* A name is the time in milliseconds and the name the file had: new, unless
\* a file of the same name arrives in the same millisecond.
NameFor(o, path) ==
  \/ /\ path \notin files \cup leaked
     /\ \A i \in ImageIds : image[i] # None => image[i].path # path
     /\ \A q \in Reqs : path # req[q].path /\ path \notin req[q].paths
  \/ \E q \in Reqs : /\ req[q].path = path
                     /\ At(q, "store")
                     /\ SameBucket(req[q].owner, o)

StartUpload(r, o, path) ==
  /\ At(r, "idle")
  /\ NameFor(o, path)
  /\ req' = [req EXCEPT ![r].pc = IF o \in Items THEN "item" ELSE "store",
                        ![r].kind = "upload", ![r].owner = o,
                        ![r].path = path]
  /\ Reading

\* Only the menu items' service looks for the owner.
CheckItem(r) ==
  /\ At(r, "item")
  /\ IF Exists(req[r].owner) THEN Goto(r, "store") /\ Reading ELSE Throw(r)

\* Two files of one name, of the same millisecond: the one that is stored
\* first has it, and is not deleted again in that millisecond.
Taken(path) ==
  \/ path \in files
  \/ \E i \in ImageIds : image[i] # None /\ image[i].path = path
  \/ \E q \in Reqs : path \in req[q].paths

\* Mutant: a file of the same name is written over.
StoreFileOver(r) ==
  /\ At(r, "store")
  /\ files' = files \cup {req[r].path}
  /\ Goto(r, "row")
  /\ UNCHANGED <<active, image, history>>

\* The storage takes a file under a new name, or refuses it.
StoreFile(r) ==
  /\ At(r, "store")
  /\ \/ /\ ~Taken(req[r].path)
        /\ files' = files \cup {req[r].path}
        /\ Goto(r, "row")
        /\ UNCHANGED <<active, image, history>>
     \/ Throw(r)

\* An id that nothing refers to any more stands for a new one.
NewId(i) ==
  /\ image[i] = None
  /\ i \notin spoiled
  /\ \A q \in Reqs : i \notin req[q].ids

\* The row, whose owner must exist.
CreateRow(r) ==
  /\ At(r, "row")
  /\ IF Exists(req[r].owner)
     THEN /\ \E i \in ImageIds :
                /\ NewId(i)
                /\ image' = [image EXCEPT ![i] = [owner |-> req[r].owner,
                                                  path |-> req[r].path]]
          /\ Done(r)
          /\ UNCHANGED <<active, files, history>>
     ELSE Throw(r)

-----------------------------------------------------------------------------
(* deleteImages, on its own or on behalf of a removal. *)

StartDelete(r, ids) ==
  /\ At(r, "idle")
  /\ ids # {}
  /\ req' = [req EXCEPT ![r].pc = "find", ![r].kind = "delete", ![r].ids = ids]
  /\ Reading

\* All of the images must be there.
FindImages(r) ==
  /\ At(r, "find")
  /\ IF \A i \in req[r].ids : image[i] # None
     THEN /\ req' = [req EXCEPT ![r].pc = "remove",
                                ![r].paths = PathsOf(req[r].ids)]
          /\ Reading
     ELSE Throw(r)

\* Mutant: the rows go before the files.
RemoveRowsFirst(r) ==
  /\ At(r, "remove")
  /\ image' = [i \in ImageIds |-> IF i \in req[r].ids THEN None ELSE image[i]]
  /\ Goto(r, "rows")
  /\ UNCHANGED <<active, files, history>>

\* The storage removes the files, whether they are still there or not; or it
\* reports an error after some of them: their rows are left then.
RemoveFiles(r) ==
  /\ At(r, "remove")
  /\ \/ /\ files' = files \ req[r].paths
        /\ Goto(r, "rows")
        /\ UNCHANGED <<active, image, history>>
     \/ \E some \in SUBSET req[r].paths :
           /\ files' = files \ some
           /\ spoiled' = spoiled \cup {i \in req[r].ids : some # {}}
           /\ Done(r)
           /\ UNCHANGED <<active, image, leaked>>

\* The rows go, by id.
DeleteRows(r) ==
  /\ At(r, "rows")
  /\ image' = [i \in ImageIds |-> IF i \in req[r].ids THEN None ELSE image[i]]
  /\ spoiled' = spoiled \ req[r].ids
  /\ IF req[r].kind = "delete" THEN Done(r) ELSE Goto(r, "owner")
  /\ UNCHANGED <<active, files, leaked>>

-----------------------------------------------------------------------------
(* remove. *)

StartRemove(r, o) ==
  /\ At(r, "idle")
  /\ Arrive(r, "remove", "images", o)
  /\ Reading

\* The owner is read with its images, which are deleted before it is.
ReadImages(r) ==
  /\ At(r, "images")
  /\ IF Exists(req[r].owner)
     THEN /\ req' = [req EXCEPT ![r].ids = ImagesOf(req[r].owner),
                                ![r].pc = IF ImagesOf(req[r].owner) = {}
                                          THEN "owner" ELSE "find"]
          /\ Reading
     ELSE Throw(r)

\* Mutant: the rows of the images stay.
DropOwnerOnly(r) ==
  /\ At(r, "owner")
  /\ active' = [active EXCEPT ![req[r].owner] = None]
  /\ Done(r)
  /\ UNCHANGED <<image, files, history>>

\* The owner goes and with it, by cascade, the rows of images it has got
\* since, but not their files.  A store that orders refer to stays.
DropOwner(r) ==
  /\ At(r, "owner")
  /\ LET o == req[r].owner
     IN  \/ /\ Exists(o)
            /\ active' = [active EXCEPT ![o] = None]
            /\ image' = [i \in ImageIds |-> IF i \in ImagesOf(o)
                                            THEN None ELSE image[i]]
            /\ leaked' = leaked \cup (PathsOf(ImagesOf(o)) \cap files)
            /\ spoiled' = spoiled \ ImagesOf(o)
            /\ Done(r)
            /\ UNCHANGED <<files>>
         \/ ~Exists(o) /\ Throw(r)
         \/ o \in Stores /\ Throw(r)

-----------------------------------------------------------------------------
(* toggleStatus. *)

StartToggle(r, o) ==
  /\ At(r, "idle")
  /\ Arrive(r, "toggle", "switch", o)
  /\ Reading

ReadSwitch(r) ==
  /\ At(r, "switch")
  /\ IF Exists(req[r].owner)
     THEN /\ req' = [req EXCEPT ![r].pc = "turn",
                                ![r].on = active[req[r].owner]]
          /\ Reading
     ELSE Throw(r)

\* The opposite of what was read is written.
WriteSwitch(r) ==
  /\ At(r, "turn")
  /\ LET o == req[r].owner
     IN  IF Exists(o)
         THEN /\ active' = [active EXCEPT ![o] = ~req[r].on]
              /\ Done(r)
              /\ UNCHANGED <<image, files, history>>
         ELSE Throw(r)

-----------------------------------------------------------------------------
\* The handlers, from the arrival of a request on.
UploadImages(r) == CheckItem(r) \/ StoreFile(r) \/ CreateRow(r)
DeleteImages(r) == FindImages(r) \/ RemoveFiles(r) \/ DeleteRows(r)
RemoveOwner(r) == ReadImages(r) \/ DropOwner(r)
ToggleStatus(r) == ReadSwitch(r) \/ WriteSwitch(r)

Step(r) ==
  UploadImages(r) \/ DeleteImages(r) \/ RemoveOwner(r) \/ ToggleStatus(r)

Next ==
  \/ \E o \in Owners : CreateOwner(o)
  \/ \E r \in Reqs :
        \/ \E o \in Owners, path \in Paths : StartUpload(r, o, path)
        \/ \E ids \in SUBSET ImageIds : StartDelete(r, ids)
        \/ \E o \in Owners : StartRemove(r, o)
        \/ \E o \in Switched : StartToggle(r, o)
        \/ Step(r)
        \/ Die(r)

Spec == Init /\ [][Next]_vars

-----------------------------------------------------------------------------
(* Properties. *)

ReqRow ==
  [pc : {"idle", "item", "store", "row", "find", "remove", "rows", "images",
         "owner", "switch", "turn"},
   kind : {"upload", "delete", "remove", "toggle", None},
   owner : Owners \cup {None}, path : Paths \cup {None},
   ids : SUBSET ImageIds, paths : SUBSET Paths, on : BOOLEAN \cup {None}]

\* Rows and requests have their types; the owner of an image exists.
TypeOK ==
  /\ active \in [Owners -> BOOLEAN \cup {None}]
  /\ image \in [ImageIds -> Image \cup {None}]
  /\ \A i \in ImageIds : image[i] # None => Exists(image[i].owner)
  /\ files \subseteq Paths
  /\ req \in [Reqs -> ReqRow]
  /\ spoiled \subseteq ImageIds
  /\ leaked \subseteq Paths

\* Every image that is shown has its file, whatever uploads and deletions of
\* it and of others go on at once, except while it is being deleted and after
\* a deletion of it broke off; another deletion can then finish the work.
EveryImageHasFile ==
  \A i \in ImageIds \ spoiled :
     \/ image[i] = None
     \/ image[i].path \in files
     \/ \E r \in Reqs : At(r, "rows") /\ i \in req[r].ids

\* No file is left behind, except by an upload that broke off or was too late
\* for its owner, and by the cascade of an owner that got an image while it
\* was being removed.
EveryFileHasImage ==
  \A path \in files \ leaked :
     \/ \E i \in ImageIds : image[i] # None /\ image[i].path = path
     \/ \E r \in Reqs : At(r, "row") /\ req[r].path = path
=============================================================================
