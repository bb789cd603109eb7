---------------------------- MODULE ImagesProofs ----------------------------
(***************************************************************************)
(* Proofs about Images, for any number of owners, images, names of files   *)
(* and requests.                                                           *)
(*                                                                         *)
(* No statement is protected from another: what makes the two stores agree *)
(* is who may still use a name.  A name belongs to one row, or to one      *)
(* upload that has stored its file and has no row yet, and the names a     *)
(* deletion has read belong to the rows it has read.                       *)
(***************************************************************************)
EXTENDS Images, TLAPS

\* Where a request may be, and what it has in its variables there.
UploadStage(q) ==
  /\ q.pc \in {"item", "store", "row"}
  /\ q.owner \in Owners /\ q.path \in Paths
  /\ q.ids = {} /\ q.paths = {}

DeleteStage(q) ==
  /\ q.pc \in {"find", "remove", "rows"}
  /\ q.kind \in {"delete", "remove"}
  /\ q.kind = "remove" => q.owner \in Owners
  /\ q.pc = "find" => q.paths = {}

RemoveStage(q) ==
  /\ q.pc \in {"images", "owner"}
  /\ q.kind = "remove" /\ q.owner \in Owners
  /\ q.pc = "images" => q.ids = {} /\ q.paths = {}

SwitchStage(q) ==
  /\ q.pc \in {"switch", "turn"}
  /\ q.owner \in Owners /\ q.ids = {} /\ q.paths = {}
  /\ q.pc = "turn" => q.on \in BOOLEAN

StageOK(q) ==
  \/ q = Idle
  \/ UploadStage(q) \/ DeleteStage(q) \/ RemoveStage(q) \/ SwitchStage(q)

\* The image has this name.
Named(i, path) == image[i] # None /\ image[i].path = path

\* A name is the name of one image.
NamesUnique ==
  \A i, j \in ImageIds, path \in Paths :
    Named(i, path) /\ Named(j, path) => i = j

\* A file that was just stored is there, and nobody else uses its name.
StoredOK(r) ==
  At(r, "row") =>
    /\ req[r].path \in files
    /\ \A i \in ImageIds : ~Named(i, req[r].path)
    /\ \A q \in Reqs : req[r].path \notin req[q].paths
    /\ \A q \in Reqs : At(q, "row") /\ req[q].path = req[r].path => q = r

\* The names a deletion has read are those of the images it deletes.
DeletedOK(r) ==
  LET q == req[r]
  IN  /\ \A i \in ImageIds, path \in q.paths : Named(i, path) => i \in q.ids
      /\ q.pc \in {"remove", "rows"} =>
           \A i \in q.ids : image[i] # None => image[i].path \in q.paths
      /\ q.pc = "rows" => q.paths \cap files = {}

\* The inductive invariant.
IInv ==
  /\ TypeOK
  /\ NamesUnique
  /\ \A r \in Reqs : StageOK(req[r]) /\ StoredOK(r) /\ DeletedOK(r)
  /\ EveryImageHasFile
  /\ EveryFileHasImage

-----------------------------------------------------------------------------
\* A slot with no request has its type.
LEMMA IdleType ==
  /\ Idle \in ReqRow /\ Idle.pc = "idle" /\ Idle.ids = {} /\ Idle.paths = {}
  /\ Idle.owner = None
BY DEF Idle, ReqRow

\* The null value is no row and no switch.
LEMMA NullApart == None \notin Image /\ None \notin BOOLEAN
BY ImagesAssumption

\* The invariant holds at the start.
LEMMA InitInvariant == Init => IInv
<1> SUFFICES ASSUME Init PROVE IInv
  OBVIOUS
<1> USE IdleType, NullApart DEF Init
<1>1. TypeOK
  BY DEF TypeOK
<1>2. NamesUnique
  BY DEF NamesUnique, Named
<1>3. \A r \in Reqs : StageOK(req[r]) /\ StoredOK(r) /\ DeletedOK(r)
  BY DEF StageOK, StoredOK, DeletedOK, At
<1>4. EveryImageHasFile /\ EveryFileHasImage
  BY DEF EveryImageHasFile, EveryFileHasImage
<1> QED
  BY <1>1, <1>2, <1>3, <1>4 DEF IInv

\* A step that changes no row and no file, and keeps every owner.
LEMMA RequestStep ==
  ASSUME IInv, NEW r \in Reqs, NEW row \in ReqRow,
         req' = [req EXCEPT ![r] = row],
         UNCHANGED <<image, files>>,
         active' \in [Owners -> BOOLEAN \cup {None}],
         \A o \in Owners : Exists(o) => active'[o] # None,
         StageOK(row), row.pc \notin {"row", "rows"},
         leaked \subseteq leaked', leaked' \subseteq Paths,
         spoiled \subseteq spoiled', spoiled' \subseteq ImageIds,
         At(r, "row") => req[r].path \in leaked',
         At(r, "rows") => req[r].ids \subseteq spoiled',
         \A i \in ImageIds, path \in row.paths :
           Named(i, path) => i \in row.ids,
         \A path \in row.paths : \E i \in ImageIds : Named(i, path),
         row.pc = "remove" => \A i \in row.ids :
           image[i] # None => image[i].path \in row.paths
  PROVE  IInv'
<1>1. /\ req' \in [Reqs -> ReqRow] /\ req'[r] = row
      /\ \A q \in Reqs \ {r} : req'[q] = req[q]
  BY DEF IInv, TypeOK
<1>2. TypeOK'
  <2>1. \A i \in ImageIds : image[i] # None => image[i].owner \in Owners
    BY DEF IInv, TypeOK, Image
  <2> QED
    BY <1>1, <2>1 DEF IInv, TypeOK, Exists
<1>3. NamesUnique'
  BY DEF IInv, NamesUnique, Named
<1>4. ASSUME NEW q \in Reqs
      PROVE  StageOK(req[q])' /\ StoredOK(q)' /\ DeletedOK(q)'
  <2>1. CASE q = r
    <3>1. StageOK(req[q])'
      BY <1>1, <2>1 DEF StageOK, UploadStage, DeleteStage, RemoveStage,
                        SwitchStage
    <3>2. StoredOK(q)' /\ DeletedOK(q)'
      BY <1>1, <2>1 DEF StoredOK, DeletedOK, At, Named
    <3> QED
      BY <3>1, <3>2
  <2>2. CASE q # r
    <3>1. StageOK(req[q]) /\ StoredOK(q) /\ DeletedOK(q)
      BY DEF IInv
    <3>2. StageOK(req[q])'
      BY <1>1, <2>2, <3>1 DEF StageOK, UploadStage, DeleteStage, RemoveStage,
                              SwitchStage
    <3>3. At(q, "row") => req[q].path \notin row.paths
      BY <3>1 DEF StoredOK
    <3>4. StoredOK(q)'
      BY <1>1, <2>2, <3>1, <3>3 DEF StoredOK, At, Named
    <3>5. DeletedOK(q)'
      BY <1>1, <2>2, <3>1 DEF DeletedOK, Named
    <3> QED
      BY <3>2, <3>4, <3>5
  <2> QED
    BY <2>1, <2>2
<1>5. EveryImageHasFile'
  <2> SUFFICES ASSUME NEW i \in ImageIds \ spoiled', image[i] # None,
                      image[i].path \notin files
               PROVE  \E q \in Reqs : At(q, "rows")' /\ i \in req'[q].ids
    BY DEF EveryImageHasFile
  <2>1. PICK q \in Reqs : At(q, "rows") /\ i \in req[q].ids
    BY DEF IInv, EveryImageHasFile
  <2>2. q # r
    BY <2>1
  <2> QED
    BY <1>1, <2>1, <2>2 DEF At
<1>6. EveryFileHasImage'
  <2> SUFFICES ASSUME NEW path \in files \ leaked',
                      \A i \in ImageIds : ~Named(i, path)
               PROVE  \E q \in Reqs : At(q, "row")' /\ req'[q].path = path
    BY DEF EveryFileHasImage, Named
  <2>1. PICK q \in Reqs : At(q, "row") /\ req[q].path = path
    BY DEF IInv, EveryFileHasImage, Named
  <2>2. q # r
    BY <2>1
  <2> QED
    BY <1>1, <2>1, <2>2 DEF At
<1> QED
  BY <1>2, <1>3, <1>4, <1>5, <1>6 DEF IInv

\* A step that changes no row, no switch and no file.
LEMMA LocalStep ==
  ASSUME IInv, NEW r \in Reqs, NEW row \in ReqRow,
         req' = [req EXCEPT ![r] = row],
         UNCHANGED <<active, image, files>>,
         StageOK(row), row.pc \notin {"row", "rows"},
         leaked \subseteq leaked', leaked' \subseteq Paths,
         spoiled \subseteq spoiled', spoiled' \subseteq ImageIds,
         At(r, "row") => req[r].path \in leaked',
         At(r, "rows") => req[r].ids \subseteq spoiled',
         \A i \in ImageIds, path \in row.paths :
           Named(i, path) => i \in row.ids,
         \A path \in row.paths : \E i \in ImageIds : Named(i, path),
         row.pc = "remove" => \A i \in row.ids :
           image[i] # None => image[i].path \in row.paths
  PROVE  IInv'
<1>1. /\ active' \in [Owners -> BOOLEAN \cup {None}]
      /\ \A o \in Owners : Exists(o) => active'[o] # None
  BY DEF IInv, TypeOK, Exists
<1> QED
  BY <1>1, RequestStep

\* The request goes on with no names and no promise to keep.
LEMMA ReadStep ==
  ASSUME IInv, NEW r \in Reqs, NEW row \in ReqRow,
         req' = [req EXCEPT ![r] = row], Reading,
         req[r].pc \notin {"row", "rows"},
         StageOK(row), row.pc \notin {"row", "rows", "remove"},
         row.paths = {}
  PROVE  IInv'
<1>1. UNCHANGED <<active, image, files>> /\ UNCHANGED <<spoiled, leaked>>
  BY DEF Reading, history
<1>2. leaked \subseteq Paths /\ spoiled \subseteq ImageIds
  BY DEF IInv, TypeOK
<1> QED
  BY <1>1, <1>2, LocalStep DEF At

\* The handler throws, or the process dies: what remains is recorded.
LEMMA ThrowStep ==
  ASSUME IInv, NEW r \in Reqs, Throw(r)
  PROVE  IInv'
<1>1. /\ req' = [req EXCEPT ![r] = Idle]
      /\ UNCHANGED <<active, image, files>>
      /\ leaked' = IF At(r, "row") THEN leaked \cup {req[r].path} ELSE leaked
      /\ spoiled' = IF At(r, "rows") THEN spoiled \cup req[r].ids ELSE spoiled
  BY DEF Throw, Done, Remains
<1>2. /\ req[r] \in ReqRow /\ StageOK(req[r])
      /\ leaked \subseteq Paths /\ spoiled \subseteq ImageIds
  BY DEF IInv, TypeOK
<1>3. At(r, "row") => req[r].path \in Paths
  BY <1>2, IdleType DEF At, StageOK, UploadStage, DeleteStage, RemoveStage,
                        SwitchStage
<1>4. req[r].ids \subseteq ImageIds
  BY <1>2 DEF ReqRow
<1>5. StageOK(Idle)
  BY DEF StageOK
<1> QED
  BY <1>1, <1>2, <1>3, <1>4, <1>5, IdleType, LocalStep

-----------------------------------------------------------------------------
(* Requests that arrive, and what they read. *)

\* A slot with no request has nothing in its variables.
LEMMA StageOf ==
  ASSUME IInv, NEW r \in Reqs
  PROVE  /\ req[r] \in ReqRow /\ StageOK(req[r])
         /\ At(r, "idle") => req[r] = Idle
         /\ req[r].pc \in {"item", "store", "row"} => UploadStage(req[r])
         /\ req[r].pc \in {"find", "remove", "rows"} => DeleteStage(req[r])
         /\ req[r].pc \in {"images", "owner"} => RemoveStage(req[r])
         /\ req[r].pc \in {"switch", "turn"} => SwitchStage(req[r])
<1>1. req[r] \in ReqRow /\ StageOK(req[r])
  BY DEF IInv, TypeOK
<1> QED
  BY <1>1, IdleType
     DEF At, StageOK, UploadStage, DeleteStage, RemoveStage, SwitchStage

\* A file arrives.
LEMMA StartUploadStep ==
  ASSUME IInv, NEW r \in Reqs, NEW o \in Owners, NEW path \in Paths,
         StartUpload(r, o, path)
  PROVE  IInv'
<1> DEFINE pc  == IF o \in Items THEN "item" ELSE "store"
           one == [Idle EXCEPT !.pc = pc, !.kind = "upload"]
           row == [one EXCEPT !.owner = o, !.path = path]
<1>1. req[r] = Idle /\ Reading
  BY StageOf DEF StartUpload
<1>2. req' = [req EXCEPT ![r] = row]
  BY <1>1, IdleType DEF StartUpload, IInv, TypeOK, ReqRow
<1>3. /\ one \in ReqRow /\ one.pc = pc /\ one.kind = "upload"
      /\ one.ids = {} /\ one.paths = {}
  BY IdleType DEF ReqRow
<1> HIDE DEF one
<1>4. /\ row \in ReqRow /\ row.pc = pc /\ row.owner = o /\ row.path = path
      /\ row.ids = {} /\ row.paths = {}
  BY <1>3 DEF ReqRow
<1> HIDE DEF row
<1>5. StageOK(row)
  BY <1>4 DEF StageOK, UploadStage
<1> QED
  BY <1>1, <1>2, <1>4, <1>5, IdleType, ReadStep

\* A deletion, a removal or a turn of the switch is asked for.
LEMMA StartOthersStep ==
  ASSUME IInv, NEW r \in Reqs,
         \/ \E ids \in SUBSET ImageIds : StartDelete(r, ids)
         \/ \E o \in Owners : StartRemove(r, o)
         \/ \E o \in Switched : StartToggle(r, o)
  PROVE  IInv'
<1>1. ASSUME NEW ids \in SUBSET ImageIds, StartDelete(r, ids)
      PROVE  IInv'
  <2> DEFINE one == [Idle EXCEPT !.pc = "find", !.kind = "delete"]
             row == [one EXCEPT !.ids = ids]
  <2>1. req[r] = Idle /\ Reading
    BY <1>1, StageOf DEF StartDelete
  <2>2. req' = [req EXCEPT ![r] = row]
    BY <1>1, <2>1, IdleType DEF StartDelete, IInv, TypeOK, ReqRow
  <2>3. /\ one \in ReqRow /\ one.pc = "find" /\ one.kind = "delete"
        /\ one.paths = {}
    BY IdleType DEF ReqRow
  <2> HIDE DEF one
  <2>4. /\ row \in ReqRow /\ row.pc = "find" /\ row.kind = "delete"
        /\ row.paths = {}
    BY <2>3 DEF ReqRow
  <2> HIDE DEF row
  <2>5. StageOK(row)
    BY <2>4 DEF StageOK, DeleteStage
  <2> QED
    BY <2>1, <2>2, <2>4, <2>5, IdleType, ReadStep
<1>2. ASSUME NEW o \in Owners, NEW kind \in {"remove", "toggle"},
             NEW pc \in {"images", "switch"},
             kind = "remove" <=> pc = "images",
             At(r, "idle"), Arrive(r, kind, pc, o), Reading
      PROVE  IInv'
  <2> DEFINE one == [Idle EXCEPT !.pc = pc, !.kind = kind]
             row == [one EXCEPT !.owner = o]
  <2>1. req[r] = Idle
    BY <1>2, StageOf
  <2>2. req' = [req EXCEPT ![r] = row]
    BY <1>2, <2>1, IdleType DEF Arrive, IInv, TypeOK, ReqRow
  <2>3. /\ one \in ReqRow /\ one.pc = pc /\ one.kind = kind
        /\ one.ids = {} /\ one.paths = {}
    BY IdleType DEF ReqRow
  <2> HIDE DEF one
  <2>4. /\ row \in ReqRow /\ row.pc = pc /\ row.kind = kind /\ row.owner = o
        /\ row.ids = {} /\ row.paths = {}
    BY <2>3 DEF ReqRow
  <2> HIDE DEF row
  <2>5. StageOK(row)
    BY <1>2, <2>4 DEF StageOK, RemoveStage, SwitchStage
  <2> QED
    BY <1>2, <2>1, <2>2, <2>4, <2>5, IdleType, ReadStep
<1> QED
  BY <1>1, <1>2 DEF StartRemove, StartToggle, Switched, Owners

\* A request that moves on keeps what it has.
LEMMA GotoMoves ==
  ASSUME IInv, NEW r \in Reqs, Goto(r, "store") \/ Goto(r, "row")
                                 \/ Goto(r, "rows") \/ Goto(r, "owner")
  PROVE  /\ req' \in [Reqs -> ReqRow]
         /\ \A q \in Reqs \ {r} : req'[q] = req[q]
         /\ req' = [req EXCEPT ![r] = req'[r]]
         /\ req'[r].kind = req[r].kind /\ req'[r].owner = req[r].owner
         /\ req'[r].path = req[r].path /\ req'[r].ids = req[r].ids
         /\ req'[r].paths = req[r].paths /\ req'[r].on = req[r].on
         /\ \A pc : Goto(r, pc) => req'[r].pc = pc
<1>1. req \in [Reqs -> ReqRow] /\ req[r] \in ReqRow
  BY DEF IInv, TypeOK
<1>2. PICK pc \in {"store", "row", "rows", "owner"} : Goto(r, pc)
  OBVIOUS
<1> DEFINE row == [req[r] EXCEPT !.pc = pc]
<1>3. req' = [req EXCEPT ![r] = row]
  BY <1>1, <1>2 DEF Goto
<1>4. /\ row \in ReqRow /\ row.pc = pc
      /\ row.kind = req[r].kind /\ row.owner = req[r].owner
      /\ row.path = req[r].path /\ row.ids = req[r].ids
      /\ row.paths = req[r].paths /\ row.on = req[r].on
  BY <1>1 DEF ReqRow
<1>5. \A p : Goto(r, p) => req'[r].pc = p
  BY <1>1 DEF Goto, ReqRow
<1> HIDE DEF row
<1>6. req'[r] = row
  BY <1>1, <1>3
<1> QED
  BY <1>1, <1>3, <1>4, <1>5, <1>6

\* The menu item of an upload is looked for.
LEMMA CheckItemStep ==
  ASSUME IInv, NEW r \in Reqs, CheckItem(r)
  PROVE  IInv'
<1>1. At(r, "item")
  BY DEF CheckItem
<1>2. CASE Throw(r)
  BY <1>2, ThrowStep
<1>3. CASE ~Throw(r)
  <2>1. Goto(r, "store") /\ Reading
    BY <1>3 DEF CheckItem
  <2> DEFINE row == req'[r]
  <2>2. /\ row \in ReqRow /\ req' = [req EXCEPT ![r] = row]
        /\ row.pc = "store" /\ row.owner = req[r].owner
        /\ row.path = req[r].path /\ row.ids = req[r].ids
        /\ row.paths = req[r].paths
    BY <2>1, GotoMoves
  <2>3. UploadStage(req[r])
    BY <1>1, StageOf DEF At
  <2> HIDE DEF row
  <2>4. StageOK(row)
    BY <2>2, <2>3 DEF StageOK, UploadStage
  <2> QED
    BY <1>1, <2>1, <2>2, <2>3, <2>4, ReadStep DEF At, UploadStage
<1> QED
  BY <1>2, <1>3

\* The images of an owner are looked up, to be deleted with it.
LEMMA ReadImagesStep ==
  ASSUME IInv, NEW r \in Reqs, ReadImages(r)
  PROVE  IInv'
<1>1. At(r, "images") /\ req[r] \in ReqRow /\ RemoveStage(req[r])
  BY StageOf DEF ReadImages, At
<1>2. CASE Throw(r)
  BY <1>2, ThrowStep
<1>3. CASE ~Throw(r)
  <2> DEFINE ids == ImagesOf(req[r].owner)
             pc  == IF ids = {} THEN "owner" ELSE "find"
             one == [req[r] EXCEPT !.ids = ids]
             row == [one EXCEPT !.pc = pc]
  <2>1. req' = [req EXCEPT ![r] = row] /\ Reading
    BY <1>1, <1>3 DEF ReadImages, IInv, TypeOK, ReqRow
  <2>2. /\ one \in ReqRow /\ one.kind = "remove" /\ one.owner \in Owners
        /\ one.paths = {}
    <3>1. ids \in SUBSET ImageIds
      BY DEF ImagesOf
    <3> HIDE DEF ids
    <3> QED
      BY <1>1, <3>1 DEF At, ReqRow, RemoveStage
  <2> HIDE DEF one
  <2>3. /\ row \in ReqRow /\ row.kind = "remove" /\ row.owner \in Owners
        /\ row.paths = {} /\ row.pc = pc
    BY <2>2 DEF ReqRow
  <2> HIDE DEF row
  <2>4. StageOK(row)
    BY <2>3 DEF StageOK, RemoveStage, DeleteStage
  <2> QED
    BY <1>1, <2>1, <2>3, <2>4, ReadStep DEF At
<1> QED
  BY <1>2, <1>3

\* The switch is read.
LEMMA ReadSwitchStep ==
  ASSUME IInv, NEW r \in Reqs, ReadSwitch(r)
  PROVE  IInv'
<1>1. At(r, "switch") /\ req[r] \in ReqRow /\ SwitchStage(req[r])
  BY StageOf DEF ReadSwitch, At
<1>2. CASE Throw(r)
  BY <1>2, ThrowStep
<1>3. CASE ~Throw(r)
  <2> DEFINE on  == active[req[r].owner]
             one == [req[r] EXCEPT !.pc = "turn"]
             row == [one EXCEPT !.on = on]
  <2>1. req' = [req EXCEPT ![r] = row] /\ Reading /\ Exists(req[r].owner)
    BY <1>1, <1>3 DEF ReadSwitch, IInv, TypeOK, ReqRow
  <2>2. on \in BOOLEAN
    BY <1>1, <2>1 DEF SwitchStage, Exists, IInv, TypeOK
  <2> HIDE DEF on
  <2>3. /\ one \in ReqRow /\ one.pc = "turn" /\ one.owner \in Owners
        /\ one.ids = {} /\ one.paths = {}
    BY <1>1 DEF ReqRow, SwitchStage
  <2> HIDE DEF one
  <2>4. /\ row \in ReqRow /\ row.pc = "turn" /\ row.owner \in Owners
        /\ row.ids = {} /\ row.paths = {} /\ row.on = on
    BY <2>2, <2>3 DEF ReqRow
  <2> HIDE DEF row
  <2>5. StageOK(row)
    BY <2>2, <2>4 DEF StageOK, SwitchStage
  <2> QED
    BY <1>1, <2>1, <2>4, <2>5, ReadStep DEF At
<1> QED
  BY <1>2, <1>3

\* The names of the images that will go are read: each is of one image.
LEMMA FindImagesStep ==
  ASSUME IInv, NEW r \in Reqs, FindImages(r)
  PROVE  IInv'
<1>1. At(r, "find") /\ req[r] \in ReqRow /\ DeleteStage(req[r])
  BY StageOf DEF FindImages, At
<1>2. CASE Throw(r)
  BY <1>2, ThrowStep
<1>3. CASE ~Throw(r)
  <2> DEFINE paths == PathsOf(req[r].ids)
             one   == [req[r] EXCEPT !.pc = "remove"]
             row   == [one EXCEPT !.paths = paths]
  <2>1. req' = [req EXCEPT ![r] = row] /\ Reading
    BY <1>1, <1>3 DEF FindImages, IInv, TypeOK, ReqRow
  <2>2. req[r].ids \subseteq ImageIds
    BY <1>1 DEF ReqRow
  <2>3. /\ paths \subseteq Paths
        /\ \A path \in paths : \E i \in req[r].ids : Named(i, path)
        /\ \A i \in req[r].ids : image[i] # None => image[i].path \in paths
    <3>1. \A i \in ImageIds : image[i] # None => image[i].path \in Paths
      BY DEF IInv, TypeOK, Image
    <3> QED
      BY <2>2, <3>1 DEF PathsOf, Named
  <2>4. \A i \in ImageIds, path \in paths : Named(i, path) => i \in req[r].ids
    BY <2>2, <2>3 DEF IInv, NamesUnique
  <2> HIDE DEF paths
  <2>5. /\ one \in ReqRow /\ one.pc = "remove" /\ one.ids = req[r].ids
        /\ one.kind = req[r].kind /\ one.owner = req[r].owner
    BY <1>1 DEF ReqRow
  <2> HIDE DEF one
  <2>6. /\ row \in ReqRow /\ row.pc = "remove" /\ row.ids = req[r].ids
        /\ row.kind = req[r].kind /\ row.owner = req[r].owner
        /\ row.paths = paths
    BY <2>3, <2>5 DEF ReqRow
  <2> HIDE DEF row
  <2>7. StageOK(row)
    BY <1>1, <2>6 DEF StageOK, DeleteStage
  <2>8. /\ UNCHANGED <<active, image, files, spoiled, leaked>>
        /\ leaked \subseteq Paths /\ spoiled \subseteq ImageIds
    BY <2>1 DEF Reading, history, IInv, TypeOK
  <2> QED
    BY <1>1, <2>1, <2>2, <2>3, <2>4, <2>6, <2>7, <2>8, LocalStep DEF At
<1> QED
  BY <1>2, <1>3


-----------------------------------------------------------------------------
(* Steps that change a row, a switch or a file. *)

\* A new owner: nothing else changes.
LEMMA CreateOwnerStep ==
  ASSUME IInv, NEW o \in Owners, CreateOwner(o)
  PROVE  IInv'
<1>1. /\ active' = [active EXCEPT ![o] = TRUE]
      /\ UNCHANGED <<image, files, req, spoiled, leaked>>
  BY DEF CreateOwner
<1>2. TypeOK'
  <2>1. \A i \in ImageIds : image[i] # None => image[i].owner \in Owners
    BY DEF IInv, TypeOK, Image
  <2>2. /\ active' \in [Owners -> BOOLEAN \cup {None}]
        /\ \A p \in Owners : Exists(p) => active'[p] # None
    BY <1>1, NullApart DEF IInv, TypeOK, Exists
  <2> QED
    BY <1>1, <2>1, <2>2 DEF IInv, TypeOK, Exists
<1>3. NamesUnique' /\ EveryImageHasFile' /\ EveryFileHasImage'
  BY <1>1 DEF IInv, NamesUnique, Named, EveryImageHasFile, EveryFileHasImage,
              At
<1>4. \A r \in Reqs : StageOK(req[r])' /\ StoredOK(r)' /\ DeletedOK(r)'
  BY <1>1 DEF IInv, StageOK, UploadStage, DeleteStage, RemoveStage,
              SwitchStage, StoredOK, DeletedOK, Named, At
<1> QED
  BY <1>2, <1>3, <1>4 DEF IInv

\* The switch is turned: the owner stays.
LEMMA WriteSwitchStep ==
  ASSUME IInv, NEW r \in Reqs, WriteSwitch(r)
  PROVE  IInv'
<1> DEFINE o == req[r].owner
<1>1. At(r, "turn") /\ SwitchStage(req[r])
  BY StageOf DEF WriteSwitch, At
<1>2. CASE Throw(r)
  BY <1>2, ThrowStep
<1>3. CASE ~Throw(r)
  <2>1. /\ active' = [active EXCEPT ![o] = ~req[r].on]
        /\ req' = [req EXCEPT ![r] = Idle]
        /\ UNCHANGED <<image, files, spoiled, leaked>>
    BY <1>1, <1>3 DEF WriteSwitch, Done, history
  <2>2. (~req[r].on) \in BOOLEAN
    OBVIOUS
  <2>3. /\ active' \in [Owners -> BOOLEAN \cup {None}]
        /\ \A p \in Owners : Exists(p) => active'[p] # None
    BY <2>1, <2>2, NullApart DEF IInv, TypeOK, Exists
  <2>4. StageOK(Idle)
    BY DEF StageOK
  <2>5. leaked \subseteq Paths /\ spoiled \subseteq ImageIds
    BY DEF IInv, TypeOK
  <2> QED
    BY <1>1, <2>1, <2>3, <2>4, <2>5, IdleType, RequestStep DEF At
<1> QED
  BY <1>2, <1>3

\* A file is stored under a name that nobody has.
LEMMA StoreFileStep ==
  ASSUME IInv, NEW r \in Reqs, StoreFile(r)
  PROVE  IInv'
<1> DEFINE p == req[r].path
<1>1. At(r, "store") /\ UploadStage(req[r])
  BY StageOf DEF StoreFile, At
<1>2. CASE Throw(r)
  BY <1>2, ThrowStep
<1>3. CASE ~Throw(r)
  <2>1. /\ ~Taken(p) /\ files' = files \cup {p} /\ Goto(r, "row")
        /\ UNCHANGED <<active, image, spoiled, leaked>>
    BY <1>1, <1>3 DEF StoreFile, history
  <2>2. /\ p \notin files
        /\ \A i \in ImageIds : ~Named(i, p)
        /\ \A q \in Reqs : p \notin req[q].paths
    BY <2>1 DEF Taken, Named
  <2>3. /\ req' \in [Reqs -> ReqRow]
        /\ \A q \in Reqs \ {r} : req'[q] = req[q]
        /\ req'[r].pc = "row" /\ req'[r].owner = req[r].owner
        /\ req'[r].path = p /\ req'[r].ids = req[r].ids
        /\ req'[r].paths = req[r].paths
    BY <2>1, GotoMoves
  <2>4. p \in Paths /\ req[r].ids = {} /\ req[r].paths = {}
    BY <1>1 DEF UploadStage
  <2>5. TypeOK'
    BY <2>1, <2>3, <2>4 DEF IInv, TypeOK, Exists
  <2>6. NamesUnique'
    BY <2>1 DEF IInv, NamesUnique, Named
  <2>7. ASSUME NEW q \in Reqs
        PROVE  StageOK(req[q])' /\ StoredOK(q)' /\ DeletedOK(q)'
    <3>1. CASE q = r
      <4>1. StageOK(req[q])'
        BY <1>1, <2>3, <3>1 DEF StageOK, UploadStage
      <4>2. \A x \in Reqs : req'[x].paths = req[x].paths
        BY <2>3
      <4>3. \A x \in Reqs \ {r} : At(x, "row") => req[x].path \in files
        BY DEF IInv, StoredOK
      <4>4. StoredOK(q)'
        BY <2>1, <2>2, <2>3, <3>1, <4>2, <4>3 DEF StoredOK, At, Named
      <4>5. DeletedOK(q)'
        BY <2>3, <2>4, <3>1 DEF DeletedOK
      <4> QED
        BY <4>1, <4>4, <4>5
    <3>2. CASE q # r
      <4>1. StageOK(req[q]) /\ StoredOK(q) /\ DeletedOK(q)
        BY DEF IInv
      <4>2. StageOK(req[q])'
        BY <2>3, <3>2, <4>1 DEF StageOK, UploadStage, DeleteStage,
                                RemoveStage, SwitchStage
      <4>3. \A x \in Reqs : req'[x].paths = req[x].paths
        BY <2>3
      <4>4. StoredOK(q)'
        BY <2>1, <2>2, <2>3, <3>2, <4>1, <4>3 DEF StoredOK, At, Named
      <4>5. DeletedOK(q)'
        BY <2>1, <2>2, <2>3, <3>2, <4>1 DEF DeletedOK, Named
      <4> QED
        BY <4>2, <4>4, <4>5
    <3> QED
      BY <3>1, <3>2
  <2>8. EveryImageHasFile'
    <3> SUFFICES ASSUME NEW i \in ImageIds \ spoiled, image[i] # None,
                        image[i].path \notin files
                 PROVE  \E q \in Reqs : At(q, "rows")' /\ i \in req'[q].ids
      BY <2>1 DEF EveryImageHasFile
    <3>1. PICK q \in Reqs : At(q, "rows") /\ i \in req[q].ids
      BY DEF IInv, EveryImageHasFile
    <3> QED
      BY <1>1, <2>3, <3>1 DEF At
  <2>9. EveryFileHasImage'
    <3> SUFFICES ASSUME NEW path \in files', path \notin leaked,
                        \A i \in ImageIds : ~Named(i, path)
                 PROVE  \E q \in Reqs : At(q, "row")' /\ req'[q].path = path
      BY <2>1 DEF EveryFileHasImage, Named
    <3>1. CASE path = p
      BY <2>3, <3>1 DEF At
    <3>2. CASE path # p
      <4>1. PICK q \in Reqs : At(q, "row") /\ req[q].path = path
        BY <2>1, <3>2 DEF IInv, EveryFileHasImage, Named
      <4> QED
        BY <1>1, <2>3, <4>1 DEF At
    <3> QED
      BY <3>1, <3>2
  <2> QED
    BY <2>5, <2>6, <2>7, <2>8, <2>9 DEF IInv
<1> QED
  BY <1>2, <1>3

\* The row of a stored file: it takes the name over from the upload.
LEMMA CreateRowStep ==
  ASSUME IInv, NEW r \in Reqs, CreateRow(r)
  PROVE  IInv'
<1> DEFINE p == req[r].path
<1>1. At(r, "row") /\ UploadStage(req[r])
  BY StageOf DEF CreateRow, At
<1>2. CASE Throw(r)
  BY <1>2, ThrowStep
<1>3. CASE ~Throw(r)
  <2> DEFINE new == [owner |-> req[r].owner, path |-> p]
  <2>1. PICK i \in ImageIds :
          /\ NewId(i) /\ image' = [image EXCEPT ![i] = new]
          /\ Exists(req[r].owner)
          /\ req' = [req EXCEPT ![r] = Idle]
          /\ UNCHANGED <<active, files, spoiled, leaked>>
    BY <1>1, <1>3 DEF CreateRow, Done, history
  <2>2. new \in Image /\ new.path = p /\ new.owner = req[r].owner
    BY <1>1 DEF UploadStage, Image
  <2>3. new # None
    BY <2>2, NullApart
  <2> HIDE DEF new
  <2>4. /\ req' \in [Reqs -> ReqRow] /\ req'[r] = Idle
        /\ \A q \in Reqs \ {r} : req'[q] = req[q]
    BY <2>1, IdleType DEF IInv, TypeOK
  <2>5. /\ image' \in [ImageIds -> Image \cup {None}] /\ image'[i] = new
        /\ \A j \in ImageIds \ {i} : image'[j] = image[j]
    BY <2>1, <2>2 DEF IInv, TypeOK
  <2>6. /\ \A path : Named(i, path)' <=> path = p
        /\ \A path : \A j \in ImageIds \ {i} :
             Named(j, path)' <=> Named(j, path)
    BY <2>2, <2>3, <2>5 DEF Named
  <2>7. /\ image[i] = None /\ i \notin spoiled
        /\ \A q \in Reqs : i \notin req[q].ids
    BY <2>1 DEF NewId
  <2>8. /\ p \in files /\ \A j \in ImageIds : ~Named(j, p)
        /\ \A q \in Reqs : p \notin req[q].paths
        /\ \A q \in Reqs : At(q, "row") /\ req[q].path = p => q = r
    BY <1>1 DEF IInv, StoredOK
  <2>9. TypeOK'
    BY <2>1, <2>2, <2>4, <2>5 DEF IInv, TypeOK, Exists
  <2>10. NamesUnique'
    BY <2>6, <2>8 DEF IInv, NamesUnique
  <2>11. ASSUME NEW q \in Reqs
         PROVE  StageOK(req[q])' /\ StoredOK(q)' /\ DeletedOK(q)'
    <3>1. CASE q = r
      BY <2>4, <3>1, IdleType DEF StageOK, StoredOK, DeletedOK, At
    <3>2. CASE q # r
      <4>1. StageOK(req[q]) /\ StoredOK(q) /\ DeletedOK(q)
        BY DEF IInv
      <4>2. StageOK(req[q])'
        BY <2>4, <3>2, <4>1 DEF StageOK, UploadStage, DeleteStage,
                                RemoveStage, SwitchStage
      <4>3. \A x \in Reqs : req'[x].paths \subseteq req[x].paths
        BY <2>4, IdleType
      <4>4. \A x \in Reqs : At(x, "row")' => x # r
        BY <2>4, IdleType DEF At
      <4>5. StoredOK(q)'
        BY <2>1, <2>4, <2>6, <2>8, <3>2, <4>1, <4>3, <4>4 DEF StoredOK, At
      <4>6. \A j \in ImageIds, path \in req[q].paths :
              Named(j, path)' => j \in req[q].ids
        BY <2>6, <2>8, <4>1 DEF DeletedOK
      <4>7. \A j \in req[q].ids : j # i /\ j \in ImageIds
        BY <2>7, StageOf DEF ReqRow
      <4>8. DeletedOK(q)'
        BY <2>1, <2>4, <2>5, <3>2, <4>1, <4>6, <4>7 DEF DeletedOK
      <4> QED
        BY <4>2, <4>5, <4>8
    <3> QED
      BY <3>1, <3>2
  <2>12. EveryImageHasFile'
    <3> SUFFICES ASSUME NEW j \in ImageIds \ spoiled, image'[j] # None,
                        image'[j].path \notin files
                 PROVE  \E q \in Reqs : At(q, "rows")' /\ j \in req'[q].ids
      BY <2>1 DEF EveryImageHasFile
    <3>1. j # i
      BY <2>2, <2>5, <2>8
    <3>2. PICK q \in Reqs : At(q, "rows") /\ j \in req[q].ids
      BY <2>5, <3>1 DEF IInv, EveryImageHasFile
    <3> QED
      BY <1>1, <2>4, <3>2 DEF At
  <2>13. EveryFileHasImage'
    <3> SUFFICES ASSUME NEW path \in files, path \notin leaked,
                        \A j \in ImageIds : ~Named(j, path)'
                 PROVE  \E q \in Reqs : At(q, "row")' /\ req'[q].path = path
      BY <2>1 DEF EveryFileHasImage, Named
    <3>1. path # p /\ \A j \in ImageIds : ~Named(j, path)
      BY <2>6, <2>7 DEF Named
    <3>2. PICK q \in Reqs : At(q, "row") /\ req[q].path = path
      BY <3>1 DEF IInv, EveryFileHasImage, Named
    <3> QED
      BY <2>4, <3>1, <3>2 DEF At
  <2> QED
    BY <2>9, <2>10, <2>11, <2>12, <2>13 DEF IInv
<1> QED
  BY <1>2, <1>3

\* The storage removes files; it may break off in between.
LEMMA RemoveFilesStep ==
  ASSUME IInv, NEW r \in Reqs, RemoveFiles(r)
  PROVE  IInv'
<1>1. /\ At(r, "remove") /\ DeleteStage(req[r])
      /\ req[r] \in ReqRow /\ DeletedOK(r)
  BY StageOf DEF RemoveFiles, At, IInv
<1>2. PICK gone \in SUBSET req[r].paths :
        /\ files' = files \ gone
        /\ UNCHANGED <<active, image, leaked>>
        /\ \/ /\ gone = req[r].paths /\ Goto(r, "rows")
              /\ UNCHANGED spoiled
           \/ /\ spoiled' = spoiled \cup {i \in req[r].ids : gone # {}}
              /\ req' = [req EXCEPT ![r] = Idle]
  BY DEF RemoveFiles, Done, history
<1>3. /\ req' \in [Reqs -> ReqRow]
      /\ \A q \in Reqs \ {r} : req'[q] = req[q]
      /\ \/ req'[r] = Idle
         \/ /\ req'[r].pc = "rows" /\ gone = req[r].paths
            /\ req'[r].kind = req[r].kind /\ req'[r].owner = req[r].owner
            /\ req'[r].ids = req[r].ids /\ req'[r].paths = req[r].paths
  <2>1. CASE Goto(r, "rows") /\ gone = req[r].paths
    BY <2>1, GotoMoves
  <2>2. CASE req' = [req EXCEPT ![r] = Idle]
    BY <2>2, IdleType DEF IInv, TypeOK
  <2> QED
    BY <1>2, <2>1, <2>2
<1>4. \A i \in ImageIds, path \in gone : Named(i, path) => i \in req[r].ids
  BY <1>1, <1>2 DEF DeletedOK
<1>5. TypeOK'
  <2>1. spoiled' \subseteq ImageIds
    BY <1>1, <1>2 DEF IInv, TypeOK, ReqRow
  <2> QED
    BY <1>2, <1>3, <2>1 DEF IInv, TypeOK, Exists
<1>6. NamesUnique'
  BY <1>2 DEF IInv, NamesUnique, Named
<1>7. ASSUME NEW q \in Reqs
      PROVE  StageOK(req[q])' /\ StoredOK(q)' /\ DeletedOK(q)'
  <2>1. CASE q = r
    <3>1. CASE req'[r] = Idle
      BY <2>1, <3>1, IdleType DEF StageOK, StoredOK, DeletedOK, At
    <3>2. CASE req'[r] # Idle
      <4>1. StageOK(req[q])'
        BY <1>1, <1>3, <2>1, <3>2 DEF StageOK, DeleteStage
      <4>2. StoredOK(q)'
        BY <1>3, <2>1, <3>2 DEF StoredOK, At
      <4>3. DeletedOK(q)'
        BY <1>1, <1>2, <1>3, <2>1, <3>2 DEF DeletedOK, At, Named
      <4> QED
        BY <4>1, <4>2, <4>3
    <3> QED
      BY <3>1, <3>2
  <2>2. CASE q # r
    <3>1. StageOK(req[q]) /\ StoredOK(q) /\ DeletedOK(q)
      BY DEF IInv
    <3>2. StageOK(req[q])'
      BY <1>3, <2>2, <3>1 DEF StageOK, UploadStage, DeleteStage, RemoveStage,
                              SwitchStage
    <3>3. /\ \A x \in Reqs : req'[x].paths \subseteq req[x].paths
          /\ \A x \in Reqs : At(x, "row")' => x # r
      BY <1>3, IdleType DEF At
    <3>4. StoredOK(q)'
      BY <1>2, <1>3, <2>2, <3>1, <3>3 DEF StoredOK, At, Named
    <3>5. DeletedOK(q)'
      BY <1>2, <1>3, <2>2, <3>1 DEF DeletedOK, Named
    <3> QED
      BY <3>2, <3>4, <3>5
  <2> QED
    BY <2>1, <2>2
<1>8. EveryImageHasFile'
  <2> SUFFICES ASSUME NEW i \in ImageIds \ spoiled', image[i] # None,
                      image[i].path \notin files'
               PROVE  \E q \in Reqs : At(q, "rows")' /\ i \in req'[q].ids
    BY <1>2 DEF EveryImageHasFile
  <2>1. CASE image[i].path \in gone
    <3>1. i \in req[r].ids
      BY <1>4, <2>1 DEF Named
    <3>2. req'[r] # Idle
      <4> SUFFICES ASSUME req'[r] = Idle PROVE FALSE
        OBVIOUS
      <4>1. ~Goto(r, "rows")
        BY GotoMoves, IdleType
      <4> QED
        BY <1>2, <2>1, <3>1, <4>1
    <3> QED
      BY <1>3, <3>1, <3>2 DEF At
  <2>2. CASE image[i].path \notin gone
    <3>1. i \notin spoiled /\ image[i].path \notin files
      BY <1>2, <2>2
    <3>2. PICK q \in Reqs : At(q, "rows") /\ i \in req[q].ids
      BY <3>1 DEF IInv, EveryImageHasFile
    <3> QED
      BY <1>1, <1>3, <3>2 DEF At
  <2> QED
    BY <2>1, <2>2
<1>9. EveryFileHasImage'
  <2> SUFFICES ASSUME NEW path \in files, path \notin leaked,
                      \A i \in ImageIds : ~Named(i, path)
               PROVE  \E q \in Reqs : At(q, "row")' /\ req'[q].path = path
    BY <1>2 DEF EveryFileHasImage, Named
  <2>1. PICK q \in Reqs : At(q, "row") /\ req[q].path = path
    BY DEF IInv, EveryFileHasImage, Named
  <2> QED
    BY <1>1, <1>3, <2>1 DEF At
<1> QED
  BY <1>5, <1>6, <1>7, <1>8, <1>9 DEF IInv

\* Rows go, and their files have gone before or are left behind.
LEMMA RowsGoStep ==
  ASSUME IInv, NEW r \in Reqs, NEW row \in ReqRow, NEW gone \in SUBSET ImageIds,
         req' = [req EXCEPT ![r] = row],
         image' = [i \in ImageIds |-> IF i \in gone THEN None ELSE image[i]],
         UNCHANGED files,
         spoiled' = spoiled \ gone,
         leaked \subseteq leaked', leaked' \subseteq Paths,
         active' \in [Owners -> BOOLEAN \cup {None}],
         \A i \in ImageIds \ gone :
           image[i] # None => active'[image[i].owner] # None,
         req[r].pc # "row",
         StageOK(row), row.pc \notin {"row", "rows", "remove"},
         row.paths \subseteq req[r].paths,
         row.paths # {} => row.ids = req[r].ids,
         At(r, "rows") => req[r].ids \subseteq gone,
         \A i \in gone, path \in files : Named(i, path) => path \in leaked'
  PROVE  IInv'
<1>1. /\ req' \in [Reqs -> ReqRow] /\ req'[r] = row
      /\ \A q \in Reqs \ {r} : req'[q] = req[q]
  BY DEF IInv, TypeOK
<1>2. /\ image' \in [ImageIds -> Image \cup {None}]
      /\ \A i \in ImageIds : image'[i] # None => /\ image'[i] = image[i]
                                                 /\ i \notin gone
      /\ \A i \in ImageIds \ gone : image'[i] = image[i]
      /\ \A path : \A i \in ImageIds : Named(i, path)' => Named(i, path)
  BY DEF IInv, TypeOK, Named
<1>3. TypeOK'
  BY <1>1, <1>2 DEF IInv, TypeOK, Exists
<1>4. NamesUnique'
  BY <1>2 DEF IInv, NamesUnique
<1>5. ASSUME NEW q \in Reqs
      PROVE  StageOK(req[q])' /\ StoredOK(q)' /\ DeletedOK(q)'
  <2>1. StageOK(req[q]) /\ StoredOK(q) /\ DeletedOK(q)
    BY DEF IInv
  <2>2. CASE q = r
    <3>1. StageOK(req[q])'
      BY <1>1, <2>2 DEF StageOK, UploadStage, DeleteStage, RemoveStage,
                        SwitchStage
    <3>2. StoredOK(q)'
      BY <1>1, <2>2 DEF StoredOK, At
    <3>3. DeletedOK(q)'
      BY <1>1, <1>2, <2>1, <2>2 DEF DeletedOK
    <3> QED
      BY <3>1, <3>2, <3>3
  <2>3. CASE q # r
    <3>1. StageOK(req[q])'
      BY <1>1, <2>1, <2>3 DEF StageOK, UploadStage, DeleteStage, RemoveStage,
                              SwitchStage
    <3>2. /\ \A x \in Reqs : req'[x].paths \subseteq req[x].paths
          /\ \A x \in Reqs : At(x, "row")' => x # r
      BY <1>1 DEF At
    <3>3. StoredOK(q)'
      BY <1>1, <1>2, <2>1, <2>3, <3>2 DEF StoredOK, At
    <3>4. req[q].ids \subseteq ImageIds
      BY StageOf DEF ReqRow
    <3>5. DeletedOK(q)'
      BY <1>1, <1>2, <2>1, <2>3, <3>4 DEF DeletedOK
    <3> QED
      BY <3>1, <3>3, <3>5
  <2> QED
    BY <2>2, <2>3
<1>6. EveryImageHasFile'
  <2> SUFFICES ASSUME NEW i \in ImageIds \ spoiled', image'[i] # None,
                      image'[i].path \notin files
               PROVE  \E q \in Reqs : At(q, "rows")' /\ i \in req'[q].ids
    BY DEF EveryImageHasFile
  <2>1. /\ i \notin gone /\ image[i] # None /\ image[i].path \notin files
        /\ i \notin spoiled
    BY <1>2
  <2>2. PICK q \in Reqs : At(q, "rows") /\ i \in req[q].ids
    BY <2>1 DEF IInv, EveryImageHasFile
  <2>3. q # r
    BY <2>1, <2>2
  <2> QED
    BY <1>1, <2>2, <2>3 DEF At
<1>7. EveryFileHasImage'
  <2> SUFFICES ASSUME NEW path \in files, path \notin leaked',
                      \A i \in ImageIds : ~Named(i, path)'
               PROVE  \E q \in Reqs : At(q, "row")' /\ req'[q].path = path
    BY DEF EveryFileHasImage, Named
  <2>1. \A i \in ImageIds : ~Named(i, path)
    BY <1>2 DEF Named
  <2>2. PICK q \in Reqs : At(q, "row") /\ req[q].path = path
    BY <2>1 DEF IInv, EveryFileHasImage, Named
  <2> QED
    BY <1>1, <2>2 DEF At
<1> QED
  BY <1>3, <1>4, <1>5, <1>6, <1>7 DEF IInv

\* The rows of a deletion go: their files are gone.
LEMMA DeleteRowsStep ==
  ASSUME IInv, NEW r \in Reqs, DeleteRows(r)
  PROVE  IInv'
<1> DEFINE row == req'[r]
<1>1. /\ At(r, "rows") /\ DeleteStage(req[r])
      /\ req[r] \in ReqRow /\ DeletedOK(r)
  BY StageOf DEF DeleteRows, At, IInv
<1>2. /\ row \in ReqRow /\ req' = [req EXCEPT ![r] = row]
      /\ StageOK(row) /\ row.pc \notin {"row", "rows", "remove"}
      /\ row.paths \subseteq req[r].paths
      /\ row.paths # {} => row.ids = req[r].ids
  <2>1. CASE req[r].kind = "delete"
    <3>1. req' = [req EXCEPT ![r] = Idle] /\ row = Idle
      BY <2>1 DEF DeleteRows, Done, IInv, TypeOK
    <3> HIDE DEF row
    <3> QED
      BY <3>1, IdleType DEF StageOK
  <2>2. CASE req[r].kind # "delete"
    <3>1. Goto(r, "owner")
      BY <2>2 DEF DeleteRows
    <3>2. /\ row \in ReqRow /\ req' = [req EXCEPT ![r] = row]
          /\ row.pc = "owner" /\ row.kind = req[r].kind
          /\ row.owner = req[r].owner /\ row.ids = req[r].ids
          /\ row.paths = req[r].paths
      BY <3>1, GotoMoves
    <3> HIDE DEF row
    <3>3. StageOK(row)
      BY <1>1, <2>2, <3>2 DEF StageOK, RemoveStage, DeleteStage
    <3> QED
      BY <3>2, <3>3
  <2> QED
    BY <2>1, <2>2
<1> HIDE DEF row
<1>3. req[r].ids \in SUBSET ImageIds
  BY <1>1 DEF ReqRow
<1>4. \A i \in req[r].ids, path \in files : ~Named(i, path)
  BY <1>1 DEF DeletedOK, Named, At
<1>5. /\ image' = [i \in ImageIds |-> IF i \in req[r].ids THEN None
                                      ELSE image[i]]
      /\ spoiled' = spoiled \ req[r].ids
      /\ UNCHANGED <<active, files, leaked>>
  BY DEF DeleteRows
<1>6. /\ leaked \subseteq Paths
      /\ active \in [Owners -> BOOLEAN \cup {None}]
      /\ \A i \in ImageIds : image[i] # None => active[image[i].owner] # None
  BY DEF IInv, TypeOK, Exists
<1> QED
  BY <1>1, <1>2, <1>3, <1>4, <1>5, <1>6, RowsGoStep DEF At

\* An owner goes, and by cascade the rows of its images.
LEMMA DropOwnerStep ==
  ASSUME IInv, NEW r \in Reqs, DropOwner(r)
  PROVE  IInv'
<1> DEFINE o    == req[r].owner
           gone == ImagesOf(o)
<1>1. At(r, "owner") /\ RemoveStage(req[r])
  BY StageOf DEF DropOwner, At
<1>2. CASE Throw(r)
  BY <1>2, ThrowStep
<1>3. CASE ~Throw(r)
  <2>1. /\ active' = [active EXCEPT ![o] = None]
        /\ image' = [i \in ImageIds |-> IF i \in gone THEN None ELSE image[i]]
        /\ leaked' = leaked \cup (PathsOf(gone) \cap files)
        /\ spoiled' = spoiled \ gone
        /\ req' = [req EXCEPT ![r] = Idle]
        /\ UNCHANGED files
    BY <1>1, <1>3 DEF DropOwner, Done
  <2>2. /\ gone \in SUBSET ImageIds
        /\ \A i \in ImageIds \ gone : image[i] # None => image[i].owner # o
    BY DEF ImagesOf
  <2>3. \A i \in gone, path \in files : Named(i, path) => path \in leaked'
    BY <2>1, <2>2 DEF PathsOf, Named
  <2> HIDE DEF gone
  <2>4. leaked \subseteq leaked' /\ leaked' \subseteq Paths
    BY <2>1 DEF IInv, TypeOK
  <2>5. active' \in [Owners -> BOOLEAN \cup {None}]
    BY <2>1 DEF IInv, TypeOK
  <2>6. \A i \in ImageIds \ gone :
          image[i] # None => active'[image[i].owner] # None
    <3>1. \A i \in ImageIds :
            image[i] # None => /\ image[i].owner \in Owners
                               /\ active[image[i].owner] # None
      BY DEF IInv, TypeOK, Image, Exists
    <3> QED
      BY <2>1, <2>2, <3>1 DEF IInv, TypeOK
  <2>7. StageOK(Idle)
    BY DEF StageOK
  <2> QED
    BY <1>1, <2>1, <2>2, <2>3, <2>4, <2>5, <2>6, <2>7, IdleType, RowsGoStep
       DEF At
<1> QED
  BY <1>2, <1>3

-----------------------------------------------------------------------------
\* Every step of the handlers preserves the invariant.
LEMMA NextInvariant ==
  ASSUME IInv, [Next]_vars
  PROVE  IInv'
<1>1. ASSUME NEW o \in Owners, CreateOwner(o)
      PROVE  IInv'
  BY <1>1, CreateOwnerStep
<1>2. ASSUME NEW r \in Reqs, NEW o \in Owners, NEW path \in Paths,
             StartUpload(r, o, path)
      PROVE  IInv'
  BY <1>2, StartUploadStep
<1>3. ASSUME NEW r \in Reqs,
             \/ \E ids \in SUBSET ImageIds : StartDelete(r, ids)
             \/ \E o \in Owners : StartRemove(r, o)
             \/ \E o \in Switched : StartToggle(r, o)
      PROVE  IInv'
  BY <1>3, StartOthersStep
<1>4. ASSUME NEW r \in Reqs, Step(r)
      PROVE  IInv'
  <2>1. CASE UploadImages(r)
    BY <2>1, CheckItemStep, StoreFileStep, CreateRowStep DEF UploadImages
  <2>2. CASE DeleteImages(r)
    BY <2>2, FindImagesStep, RemoveFilesStep, DeleteRowsStep DEF DeleteImages
  <2>3. CASE RemoveOwner(r)
    BY <2>3, ReadImagesStep, DropOwnerStep DEF RemoveOwner
  <2>4. CASE ToggleStatus(r)
    BY <2>4, ReadSwitchStep, WriteSwitchStep DEF ToggleStatus
  <2> QED
    BY <1>4, <2>1, <2>2, <2>3, <2>4 DEF Step
<1>5. ASSUME NEW r \in Reqs, Die(r)
      PROVE  IInv'
  BY <1>5, ThrowStep DEF Die
<1>6. CASE UNCHANGED vars
  BY <1>6 DEF IInv, TypeOK, Exists, NamesUnique, Named, StageOK, UploadStage,
              DeleteStage, RemoveStage, SwitchStage, StoredOK, DeletedOK, At,
              EveryImageHasFile, EveryFileHasImage, vars
<1> QED
  BY <1>1, <1>2, <1>3, <1>4, <1>5, <1>6 DEF Next

-----------------------------------------------------------------------------
\* The inductive invariant holds in every state the program reaches.
THEOREM ImagesInvariant == Spec => []IInv
<1>1. Init => IInv
  BY InitInvariant
<1>2. IInv /\ [Next]_vars => IInv'
  BY NextInvariant
<1> QED
  BY <1>1, <1>2, PTL DEF Spec

\* Rows and requests have their types, and an image never outlives its owner:
\* the cascade of the schema takes the rows that deleteImages has not seen.
THEOREM ImagesTypeCorrect == Spec => []TypeOK
<1>1. IInv => TypeOK
  BY DEF IInv
<1> QED
  BY <1>1, ImagesInvariant, PTL

\* An image that is shown has its file, whatever uploads, deletions and
\* removals go on at once, unless a deletion of it is under way or broke off.
THEOREM ShownImagesLoad == Spec => []EveryImageHasFile
<1>1. IInv => EveryImageHasFile
  BY DEF IInv
<1> QED
  BY <1>1, ImagesInvariant, PTL

\* A file in the storage belongs to a row or to an upload that will make one,
\* apart from those that broken uploads and cascades leave behind.
THEOREM FilesBelong == Spec => []EveryFileHasImage
<1>1. IInv => EveryFileHasImage
  BY DEF IInv
<1> QED
  BY <1>1, ImagesInvariant, PTL
=============================================================================
