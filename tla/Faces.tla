------------------------------- MODULE Faces -------------------------------
(***************************************************************************)
(* The face recognition of a detector (FaceRecog): a database of face      *)
(* descriptors and the names that belong to them, two vectors kept in      *)
(* step, extended with every face that is surely known, and saved in two   *)
(* files one after the other, while a key press may end the process with   *)
(* SIGKILL at any time.  A descriptor is a number and a distance that of   *)
(* numbers, in a unit in which distances and thresholds are whole numbers: *)
(* there is one, as all of them are floating-point numbers, and it is much *)
(* finer than the step between two thresholds.  The first entry stands for *)
(* an unknown face and is never compared.                                  *)
(***************************************************************************)
EXTENDS Integers, Sequences, SequencesExt, FiniteSetsExt

CONSTANTS
  Enrolled,      \* the database as delivered: descriptors, with their owner
  Frames,        \* what the detector may find in a frame: sequences of faces
  ThresholdMax, ThresholdStep, ThresholdInsert,  \* _face_threshold_max, _step, _insert
  Repeat,        \* frames without a change after which the count is forgotten (10)
  MaxDatabase    \* bound: names in the database

\* Everybody who has a descriptor.
People == {Enrolled[i].of : i \in DOMAIN Enrolled}

ASSUME FacesAssumption ==
  /\ ThresholdMax \in Nat /\ ThresholdStep \in Nat \ {0} /\ ThresholdInsert \in Nat
  /\ Repeat \in Nat \ {0}
  /\ MaxDatabase \in Nat /\ Len(Enrolled) \in 1..MaxDatabase
  /\ Enrolled \in Seq([at : Int, of : People])
  /\ Frames \subseteq Seq([square : BOOLEAN, class : BOOLEAN, at : Int])

VARIABLES
  running,    \* the process runs: TRUE, FALSE, or it found a file cut off
  names, database,         \* _faces_name, _faces_database
  rects,      \* what is left to look at of a frame
  found, update,           \* rects.size() in the end, and update_faces_database
  looking,    \* findFaces runs
  files,                   \* the two files; << >> is one that is cut off
  nb_faces, count_nofaces,
  announced,  \* history: the messages of the last frame
  last,       \* history: the faces in the frame before
  quiet,      \* history: frames since the last message
  torn        \* history: the process was killed between the two files

frameVars    == <<rects, found, update, looking>>
announceVars == <<nb_faces, count_nofaces, announced, last, quiet>>
vars == <<running, names, database, frameVars, files, announceVars, torn>>

Owners(db) == [i \in DOMAIN db |-> db[i].of]

Init ==
  /\ running = TRUE
  /\ database = Enrolled /\ names = Owners(Enrolled)
  /\ rects = << >> /\ found = 0 /\ update = FALSE /\ looking = FALSE
  /\ files = [names |-> names, database |-> database]
  /\ nb_faces = 0 /\ count_nofaces = 0
  /\ announced = 0 /\ last = 0 /\ quiet = Repeat
  /\ torn = FALSE

-----------------------------------------------------------------------------
(* Recognition.                                                            *)

Distance(a, b) == IF a < b THEN b - a ELSE a - b

\* What the loop of findFaces compares distances with, from 0 on.
Thresholds == {t \in 0..ThresholdMax - 1 : t % ThresholdStep = 0}

\* Mutant: the loops are swapped, every entry is compared with all thresholds
\* before the next one is looked at.
FindFaceEntryByEntry(db, at) ==
  LET Reaching(i) == {t \in Thresholds : Distance(db[i].at, at) <= t}
      near == {i \in 2..Len(db) : Reaching(i) # {}}
  IN  IF near = {} THEN [id |-> 1, threshold |-> ThresholdMax]
      ELSE [id |-> Min(near), threshold |-> Min(Reaching(Min(near)))]

\* findFaces of a descriptor: the first entry, in the order of the vector, within
\* the least threshold that any entry is within.  With none the threshold has
\* run past the last one, of which all that matters is that it is too large.
FindFace(db, at) ==
  LET Near(t) == {i \in 2..Len(db) : Distance(db[i].at, at) <= t}
      reached == {t \in Thresholds : Near(t) # {}}
  IN  IF reached = {} THEN [id |-> 1, threshold |-> ThresholdMax]
      ELSE [id |-> Min(Near(Min(reached))), threshold |-> Min(reached)]

\* findFaces is given a frame in which the detector has found something.
TakeFrame == \E frame \in Frames :
  /\ running /\ ~looking
  /\ Len(names) + Len(frame) <= MaxDatabase
  /\ looking' = TRUE
  /\ rects' = frame /\ found' = 0 /\ update' = FALSE
  /\ UNCHANGED <<running, names, database, files, announceVars, torn>>

\* A face that is much longer than wide, or of another class, is left out.
SkipFace ==
  /\ running /\ rects # << >>
  /\ ~Head(rects).square \/ ~Head(rects).class
  /\ rects' = Tail(rects)
  /\ UNCHANGED <<running, names, database, found, update, looking, files, announceVars, torn>>

Known(f) == f.threshold < ThresholdInsert /\ f.id > 1

\* Another is named, and put in front of the entry it is close to.
NameFace ==
  /\ running /\ rects # << >>
  /\ Head(rects).square /\ Head(rects).class
  /\ rects' = Tail(rects) /\ found' = found + 1
  /\ LET at == Head(rects).at
         f  == FindFace(database, at)
     IN  IF Known(f)
         THEN /\ database' = InsertAt(database, f.id, [at |-> at, of |-> database[f.id].of])
              /\ names' = InsertAt(names, f.id, names[f.id])
              /\ update' = TRUE
         ELSE UNCHANGED <<names, database, update>>
  /\ UNCHANGED <<running, looking, files, announceVars, torn>>

\* Mutant: the database is written first.
DatabaseFirst ==
  {[names |-> files.names, database |-> << >>],
   [names |-> files.names, database |-> database],
   [names |-> << >>, database |-> database]}

\* The two serialize calls, each of which truncates its file first: what a kill
\* may leave behind.
KilledWhileSaving ==
  {[names |-> << >>, database |-> files.database],
   [names |-> names, database |-> files.database],
   [names |-> names, database |-> << >>]}

-----------------------------------------------------------------------------
(* The announcements of a frame with n faces.                              *)

\* Mutant: a new number of faces does not start the count again.
AnnounceKeepCount(n) ==
  /\ announced' = IF nb_faces # n THEN n ELSE 0
  /\ nb_faces' = IF nb_faces # n THEN n ELSE IF count_nofaces + 1 >= Repeat THEN 0 ELSE nb_faces
  /\ count_nofaces' =
       IF nb_faces # n THEN count_nofaces ELSE (count_nofaces + 1) % Repeat
  /\ quiet' = IF announced' > 0 THEN 0 ELSE Min({quiet + 1, Repeat})
  /\ last' = n

Announce(n) ==
  /\ announced' = IF nb_faces # n THEN n ELSE 0
  /\ nb_faces' = IF nb_faces # n THEN n ELSE IF count_nofaces + 1 >= Repeat THEN 0 ELSE nb_faces
  /\ count_nofaces' =
       IF nb_faces # n THEN 0 ELSE (count_nofaces + 1) % Repeat
  /\ quiet' = IF announced' > 0 THEN 0 ELSE Min({quiet + 1, Repeat})
  /\ last' = n

\* The end of findFaces: the files are written, the faces announced.
EndFrame ==
  /\ running /\ looking /\ rects = << >>
  /\ files' = IF update THEN [names |-> names, database |-> database] ELSE files
  /\ Announce(found)
  /\ looking' = FALSE
  /\ UNCHANGED <<running, names, database, rects, found, update, torn>>

\* SIGKILL while findFaces saves, or at any other time.
KillWhileSaving ==
  /\ running /\ looking /\ rects = << >> /\ update
  /\ files' \in KilledWhileSaving
  /\ running' = FALSE /\ torn' = TRUE
  /\ UNCHANGED <<names, database, frameVars, announceVars>>

Kill ==
  /\ running /\ running' = FALSE
  /\ UNCHANGED <<names, database, frameVars, files, announceVars, torn>>

\* The constructor.  A file that is cut off makes deserialize throw, and the
\* process ends before it has started.
Start ==
  /\ ~running /\ files.names # << >> /\ files.database # << >>
  /\ running' = TRUE
  /\ names' = files.names /\ database' = files.database
  /\ rects' = << >> /\ found' = 0 /\ update' = FALSE /\ looking' = FALSE
  /\ nb_faces' = 0 /\ count_nofaces' = 0
  /\ announced' = 0 /\ last' = 0 /\ quiet' = Repeat
  /\ UNCHANGED <<files, torn>>

Next ==
  \/ TakeFrame \/ SkipFace \/ NameFace \/ EndFrame
  \/ KillWhileSaving \/ Kill \/ Start

Spec == Init /\ [][Next]_vars

-----------------------------------------------------------------------------
(* Properties.                                                             *)

\* A name is the owner's of the descriptor at its position, in the vectors and
\* in the files, unless the process was once killed while it saved.  Even then
\* there is a name for every descriptor, because the names are saved first: a
\* process that starts never reads behind the end of _faces_name (findFaces).
\* Between two frames the files hold what the vectors do.
NamesFitDatabase ==
  /\ running => Len(names) >= Len(database)
  /\ running /\ ~looking => files = [names |-> names, database |-> database]
  /\ ~torn => names = Owners(database) /\ files.names = Owners(files.database)

\* However the database has grown, a face is unknown when every entry is beyond
\* all thresholds, and else it is named by an entry that is within one of them,
\* nearer than all entries in front of it, and less than a step farther than the
\* nearest (the two loops of findFaces).  Within a step the first entry wins,
\* whoever owns it: the name need not be that of the nearest.
NamedWithinAStep ==
  \A f \in Frames : \A i \in DOMAIN f :
    LET id   == FindFace(database, f[i].at).id
        D(k) == Distance(database[k].at, f[i].at)
    IN  IF id = 1 THEN \A k \in 2..Len(database) : \A t \in Thresholds : D(k) > t
        ELSE /\ \E t \in Thresholds : D(id) <= t
             /\ \A k \in 2..Len(database) :
                  D(id) < D(k) + IF k < id THEN 0 ELSE ThresholdStep

\* So a face gets the name of somebody with an entry about as near to it as any,
\* also after the process was killed and started again.
FacesAreNamed == NamesFitDatabase /\ NamedWithinAStep

\* The faces of a frame are announced only when their number is not that of
\* the frame before, or Repeat frames have passed without an announcement: the
\* count is forgotten only after Repeat frames that changed nothing, however
\* often it changed before (_nb_faces and _count_nofaces in findFaces).
AnnouncementsAreRare ==
  [][EndFrame /\ announced' > 0 => last' # last \/ quiet >= Repeat]_vars
=============================================================================
