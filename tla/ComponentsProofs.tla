-------------------------- MODULE ComponentsProofs --------------------------
(***************************************************************************)
(* Proofs about Components: the face database, for every database, every   *)
(* set of frames and all thresholds, and the algorithms, for inputs of     *)
(* every size.                                                             *)
(***************************************************************************)
EXTENDS Components, SequenceTheorems, WellFoundedInduction, TLAPS

-----------------------------------------------------------------------------
(* The inductive invariant.                                                *)

Entries == [at : Int, of : People]
Boxes   == [square : BOOLEAN, class : BOOLEAN, at : Int]

\* Every variable has its type.
FacesTypeOK ==
  /\ running \in BOOLEAN /\ torn \in BOOLEAN /\ looking \in BOOLEAN /\ update \in BOOLEAN
  /\ names \in Seq(People) /\ database \in Seq(Entries)
  /\ files \in [names : Seq(People), database : Seq(Entries)]
  /\ rects \in Seq(Boxes) /\ found \in Nat
  /\ nb_faces \in Nat /\ last \in Nat /\ announced \in Nat
  /\ count_nofaces \in 0..Repeat - 1 /\ quiet \in 0..Repeat

\* The names file is written first: unless it is cut off it has a name for every
\* descriptor of the other file, which holds no more than the process does.
LengthInv ==
  /\ running => /\ Len(names) >= Len(database)
                /\ Len(files.database) <= Len(database)
  /\ files.names # << >> => Len(files.names) >= Len(files.database)

\* What is not on disk was found in the frame that is being looked at.
SavedInv ==
  /\ rects # << >> => looking
  /\ running /\ ~(looking /\ update) => files = [names |-> names, database |-> database]

OwnersInv == ~torn => names = Owners(database) /\ files.names = Owners(files.database)

\* The count has been forgotten only after Repeat frames without an announcement.
CountInv ==
  /\ nb_faces # last => nb_faces = 0 /\ quiet >= Repeat
  /\ count_nofaces <= quiet

IInv == FacesTypeOK /\ LengthInv /\ SavedInv /\ OwnersInv /\ CountInv

-----------------------------------------------------------------------------
(* Lemmas about the operators.                                             *)

\* A set of natural numbers has a least element.
LEMMA LeastIs ==
  ASSUME NEW T, T \subseteq Nat, T # {}
  PROVE  Min(T) \in T /\ \A y \in T : Min(T) <= y
<1> DEFINE R == OpToRel(<, Nat)
<1>1. \E x \in T : \A y \in T : <<y, x>> \notin R
  <2>1. IsWellFoundedOn(R, Nat)
    BY NatLessThanWellFounded
  <2> HIDE DEF R
  <2> QED
    BY <2>1, WFMin
<1>2. \A x, y \in Nat : <<y, x>> \notin R => x <= y
  BY DEF OpToRel
<1> HIDE DEF R
<1>3. \E x \in T : \A y \in T : x <= y
  BY <1>1, <1>2
<1> QED
  BY <1>3 DEF Min

\* Division with remainder is unique.
LEMMA DivIs ==
  ASSUME NEW b \in Nat, b > 0, NEW q \in Int, NEW r \in Nat, r < b
  PROVE  (q * b + r) % b = r /\ (q * b + r) \div b = q
<1> DEFINE a == q * b + r
           p == a \div b
           s == a % b
<1>1. a \in Int
  OBVIOUS
<1> HIDE DEF a
<1>2. p \in Int /\ s \in Int /\ a = b * p + s /\ 0 <= s /\ s < b
  BY <1>1
<1> HIDE DEF p, s
<1>3. p = q
  <2>1. q * b + r = b * p + s
    BY <1>2 DEF a
  <2>2. (q - p) * b = s - r
    BY <1>2, <2>1
  <2>3. CASE q - p >= 1
    <3>1. (q - p) * b >= b
      BY <1>2, <2>3
    <3> QED
      BY <1>2, <2>2, <3>1
  <2>4. CASE q - p <= -1
    <3>1. (q - p) * b <= -b
      BY <1>2, <2>4
    <3> QED
      BY <1>2, <2>2, <3>1
  <2> QED
    BY <1>2, <2>3, <2>4
<1>4. s = r
  BY <1>2, <1>3 DEF a
<1> QED
  BY <1>3, <1>4 DEF a, p, s

\* The loop over thresholds passes every number at most a step later.
LEMMA ThresholdAbove ==
  ASSUME NEW d \in Nat
  PROVE  \E t \in Nat : t % ThresholdStep = 0 /\ d <= t /\ t < d + ThresholdStep
<1> DEFINE w == ThresholdStep
           a == d + w - 1
           q == a \div w
           r == a % w
           t == q * w
<1>1. w \in Nat /\ w > 0 /\ a \in Nat
  BY FacesAssumption
<1> HIDE DEF w, a
<1>2. q \in Int /\ r \in Int /\ a = w * q + r /\ 0 <= r /\ r < w
  BY <1>1
<1> HIDE DEF q, r
<1>3. (q * w + 0) % w = 0
  BY <1>1, <1>2, DivIs
<1>4. t \in Int /\ t + 0 = t /\ a = t + r
  BY <1>1, <1>2
<1>5. t % w = 0
  BY <1>3, <1>4
<1> HIDE DEF t
<1>6. t \in Nat /\ d <= t /\ t < d + w
  BY <1>1, <1>2, <1>4 DEF a
<1> QED
  BY <1>5, <1>6 DEF w

\* The loop over thresholds stops at the least one that any entry is within, and
\* there at the first entry: one in front of it is farther than that threshold,
\* and one nearer by a step would have been found a threshold earlier.
LEMMA FindIs ==
  ASSUME NEW db \in Seq(Entries), NEW at \in Int
  PROVE  LET id   == FindFace(db, at).id
             D(k) == Distance(db[k].at, at)
         IN  /\ id = 1 \/ id \in 2..Len(db)
             /\ IF id = 1 THEN \A k \in 2..Len(db) : \A t \in Thresholds : D(k) > t
                ELSE /\ \E t \in Thresholds : D(id) <= t
                     /\ \A k \in 2..Len(db) :
                          D(id) < D(k) + IF k < id THEN 0 ELSE ThresholdStep
<1> DEFINE D(k) == Distance(db[k].at, at)
           Near(t) == {i \in 2..Len(db) : D(i) <= t}
           reached == {t \in Thresholds : Near(t) # {}}
           id == FindFace(db, at).id
<1>0. /\ Len(db) \in Nat /\ ThresholdMax \in Nat /\ ThresholdStep \in Nat
      /\ ThresholdStep > 0 /\ \A i \in 2..Len(db) : D(i) \in Nat
  <2>1. /\ Len(db) \in Nat /\ ThresholdMax \in Nat
        /\ ThresholdStep \in Nat /\ ThresholdStep > 0
    BY FacesAssumption, LenProperties
  <2>2. ASSUME NEW i \in 1..Len(db)
        PROVE  db[i].at \in Int
    <3>1. db[i] \in Entries
      BY ElementOfSeq
    <3> QED
      BY <3>1 DEF Entries
  <2>3. \A a \in Int : Distance(a, at) \in Nat
    BY DEF Distance
  <2>4. \A i \in 2..Len(db) : i \in 1..Len(db)
    BY <2>1
  <2> QED
    BY <2>1, <2>2, <2>3, <2>4
<1>1. id = IF reached = {} THEN 1 ELSE Min(Near(Min(reached)))
  BY DEF FindFace
<1>2. \A t \in Thresholds : t \in Nat /\ t < ThresholdMax
  BY <1>0 DEF Thresholds
<1> HIDE DEF D, id
<1>3. CASE reached = {}
  <2>1. id = 1
    BY <1>1, <1>3
  <2>2. ASSUME NEW k \in 2..Len(db), NEW t \in Thresholds
        PROVE  D(k) > t
    <3>1. ~(D(k) <= t)
      BY <1>3
    <3> QED
      BY <1>0, <1>2, <3>1
  <2> QED
    BY <2>1, <2>2 DEF D, id
<1>4. CASE reached # {}
  <2> DEFINE t == Min(reached)
             n == Min(Near(t))
  <2>1. reached \subseteq Nat
    BY <1>2
  <2>2. t \in reached /\ \A y \in reached : t <= y
    <3> HIDE DEF reached
    <3> QED
      BY <1>4, <2>1, LeastIs
  <2>3. t \in Thresholds /\ Near(t) # {}
    BY <2>2
  <2>4. n \in Near(t) /\ \A y \in Near(t) : n <= y
    <3>1. Near(t) \subseteq Nat
      BY <1>0
    <3> HIDE DEF Near, t
    <3> QED
      BY <2>3, <3>1, LeastIs
  <2>5. id = n
    BY <1>1, <1>4
  <2> HIDE DEF n, t
  <2>6. n \in 2..Len(db) /\ D(n) <= t /\ n # 1
    BY <1>0, <2>4
  <2>7. ASSUME NEW k \in 2..Len(db), k < n
        PROVE  D(n) < D(k)
    <3>1. ~(D(k) <= t)
      BY <1>0, <2>4, <2>6, <2>7
    <3> QED
      BY <1>0, <1>2, <2>3, <2>6, <3>1
  <2>8. ASSUME NEW k \in 2..Len(db)
        PROVE  D(n) < D(k) + ThresholdStep
    <3>1. PICK u \in Nat : u % ThresholdStep = 0 /\ D(k) <= u /\ u < D(k) + ThresholdStep
      BY <1>0, ThresholdAbove
    <3>2. t <= u
      <4>1. CASE u < ThresholdMax
        <5>1. u \in Thresholds
          BY <1>0, <3>1, <4>1 DEF Thresholds
        <5>2. u \in reached
          BY <3>1, <5>1
        <5> QED
          BY <2>2, <5>2
      <4>2. CASE u >= ThresholdMax
        BY <1>0, <1>2, <2>3, <4>2
      <4> QED
        BY <1>0, <4>1, <4>2
    <3> QED
      BY <1>0, <1>2, <2>3, <2>6, <3>1, <3>2
  <2>9. \A k \in 2..Len(db) : D(n) < D(k) + IF k < n THEN 0 ELSE ThresholdStep
    BY <1>0, <2>6, <2>7, <2>8
  <2> QED
    BY <2>3, <2>5, <2>6, <2>9 DEF D, id
<1> QED
  BY <1>3, <1>4

\* insert: the elements behind move up by one place.
LEMMA InsertIs ==
  ASSUME NEW S, NEW s \in Seq(S), NEW k \in 1..Len(s), NEW e \in S
  PROVE  /\ InsertAt(s, k, e) \in Seq(S) /\ Len(InsertAt(s, k, e)) = Len(s) + 1
         /\ \A i \in 1..Len(s) + 1 :
              InsertAt(s, k, e)[i] = IF i < k THEN s[i] ELSE IF i = k THEN e ELSE s[i - 1]
<1> DEFINE a == SubSeq(s, 1, k - 1)
           b == SubSeq(s, k, Len(s))
           w == a \o <<e>>
<1>0. Len(s) \in Nat /\ k \in Nat /\ k >= 1 /\ k <= Len(s)
        /\ \A i \in 1..Len(s) : s[i] \in S
  BY LenProperties, ElementOfSeq
<1>1. /\ a \in Seq(S) /\ Len(a) = k - 1
      /\ \A i \in 1..k - 1 : a[i] = s[i]
  <2>1. \A i \in 1..k - 1 : s[i] \in S
    BY <1>0
  <2>2. /\ a \in Seq(S) /\ Len(a) = IF 1 <= k - 1 THEN (k - 1) - 1 + 1 ELSE 0
        /\ \A i \in 1..(k - 1) - 1 + 1 : a[i] = s[1 + i - 1]
    BY <1>0, <2>1, SubSeqProperties
  <2>3. Len(a) = k - 1 /\ (k - 1) - 1 + 1 = k - 1 /\ \A i \in 1..k - 1 : 1 + i - 1 = i
    BY <1>0, <2>2
  <2> HIDE DEF a
  <2> QED
    BY <2>2, <2>3
<1>2. /\ b \in Seq(S) /\ Len(b) = Len(s) - k + 1
      /\ \A i \in 1..Len(s) - k + 1 : b[i] = s[k + i - 1]
  <2>1. \A i \in k..Len(s) : s[i] \in S
    BY <1>0
  <2>2. /\ b \in Seq(S) /\ Len(b) = IF k <= Len(s) THEN Len(s) - k + 1 ELSE 0
        /\ \A i \in 1..Len(s) - k + 1 : b[i] = s[k + i - 1]
    BY <1>0, <2>1, SubSeqProperties
  <2> QED
    BY <1>0, <2>2
<1> HIDE DEF a, b
<1>3. /\ w \in Seq(S) /\ Len(w) = k
      /\ \A i \in 1..k - 1 : w[i] = s[i]
      /\ w[k] = e
  <2>1. <<e>> \in Seq(S) /\ Len(<<e>>) = 1 /\ <<e>>[1] = e
    OBVIOUS
  <2>2. /\ w \in Seq(S) /\ Len(w) = Len(a) + 1
        /\ \A i \in 1..Len(a) + 1 : w[i] = IF i <= Len(a) THEN a[i] ELSE <<e>>[i - Len(a)]
    BY <1>1, <2>1, ConcatProperties
  <2>3. Len(w) = k /\ k \in 1..Len(a) + 1 /\ ~(k <= Len(a)) /\ k - Len(a) = 1
    BY <1>0, <1>1, <2>2
  <2>4. \A i \in 1..k - 1 : i \in 1..Len(a) + 1 /\ i <= Len(a)
    BY <1>0, <1>1
  <2> HIDE DEF w
  <2> QED
    BY <1>1, <2>1, <2>2, <2>3, <2>4
<1> HIDE DEF w
<1>4. InsertAt(s, k, e) = w \o b
  BY DEF InsertAt, a, b, w
<1>5. /\ w \o b \in Seq(S) /\ Len(w \o b) = Len(w) + Len(b)
      /\ \A i \in 1..Len(w) + Len(b) : (w \o b)[i] =
           IF i <= Len(w) THEN w[i] ELSE b[i - Len(w)]
  BY <1>2, <1>3, ConcatProperties
<1>6. Len(w) + Len(b) = Len(s) + 1
  BY <1>0, <1>2, <1>3
<1>7. ASSUME NEW i \in 1..Len(s) + 1
      PROVE  (w \o b)[i] = IF i < k THEN s[i] ELSE IF i = k THEN e ELSE s[i - 1]
  <2>1. (w \o b)[i] = IF i <= k THEN w[i] ELSE b[i - k]
    BY <1>3, <1>5, <1>6
  <2>2. CASE i < k
    BY <1>0, <1>3, <2>1, <2>2
  <2>3. CASE i = k
    BY <1>0, <1>3, <2>1, <2>3
  <2>4. CASE i > k
    <3>1. i - k \in 1..Len(s) - k + 1 /\ k + (i - k) - 1 = i - 1
      BY <1>0, <2>4
    <3>2. (w \o b)[i] = s[i - 1]
      BY <1>0, <1>2, <2>1, <2>4, <3>1
    <3>3. ~(i < k) /\ i # k
      BY <1>0, <2>4
    <3> QED
      BY <3>2, <3>3, Zenon
  <2>5. i < k \/ i = k \/ i > k
    BY <1>0
  <2> QED
    BY <2>2, <2>3, <2>4, <2>5, Zenon
<1> QED
  BY <1>4, <1>5, <1>6, <1>7

\* The names are the owners' when they are, place by place.
LEMMA OwnersAre ==
  ASSUME NEW db \in Seq(Entries), NEW ns \in Seq(People)
  PROVE  ns = Owners(db) <=> Len(ns) = Len(db) /\ \A i \in 1..Len(db) : ns[i] = db[i].of
<1>1. /\ Len(db) \in Nat /\ DOMAIN db = 1..Len(db)
      /\ Len(ns) \in Nat /\ DOMAIN ns = 1..Len(ns)
      /\ ns = [i \in 1..Len(ns) |-> ns[i]]
  BY LenProperties
<1>2. Owners(db) = [i \in 1..Len(db) |-> db[i].of]
  BY <1>1 DEF Owners
<1>3. ASSUME ns = Owners(db)
      PROVE  Len(ns) = Len(db) /\ \A i \in 1..Len(db) : ns[i] = db[i].of
  <2>1. 1..Len(ns) = 1..Len(db)
    BY <1>1, <1>2, <1>3
  <2>2. \A m, n \in Nat : 1..m = 1..n => m = n
    <3>1. ASSUME NEW m \in Nat, NEW n \in Nat, 1..m = 1..n
          PROVE  m <= n
      <4>1. m = 0 \/ m \in 1..m
        OBVIOUS
      <4> QED
        BY <3>1, <4>1
    <3>2. ASSUME NEW m \in Nat, NEW n \in Nat, 1..m = 1..n
          PROVE  m = n
      <4>1. 1..n = 1..m
        BY <3>2, Zenon
      <4>2. m <= n /\ n <= m
        BY <3>1, <3>2, <4>1, Zenon
      <4> QED
        BY <4>2
    <3> QED
      BY <3>2, Zenon
  <2>3. Len(ns) = Len(db)
    BY <1>1, <2>1, <2>2, Zenon
  <2> QED
    BY <1>2, <1>3, <2>3
<1>4. ASSUME Len(ns) = Len(db), \A i \in 1..Len(db) : ns[i] = db[i].of
      PROVE  ns = Owners(db)
  BY <1>1, <1>2, <1>4
<1> QED
  BY <1>3, <1>4

\* The least of two numbers.
LEMMA MinIs ==
  ASSUME NEW a \in Nat, NEW b \in Nat
  PROVE  Min({a, b}) = IF a <= b THEN a ELSE b
<1> DEFINE T == {a, b}
<1>1. T \subseteq Nat /\ T # {}
  OBVIOUS
<1>2. \A x : x \in T <=> x = a \/ x = b
  OBVIOUS
<1> HIDE DEF T
<1>3. Min(T) \in T /\ \A y \in T : Min(T) <= y
  BY <1>1, LeastIs
<1>4. (Min(T) = a \/ Min(T) = b) /\ Min(T) <= a /\ Min(T) <= b
  BY <1>2, <1>3
<1>5. Min(T) = IF a <= b THEN a ELSE b
  BY <1>4
<1> QED
  BY <1>5 DEF T

-----------------------------------------------------------------------------
(* The invariant is inductive.                                             *)

\* The owners of the database as delivered are its names.
LEMMA InitInv ==
  Init => IInv
<1> SUFFICES ASSUME Init
             PROVE  IInv
  OBVIOUS
<1> USE DEF Init
<1>1. /\ database \in Seq(Entries) /\ database # << >>
      /\ Len(database) \in Nat /\ DOMAIN database = 1..Len(database)
  BY FacesAssumption, LenProperties, EmptySeq DEF Entries
<1>2. names = [i \in 1..Len(database) |-> database[i].of]
  BY <1>1 DEF Owners
<1>3. ASSUME NEW i \in 1..Len(database)
      PROVE  database[i].of \in People
  <2>1. database[i] \in Entries
    BY <1>1, ElementOfSeq
  <2> QED
    BY <2>1 DEF Entries
<1>4. names \in Seq(People) /\ Len(names) = Len(database)
  BY <1>1, <1>2, <1>3
<1>5. FacesTypeOK
  <2>1. files \in [names : Seq(People), database : Seq(Entries)]
    BY <1>1, <1>4
  <2>2. rects \in Seq(Boxes)
    BY EmptySeq
  <2>3. 0 \in 0..Repeat - 1 /\ Repeat \in 0..Repeat
    BY FacesAssumption
  <2> QED
    BY <1>1, <1>4, <2>1, <2>2, <2>3 DEF FacesTypeOK
<1>6. LengthInv /\ SavedInv /\ OwnersInv /\ CountInv
  BY <1>1, <1>4, FacesAssumption DEF LengthInv, SavedInv, OwnersInv, CountInv
<1> QED
  BY <1>5, <1>6 DEF IInv

\* A frame is taken: there is nothing yet that is not on disk.
LEMMA TakeFrameInv ==
  IInv /\ TakeFrame => IInv'
<1> SUFFICES ASSUME IInv, TakeFrame
             PROVE  IInv'
  OBVIOUS
<1>0. /\ running /\ ~looking
      /\ rects' \in Seq(Boxes)
      /\ looking' = TRUE /\ found' = 0 /\ update' = FALSE
      /\ UNCHANGED <<running, names, database, files, torn>>
      /\ UNCHANGED <<nb_faces, count_nofaces, announced, last, quiet>>
  BY FacesAssumption DEF TakeFrame, announceVars, Boxes
<1>1. FacesTypeOK'
  BY <1>0 DEF IInv, FacesTypeOK
<1>2. LengthInv' /\ SavedInv' /\ OwnersInv' /\ CountInv'
  BY <1>0 DEF IInv, LengthInv, SavedInv, OwnersInv, CountInv
<1> QED
  BY <1>1, <1>2 DEF IInv

\* A face is left out.
LEMMA SkipFaceInv ==
  IInv /\ SkipFace => IInv'
<1> SUFFICES ASSUME IInv, SkipFace
             PROVE  IInv'
  OBVIOUS
<1> USE DEF SkipFace, IInv, announceVars
<1>1. FacesTypeOK'
  <2>1. rects' \in Seq(Boxes)
    BY HeadTailProperties DEF FacesTypeOK
  <2> QED
    BY <2>1 DEF FacesTypeOK
<1>2. LengthInv' /\ SavedInv' /\ OwnersInv' /\ CountInv'
  BY DEF LengthInv, SavedInv, OwnersInv, CountInv
<1> QED
  BY <1>1, <1>2

\* A face is named: the descriptor and the name go in at the same place, which
\* both vectors have because there is a name for every descriptor.
LEMMA NameFaceInv ==
  IInv /\ NameFace => IInv'
<1> DEFINE at == Head(rects).at
           f  == FindFace(database, at)
           e  == [at |-> at, of |-> database[f.id].of]
<1> SUFFICES ASSUME IInv, NameFace
             PROVE  IInv'
  OBVIOUS
<1>0. /\ running /\ rects # << >>
      /\ rects' = Tail(rects) /\ found' = found + 1
      /\ IF Known(f)
         THEN /\ database' = InsertAt(database, f.id, e)
              /\ names' = InsertAt(names, f.id, names[f.id])
              /\ update' = TRUE
         ELSE UNCHANGED <<names, database, update>>
      /\ UNCHANGED <<running, looking, files, torn>>
      /\ UNCHANGED <<nb_faces, count_nofaces, announced, last, quiet>>
  BY DEF NameFace, announceVars
<1>1. FacesTypeOK /\ LengthInv /\ SavedInv /\ OwnersInv /\ CountInv
  BY DEF IInv
<1>2. rects' \in Seq(Boxes) /\ at \in Int
  <2>1. rects' \in Seq(Boxes) /\ Head(rects) \in Boxes
    BY <1>0, <1>1, HeadTailProperties DEF FacesTypeOK
  <2> QED
    BY <2>1 DEF Boxes
<1>3. /\ database \in Seq(Entries) /\ names \in Seq(People)
      /\ Len(database) \in Nat /\ Len(names) \in Nat /\ Len(names) >= Len(database)
      /\ Len(files.database) <= Len(database)
  BY <1>0, <1>1, LenProperties DEF FacesTypeOK, LengthInv
<1>4. f.id = 1 \/ f.id \in 2..Len(database)
  BY <1>2, <1>3, FindIs
<1> HIDE DEF f
<1>5. CASE Known(f)
  <2>1. f.id \in 1..Len(database) /\ f.id \in 1..Len(names)
    BY <1>3, <1>4, <1>5 DEF Known
  <2>2. e \in Entries /\ names[f.id] \in People
    <3>1. database[f.id] \in Entries /\ names[f.id] \in People
      BY <1>3, <2>1, ElementOfSeq
    <3> HIDE DEF at
    <3> QED
      BY <1>2, <3>1 DEF Entries
  <2>3. /\ database' = InsertAt(database, f.id, e)
        /\ names' = InsertAt(names, f.id, names[f.id])
        /\ update' = TRUE
    BY <1>0, <1>5
  <2>4. e.of = database[f.id].of
    OBVIOUS
  <2> HIDE DEF e
  <2>5. /\ database' \in Seq(Entries) /\ Len(database') = Len(database) + 1
        /\ \A i \in 1..Len(database) + 1 :
             database'[i] = IF i < f.id THEN database[i]
                            ELSE IF i = f.id THEN e ELSE database[i - 1]
    <3> DEFINE k == f.id
    <3>1. k \in 1..Len(database) /\ database' = InsertAt(database, k, e)
      BY <2>1, <2>3
    <3> HIDE DEF k
    <3>2. /\ InsertAt(database, k, e) \in Seq(Entries)
          /\ Len(InsertAt(database, k, e)) = Len(database) + 1
          /\ \A i \in 1..Len(database) + 1 :
               InsertAt(database, k, e)[i] =
                 IF i < k THEN database[i] ELSE IF i = k THEN e ELSE database[i - 1]
      <4>1. database \in Seq(Entries) /\ k \in 1..Len(database) /\ e \in Entries
        BY <1>3, <2>2, <3>1
      <4> QED
        BY <4>1, InsertIs
    <3> QED
      BY <3>1, <3>2 DEF k
  <2>6. /\ names' \in Seq(People) /\ Len(names') = Len(names) + 1
        /\ \A i \in 1..Len(names) + 1 :
             names'[i] = IF i < f.id THEN names[i]
                         ELSE IF i = f.id THEN names[f.id] ELSE names[i - 1]
    <3> DEFINE k == f.id
               p == names[k]
    <3>1. k \in 1..Len(names) /\ p \in People /\ names' = InsertAt(names, k, p)
      BY <2>1, <2>2, <2>3
    <3> HIDE DEF k, p
    <3>2. /\ InsertAt(names, k, p) \in Seq(People)
          /\ Len(InsertAt(names, k, p)) = Len(names) + 1
          /\ \A i \in 1..Len(names) + 1 :
               InsertAt(names, k, p)[i] =
                 IF i < k THEN names[i] ELSE IF i = k THEN p ELSE names[i - 1]
      <4>1. names \in Seq(People) /\ k \in 1..Len(names) /\ p \in People
        BY <1>3, <3>1
      <4> QED
        BY <4>1, InsertIs
    <3> QED
      BY <3>1, <3>2 DEF k, p
  <2>7. FacesTypeOK'
    BY <1>0, <1>1, <1>2, <2>3, <2>5, <2>6 DEF FacesTypeOK
  <2>8. LengthInv'
    BY <1>0, <1>1, <1>3, <2>5, <2>6, LenProperties DEF LengthInv, FacesTypeOK
  <2>9. SavedInv'
    BY <1>0, <1>1, <2>3 DEF SavedInv, FacesTypeOK
  <2>10. OwnersInv'
    <3>1. ASSUME ~torn
          PROVE  names' = Owners(database')
      <4>1. Len(names) = Len(database)
              /\ \A i \in 1..Len(database) : names[i] = database[i].of
        BY <1>1, <1>3, <3>1, OwnersAre DEF OwnersInv
      <4>2. ASSUME NEW i \in 1..Len(database) + 1
            PROVE  names'[i] = database'[i].of
        <5>1. i \in 1..Len(names) + 1
          BY <4>1
        <5>2. CASE i < f.id
          <6>1. i \in 1..Len(database)
            BY <1>3, <2>1, <5>2
          <6> QED
            BY <2>5, <2>6, <4>1, <5>1, <5>2, <6>1
        <5>3. CASE i = f.id
          <6>1. ~(i < f.id)
            BY <1>3, <2>1, <5>3
          <6> QED
            BY <2>1, <2>4, <2>5, <2>6, <4>1, <5>1, <5>3, <6>1
        <5>4. CASE i > f.id
          <6>1. i - 1 \in 1..Len(database) /\ ~(i < f.id) /\ i # f.id
            BY <1>3, <2>1, <5>4
          <6> QED
            BY <2>5, <2>6, <4>1, <5>1, <6>1
        <5> QED
          BY <1>3, <2>1, <5>2, <5>3, <5>4
      <4>3. Len(names') = Len(database')
              /\ \A i \in 1..Len(database') : names'[i] = database'[i].of
        BY <2>5, <2>6, <4>1, <4>2
      <4> QED
        BY <2>5, <2>6, <4>3, OwnersAre
    <3> QED
      BY <1>0, <1>1, <3>1 DEF OwnersInv
  <2>11. CountInv'
    BY <1>0, <1>1 DEF CountInv
  <2> QED
    BY <2>7, <2>8, <2>9, <2>10, <2>11 DEF IInv
<1>6. CASE ~Known(f)
  <2>1. UNCHANGED <<names, database, update>>
    BY <1>0, <1>6
  <2>2. FacesTypeOK'
    BY <1>0, <1>1, <1>2, <2>1 DEF FacesTypeOK
  <2>3. LengthInv' /\ SavedInv' /\ OwnersInv' /\ CountInv'
    <3>1. looking
      BY <1>0, <1>1 DEF SavedInv
    <3> QED
      BY <1>0, <1>1, <2>1, <3>1 DEF LengthInv, SavedInv, OwnersInv, CountInv
  <2> QED
    BY <2>2, <2>3 DEF IInv
<1> QED
  BY <1>5, <1>6
\* The end of a frame: the files hold what the process does, and the count is
\* forgotten only when it has gone round, Repeat frames after an announcement.
LEMMA EndFrameInv ==
  IInv /\ EndFrame => IInv'
<1> SUFFICES ASSUME IInv, EndFrame
             PROVE  IInv'
  OBVIOUS
<1>0. /\ running /\ looking /\ rects = << >>
      /\ files' = IF update THEN [names |-> names, database |-> database] ELSE files
      /\ Announce(found)
      /\ looking' = FALSE
      /\ UNCHANGED <<running, names, database, rects, found, update, torn>>
  BY DEF EndFrame
<1>1. FacesTypeOK /\ LengthInv /\ SavedInv /\ OwnersInv /\ CountInv
  BY DEF IInv
<1>2. files' = [names |-> names, database |-> database]
  <2>1. CASE update
    BY <1>0, <2>1
  <2>2. CASE ~update
    BY <1>0, <1>1, <2>2 DEF SavedInv
  <2> QED
    BY <2>1, <2>2
<1>3. /\ announced' \in Nat /\ nb_faces' \in Nat /\ last' = found /\ found \in Nat
      /\ count_nofaces' \in 0..Repeat - 1 /\ quiet' \in 0..Repeat
      /\ CountInv'
  <2>0. /\ Repeat \in Nat /\ Repeat >= 1 /\ found \in Nat /\ nb_faces \in Nat
        /\ count_nofaces \in Nat /\ count_nofaces <= Repeat - 1
        /\ quiet \in Nat /\ quiet <= Repeat /\ count_nofaces <= quiet
    BY <1>1, FacesAssumption DEF FacesTypeOK, CountInv
  <2>1. /\ announced' = IF nb_faces # found THEN found ELSE 0
        /\ nb_faces' = IF nb_faces # found THEN found
                       ELSE IF count_nofaces + 1 >= Repeat THEN 0 ELSE nb_faces
        /\ count_nofaces' = IF nb_faces # found THEN 0 ELSE (count_nofaces + 1) % Repeat
        /\ quiet' = IF announced' > 0 THEN 0 ELSE Min({quiet + 1, Repeat})
        /\ last' = found
    BY <1>0 DEF Announce
  <2>2. Min({quiet + 1, Repeat}) = IF quiet + 1 <= Repeat THEN quiet + 1 ELSE Repeat
    BY <2>0, MinIs
  <2>3. (count_nofaces + 1) % Repeat =
          IF count_nofaces + 1 = Repeat THEN 0 ELSE count_nofaces + 1
    <3>1. ASSUME NEW m \in Nat, NEW n \in Nat, n >= 1, m < n
          PROVE  m % n = m
      BY <3>1
    <3>2. ASSUME NEW n \in Nat, n >= 1
          PROVE  n % n = 0
      BY <3>2
    <3> QED
      BY <2>0, <3>1, <3>2
  <2>4. CASE nb_faces # found
    BY <2>0, <2>1, <2>2, <2>4 DEF CountInv
  <2>5. CASE nb_faces = found
    <3>1. announced' = 0 /\ quiet' = IF quiet + 1 <= Repeat THEN quiet + 1 ELSE Repeat
      BY <2>1, <2>2, <2>5
    <3>2. CASE count_nofaces + 1 = Repeat
      <4>1. quiet' = Repeat /\ count_nofaces' = 0 /\ nb_faces' = 0
        BY <2>0, <2>1, <2>3, <2>5, <3>1, <3>2
      <4> QED
        BY <2>0, <2>1, <3>1, <4>1 DEF CountInv
    <3>3. CASE count_nofaces + 1 # Repeat
      <4>1. count_nofaces' = count_nofaces + 1 /\ nb_faces' = last'
        BY <2>0, <2>1, <2>3, <2>5, <3>3
      <4> QED
        BY <2>0, <2>1, <2>5, <3>1, <3>3, <4>1 DEF CountInv
    <3> QED
      BY <3>2, <3>3
  <2> QED
    BY <2>4, <2>5
<1>4. FacesTypeOK'
  <2>1. files' \in [names : Seq(People), database : Seq(Entries)]
    BY <1>1, <1>2 DEF FacesTypeOK
  <2>2. UNCHANGED <<running, names, database, rects, found, update, torn>>
          /\ looking' = FALSE
    BY <1>0
  <2> QED
    BY <1>1, <1>3, <2>1, <2>2 DEF FacesTypeOK
<1>5. LengthInv'
  <2>1. Len(database) \in Nat /\ Len(names) \in Nat
    BY <1>1, LenProperties DEF FacesTypeOK
  <2> QED
    BY <1>0, <1>1, <1>2, <2>1 DEF LengthInv
<1>6. SavedInv' /\ OwnersInv'
  BY <1>0, <1>1, <1>2 DEF SavedInv, OwnersInv
<1> QED
  BY <1>3, <1>4, <1>5, <1>6 DEF IInv

\* A kill between the two files: the names are there for every descriptor of
\* the old database, unless their file is the one that is cut off.
LEMMA KillWhileSavingInv ==
  IInv /\ KillWhileSaving => IInv'
<1> SUFFICES ASSUME IInv, KillWhileSaving
             PROVE  IInv'
  OBVIOUS
<1>0. /\ running /\ files' \in KilledWhileSaving
      /\ running' = FALSE /\ torn' = TRUE
      /\ UNCHANGED <<names, database, rects, found, update, looking>>
      /\ UNCHANGED <<nb_faces, count_nofaces, announced, last, quiet>>
  BY DEF KillWhileSaving, frameVars, announceVars
<1>1. FacesTypeOK /\ LengthInv /\ SavedInv /\ CountInv
  BY DEF IInv
<1>2. /\ << >> \in Seq(People) /\ << >> \in Seq(Entries)
      /\ names \in Seq(People) /\ database \in Seq(Entries)
      /\ files.names \in Seq(People) /\ files.database \in Seq(Entries)
      /\ Len(names) \in Nat /\ Len(database) \in Nat /\ Len(files.database) \in Nat
      /\ Len(names) >= Len(database) /\ Len(files.database) <= Len(database)
      /\ Len(<< >>) = 0
  <2>1. /\ << >> \in Seq(People) /\ << >> \in Seq(Entries) /\ Len(<< >>) = 0
    OBVIOUS
  <2>2. /\ names \in Seq(People) /\ database \in Seq(Entries)
        /\ files.names \in Seq(People) /\ files.database \in Seq(Entries)
    BY <1>1 DEF FacesTypeOK
  <2>3. Len(names) \in Nat /\ Len(database) \in Nat /\ Len(files.database) \in Nat
    BY <2>2, LenProperties
  <2> QED
    BY <1>0, <1>1, <2>1, <2>2, <2>3 DEF LengthInv
<1>3. /\ files' \in [names : Seq(People), database : Seq(Entries)]
      /\ files'.names # << >> => Len(files'.names) >= Len(files'.database)
  <2>1. CASE files' = [names |-> << >>, database |-> files.database]
    BY <1>2, <2>1
  <2>2. CASE files' = [names |-> names, database |-> files.database]
    BY <1>2, <2>2
  <2>3. CASE files' = [names |-> names, database |-> << >>]
    BY <1>2, <2>3
  <2> QED
    BY <1>0, <2>1, <2>2, <2>3 DEF KilledWhileSaving
<1>4. FacesTypeOK'
  BY <1>0, <1>1, <1>3 DEF FacesTypeOK
<1>5. LengthInv' /\ SavedInv' /\ OwnersInv' /\ CountInv'
  BY <1>0, <1>1, <1>3 DEF LengthInv, SavedInv, OwnersInv, CountInv
<1> QED
  BY <1>4, <1>5 DEF IInv

\* A kill at any other time.
LEMMA KillInv ==
  IInv /\ Kill => IInv'
<1> SUFFICES ASSUME IInv, Kill
             PROVE  IInv'
  OBVIOUS
<1>0. /\ running' = FALSE
      /\ UNCHANGED <<names, database, rects, found, update, looking, files, torn>>
      /\ UNCHANGED <<nb_faces, count_nofaces, announced, last, quiet>>
  BY DEF Kill, frameVars, announceVars
<1>1. FacesTypeOK'
  BY <1>0 DEF IInv, FacesTypeOK
<1>2. LengthInv' /\ SavedInv' /\ OwnersInv' /\ CountInv'
  BY <1>0 DEF IInv, LengthInv, SavedInv, OwnersInv, CountInv
<1> QED
  BY <1>1, <1>2 DEF IInv

\* A process starts with what the files hold.
LEMMA StartInv ==
  IInv /\ Start => IInv'
<1> SUFFICES ASSUME IInv, Start
             PROVE  IInv'
  OBVIOUS
<1>0. /\ files.names # << >>
      /\ running' = TRUE
      /\ names' = files.names /\ database' = files.database
      /\ rects' = << >> /\ found' = 0 /\ update' = FALSE /\ looking' = FALSE
      /\ nb_faces' = 0 /\ count_nofaces' = 0
      /\ announced' = 0 /\ last' = 0 /\ quiet' = Repeat
      /\ UNCHANGED <<files, torn>>
  BY DEF Start
<1>1. FacesTypeOK /\ LengthInv /\ OwnersInv
  BY DEF IInv
<1>2. /\ files \in [names : Seq(People), database : Seq(Entries)]
      /\ files.names \in Seq(People) /\ files.database \in Seq(Entries)
      /\ Len(files.names) \in Nat /\ Len(files.database) \in Nat
      /\ rects' \in Seq(Boxes)
      /\ 0 \in 0..Repeat - 1 /\ Repeat \in 0..Repeat
  BY <1>0, <1>1, EmptySeq, LenProperties, FacesAssumption DEF FacesTypeOK
<1>3. FacesTypeOK'
  BY <1>0, <1>1, <1>2 DEF FacesTypeOK
<1>4. files = [names |-> files.names, database |-> files.database]
  BY <1>2
<1>5. LengthInv' /\ SavedInv' /\ OwnersInv' /\ CountInv'
  BY <1>0, <1>1, <1>2, <1>4, FacesAssumption DEF LengthInv, SavedInv, OwnersInv, CountInv
<1> QED
  BY <1>3, <1>5 DEF IInv

-----------------------------------------------------------------------------
(* The theorems.                                                           *)

\* The invariant holds in every state.
THEOREM Invariance ==
  Spec => []IInv
<1>1. IInv /\ [Next]_vars => IInv'
  <2>1. IInv /\ UNCHANGED vars => IInv'
    BY DEF IInv, FacesTypeOK, LengthInv, SavedInv, OwnersInv, CountInv, vars, frameVars,
       announceVars
  <2> QED
    BY <2>1, TakeFrameInv, SkipFaceInv, NameFaceInv, EndFrameInv, KillWhileSavingInv,
       KillInv, StartInv DEF Next
<1> QED
  BY InitInv, <1>1, PTL DEF Spec

\* Every variable has its type: the two vectors hold names and descriptors, the
\* count stays below Repeat.
THEOREM TypeCorrect ==
  Spec => []FacesTypeOK
<1>1. IInv => FacesTypeOK
  BY DEF IInv
<1> QED
  BY Invariance, <1>1, PTL

\* However the database grows and whenever the process is killed, a process that
\* runs has a name for every descriptor, the owner's unless it was killed while
\* it saved, and a face is named by an entry within a threshold that is nearer than
\* all in front of it and less than a step farther than the nearest of all.
THEOREM FacesAreNamedHolds ==
  Spec => []FacesAreNamed
<1>1. IInv => NamesFitDatabase
  BY DEF IInv, FacesTypeOK, LengthInv, SavedInv, OwnersInv, NamesFitDatabase
<1>2. ASSUME IInv
      PROVE  NamedWithinAStep
  <2>1. database \in Seq(Entries)
    BY <1>2 DEF IInv, FacesTypeOK
  <2>2. ASSUME NEW g \in Frames, NEW i \in DOMAIN g
        PROVE  g[i].at \in Int
    <3>1. g \in Seq(Boxes)
      BY FacesAssumption DEF Boxes
    <3>2. g[i] \in Boxes
      BY <3>1, LenProperties, ElementOfSeq
    <3> QED
      BY <3>2 DEF Boxes
  <2> QED
    BY <2>1, <2>2, FindIs DEF NamedWithinAStep
<1>3. IInv => FacesAreNamed
  BY <1>1, <1>2 DEF FacesAreNamed
<1> QED
  BY Invariance, <1>3, PTL

\* The faces of a frame are announced only when there are more or fewer than in
\* the frame before, or after Repeat frames without an announcement.
THEOREM AnnouncementsAreRareHolds ==
  Spec => AnnouncementsAreRare
<1>1. IInv /\ [Next]_vars
        => [EndFrame /\ announced' > 0 => last' # last \/ quiet >= Repeat]_vars
  <2>1. ASSUME IInv, EndFrame, announced' > 0, last' = last
        PROVE  quiet >= Repeat
    <3>1. last' = found /\ (nb_faces # found \/ announced' = 0)
      BY <2>1 DEF EndFrame, Announce
    <3>2. nb_faces # last
      BY <2>1, <3>1
    <3> QED
      BY <2>1, <3>2 DEF IInv, CountInv
  <2> QED
    BY <2>1
<1> QED
  BY Invariance, <1>1, PTL DEF Spec, AnnouncementsAreRare

-----------------------------------------------------------------------------
(* Induction over data: a set with 0 and the successors of its members,    *)
(* and loops that have a state after each of their rounds.                 *)

\* Induction: a set with 0 and the successors of its numbers has all numbers.
LEMMA Induction ==
  ASSUME NEW T, 0 \in T, \A n \in Nat : n \in T => n + 1 \in T
  PROVE  \A n \in Nat : n \in T
<1> DEFINE U == {n \in Nat : n \notin T}
<1> SUFFICES ASSUME U # {} PROVE FALSE
  OBVIOUS
<1>1. PICK m \in U : \A y \in U : m <= y
  <2>1. U \subseteq Nat
    OBVIOUS
  <2> HIDE DEF U
  <2> QED
    BY <2>1, LeastIs
<1>2. m \in Nat /\ m # 0
  OBVIOUS
<1>3. m - 1 \in Nat /\ m - 1 \notin U
  BY <1>1, <1>2
<1> QED
  BY <1>2, <1>3

\* Induction over the rounds of a loop.
LEMMA UpTo ==
  ASSUME NEW n \in Nat, NEW T, 0 \in T, \A i \in 1..n : i - 1 \in T => i \in T
  PROVE  \A i \in 0..n : i \in T
<1> DEFINE U == {i \in Nat : i <= n => i \in T}
<1>1. 0 \in U
  OBVIOUS
<1>2. ASSUME NEW i \in Nat, i \in U PROVE i + 1 \in U
  <2> SUFFICES ASSUME i + 1 <= n PROVE i + 1 \in T
    OBVIOUS
  <2>1. i + 1 \in 1..n /\ (i + 1) - 1 = i /\ i \in T
    BY <1>2
  <2> QED
    BY <2>1
<1>3. \A i \in Nat : i \in U
  <2> HIDE DEF U
  <2> QED
    BY <1>1, <1>2, Induction
<1> QED
  BY <1>3

\* The states of a loop that starts with c and does F[i] in its round i.
RunOf(g, W, c, n, F) ==
  g \in [0..n -> W] /\ g[0] = c /\ \A i \in 1..n : g[i] = F[i][g[i - 1]]

\* Such a loop has a state after each of its rounds.
LEMMA RunExists ==
  ASSUME NEW W, NEW c \in W, NEW n \in Nat, NEW F \in [1..n -> [W -> W]]
  PROVE  \E g : RunOf(g, W, c, n, F)
<1> DEFINE Good(g, k) == g \in [0..k -> W] /\ g[0] = c
           /\ \A i \in 1..k : g[i] = F[i][g[i - 1]]
           T == {k \in Nat : k <= n => \E g : Good(g, k)}
<1>1. 0 \in T
  <2>1. Good([i \in 0..0 |-> c], 0)
    OBVIOUS
  <2> QED
    BY <2>1
<1>2. ASSUME NEW k \in 1..n, k - 1 \in T PROVE k \in T
  <2>1. PICK g : Good(g, k - 1)
    BY <1>2
  <2> DEFINE h == [i \in 0..k |-> IF i < k THEN g[i] ELSE F[k][g[k - 1]]]
  <2>2. k - 1 \in 0..k - 1 /\ g[k - 1] \in W /\ F[k][g[k - 1]] \in W
    BY <2>1
  <2>3. h \in [0..k -> W] /\ h[0] = c
    BY <2>1, <2>2
  <2>4. ASSUME NEW i \in 1..k PROVE h[i] = F[i][h[i - 1]]
    <3>1. CASE i < k
      <4>1. i \in 1..k - 1 /\ h[i] = g[i] /\ h[i - 1] = g[i - 1]
        BY <3>1
      <4> QED
        BY <2>1, <4>1
    <3>2. CASE i = k
      <4>1. h[i] = F[i][g[k - 1]] /\ h[i - 1] = g[k - 1]
        BY <3>2
      <4> QED
        BY <4>1
    <3> QED
      BY <3>1, <3>2
  <2> HIDE DEF h
  <2>5. Good(h, k) /\ k \in Nat
    BY <2>3, <2>4
  <2> HIDE DEF Good
  <2> QED
    BY <2>5
<1>3. n \in T
  <2> HIDE DEF T
  <2>1. \A k \in 0..n : k \in T
    BY <1>1, <1>2, UpTo
  <2> QED
    BY <2>1
<1>4. PICK g : Good(g, n)
  BY <1>3
<1> QED
  BY <1>4, Zenon DEF RunOf

-----------------------------------------------------------------------------
(* RtpPackets: a receiver gets the frames it was sent.                     *)

Packets ==
  [header : Nat, nal : Seq(Nat), payload : Seq(Nat),
   start : BOOLEAN, end : BOOLEAN, last : BOOLEAN]

Received == [done : Seq(Seq(Nat)), part : Seq(Nat)]

\* The bytes of the frame that come with a packet.
PartOf(p) == IF p.start THEN p.nal \o p.payload ELSE p.payload

\* The packets of a frame of n bytes take it from cut to cut, and the last one
\* is marked.
Delivers(s, n) ==
  /\ s \in Seq(Packets) /\ Len(s) > 0
  /\ \E c \in [0..Len(s) -> Nat] :
       /\ c[0] = 0 /\ c[Len(s)] = n
       /\ \A i \in 1..Len(s) :
            /\ c[i - 1] <= c[i]
            /\ PartOf(s[i]) = Bytes(c[i - 1] + 1, c[i])
            /\ s[i].last <=> i = Len(s)

\* None is empty or too long, and the first one is marked.
Sized(s) ==
  \A i \in 1..Len(s) :
    /\ Len(s[i].payload) > 0 /\ s[i].header + Len(s[i].payload) <= MaxPayload + 1
    /\ s[i].start <=> i = 1

\* Some bytes of a frame.
LEMMA BytesAre ==
  ASSUME NEW a \in Nat, NEW b \in Nat, a <= b
  PROVE  /\ Bytes(a + 1, b) \in Seq(Nat) /\ Len(Bytes(a + 1, b)) = b - a
         /\ \A i \in 1..(b - a) : Bytes(a + 1, b)[i] = a + i
<1>1. Bytes(a + 1, b) = [i \in 1..(b - a) |-> a + i]
  <2>1. b - (a + 1) + 1 = b - a /\ \A i \in 1..(b - a) : (a + 1) + i - 1 = a + i
    OBVIOUS
  <2> QED
    BY <2>1 DEF Bytes
<1>2. b - a \in Nat /\ \A i \in 1..(b - a) : a + i \in Nat
  OBVIOUS
<1>3. [i \in 1..(b - a) |-> a + i] \in Seq(Nat)
  BY <1>2
<1> QED
  BY <1>1, <1>2, <1>3

\* Bytes that follow on each other.
LEMMA BytesJoin ==
  ASSUME NEW a \in Nat, NEW b \in Nat, NEW c \in Nat, a <= b, b <= c
  PROVE  Bytes(a + 1, b) \o Bytes(b + 1, c) = Bytes(a + 1, c)
<1> DEFINE s == Bytes(a + 1, b)
           t == Bytes(b + 1, c)
           u == Bytes(a + 1, c)
<1>1. /\ s \in Seq(Nat) /\ Len(s) = b - a /\ \A i \in 1..(b - a) : s[i] = a + i
      /\ t \in Seq(Nat) /\ Len(t) = c - b /\ \A i \in 1..(c - b) : t[i] = b + i
      /\ u \in Seq(Nat) /\ Len(u) = c - a /\ \A i \in 1..(c - a) : u[i] = a + i
  <2>1. s \in Seq(Nat) /\ Len(s) = b - a /\ \A i \in 1..(b - a) : s[i] = a + i
    BY BytesAre
  <2>2. t \in Seq(Nat) /\ Len(t) = c - b /\ \A i \in 1..(c - b) : t[i] = b + i
    BY BytesAre
  <2>3. u \in Seq(Nat) /\ Len(u) = c - a /\ \A i \in 1..(c - a) : u[i] = a + i
    BY BytesAre
  <2> HIDE DEF s, t, u
  <2> QED
    BY <2>1, <2>2, <2>3
<1> HIDE DEF s, t, u
<1>2. /\ s \o t \in Seq(Nat) /\ Len(s \o t) = c - a
      /\ \A i \in 1..(c - a) : (s \o t)[i] = IF i <= b - a THEN s[i] ELSE t[i - (b - a)]
  <2>1. /\ s \o t \in Seq(Nat) /\ Len(s \o t) = Len(s) + Len(t)
        /\ \A i \in 1..Len(s) + Len(t) :
             (s \o t)[i] = IF i <= Len(s) THEN s[i] ELSE t[i - Len(s)]
    BY <1>1, ConcatProperties
  <2>2. Len(s) + Len(t) = c - a
    BY <1>1
  <2> QED
    BY <1>1, <2>1, <2>2
<1>3. \A i \in 1..(c - a) : (s \o t)[i] = u[i]
  <2> TAKE i \in 1..(c - a)
  <2>1. CASE i <= b - a
    BY <1>1, <1>2, <2>1
  <2>2. CASE ~(i <= b - a)
    <3>1. i - (b - a) \in 1..(c - b) /\ b + (i - (b - a)) = a + i
      BY <2>2
    <3> QED
      BY <1>1, <1>2, <2>2, <3>1
  <2> QED
    BY <2>1, <2>2
<1> QED
  <2>1. s \o t = u
    BY <1>1, <1>2, <1>3, SeqEqual
  <2> QED
    BY <2>1 DEF s, t, u

\* The first bytes of a frame and those that follow.
LEMMA BytesGrow ==
  ASSUME NEW b \in Nat, NEW c \in Nat, b <= c
  PROVE  Bytes(1, b) \o Bytes(b + 1, c) = Bytes(1, c)
<1> DEFINE a == 0
<1>1. a \in Nat /\ a <= b /\ a + 1 = 1
  OBVIOUS
<1> HIDE DEF a
<1>2. Bytes(a + 1, b) \o Bytes(b + 1, c) = Bytes(a + 1, c)
  BY <1>1, BytesJoin
<1> QED
  BY <1>1, <1>2

\* The first bytes of a frame.
LEMMA FirstBytes ==
  ASSUME NEW n \in Nat
  PROVE  Bytes(1, n) \in Seq(Nat) /\ Len(Bytes(1, n)) = n
<1>1. Bytes(0 + 1, n) \in Seq(Nat) /\ Len(Bytes(0 + 1, n)) = n - 0
  BY BytesAre
<1> QED
  BY <1>1

-----------------------------------------------------------------------------
(* The receiver.                                                           *)

\* The receiver after each packet.
LEMMA UnitsIs ==
  ASSUME NEW p \in Seq(Packets)
  PROVE  \E g \in [0..Len(p) -> Received] :
           /\ g[0] = [done |-> << >>, part |-> << >>]
           /\ \A i \in 1..Len(p) : g[i] = Receive(g[i - 1], p[i])
           /\ Units(p) = g[Len(p)]
<1> DEFINE n == Len(p)
           c == [done |-> << >>, part |-> << >>]
           L[i \in 0..Len(p)] == IF i = 0 THEN c ELSE Receive(L[i - 1], p[i])
           F == [i \in 1..n |-> [u \in Received |-> Receive(u, p[i])]]
<1>0. n \in Nat
  OBVIOUS
<1>01. c \in Received
  BY DEF Received
<1>1. \A u \in Received, q \in Packets : Receive(u, q) \in Received
  <2> TAKE u \in Received, q \in Packets
  <2> DEFINE part == PartOf(q)
  <2>1. part \in Seq(Nat) /\ u.part \in Seq(Nat) /\ u.done \in Seq(Seq(Nat))
    BY ConcatProperties DEF PartOf, Packets, Received
  <2>2. u.part \o part \in Seq(Nat)
    BY <2>1, ConcatProperties
  <2>3. Append(u.done, u.part \o part) \in Seq(Seq(Nat))
    BY <2>1, <2>2, AppendProperties
  <2>4. << >> \in Seq(Nat)
    OBVIOUS
  <2>5. Receive(u, q) =
          IF q.last THEN [done |-> Append(u.done, u.part \o part), part |-> << >>]
                        ELSE [done |-> u.done, part |-> u.part \o part]
    BY DEF Receive, PartOf, Received
  <2> HIDE DEF part
  <2> QED
    BY <2>1, <2>2, <2>3, <2>4, <2>5 DEF Received
<1>2. PICK h \in [0..n -> Received] : h[0] = c /\ \A i \in 1..n : h[i] = F[i][h[i - 1]]
  <2>1. F \in [1..n -> [Received -> Received]] /\ n \in Nat
    BY <1>1
  <2> HIDE DEF F, n, c
  <2> QED
    <3>1. PICK h : RunOf(h, Received, c, n, F)
      BY <1>01, <2>1, RunExists, Zenon
    <3> QED
      BY <3>1, Zenon DEF RunOf
<1>3. h = [i \in 0..n |-> IF i = 0 THEN c ELSE Receive(h[i - 1], p[i])]
  <2>1. \A i \in 1..n : i - 1 \in 0..n /\ F[i][h[i - 1]] = Receive(h[i - 1], p[i])
    OBVIOUS
  <2> HIDE DEF F, c
  <2> QED
    BY <1>2, <2>1
<1>4. L = [i \in 0..n |-> IF i = 0 THEN c ELSE Receive(L[i - 1], p[i])]
  BY <1>3 DEF L
<1>5. Units(p) = L[n]
  BY DEF Units
<1>6. L[0] = c /\ \A i \in 1..n : L[i] = Receive(L[i - 1], p[i])
  <2> HIDE DEF L
  <2> QED
    BY <1>4
<1>7. \A i \in 0..n : L[i] \in Received
  <2> DEFINE T == {i \in 0..n : L[i] \in Received}
  <2>1. 0 \in T
    <3> HIDE DEF L, c
    <3> QED
      BY <1>0, <1>01, <1>6
  <2>2. ASSUME NEW i \in 1..n, i - 1 \in T PROVE i \in T
    <3> HIDE DEF L
    <3> QED
      BY <1>1, <1>6, <2>2
  <2> HIDE DEF T
  <2>3. \A i \in 0..n : i \in T
    BY <1>0, <2>1, <2>2, UpTo
  <2> QED
    BY <2>3 DEF T
<1> HIDE DEF L
<1>8. L \in [0..n -> Received]
  BY <1>4, <1>7
<1> QED
  BY <1>5, <1>6, <1>8

\* The packets of a frame give the receiver that frame, and nothing is left.
LEMMA FrameArrives ==
  ASSUME NEW p \in Seq(Packets), NEW g \in [0..Len(p) -> Received],
         \A i \in 1..Len(p) : g[i] = Receive(g[i - 1], p[i]),
         NEW b \in Nat, NEW n \in Nat, NEW s, Delivers(s, n), b + Len(s) <= Len(p),
         \A i \in 1..Len(s) : p[b + i] = s[i],
         g[b].part = << >>
  PROVE  g[b + Len(s)] = [done |-> Append(g[b].done, Bytes(1, n)), part |-> << >>]
<1> DEFINE m == Len(s) - 1
<1>0. m \in Nat /\ s \in Seq(Packets) /\ Len(p) \in Nat /\ m + 1 = Len(s)
  BY DEF Delivers
<1>1. PICK c \in [0..Len(s) -> Nat] :
        /\ c[0] = 0 /\ c[Len(s)] = n
        /\ \A i \in 1..Len(s) :
             /\ c[i - 1] <= c[i]
             /\ PartOf(s[i]) = Bytes(c[i - 1] + 1, c[i])
             /\ s[i].last <=> i = Len(s)
  BY DEF Delivers
<1> DEFINE T == {i \in 0..m : g[b + i] = [done |-> g[b].done, part |-> Bytes(1, c[i])]}
<1>2. ASSUME NEW i \in 1..m + 1, i - 1 \in T
      PROVE  /\ g[b + i - 1].part \o PartOf(s[i]) = Bytes(1, c[i])
             /\ g[b + i - 1].done = g[b].done
             /\ g[b + i] = Receive(g[b + i - 1], s[i])
  <2>1. /\ c[i - 1] \in Nat /\ c[i] \in Nat /\ c[i - 1] <= c[i]
        /\ PartOf(s[i]) = Bytes(c[i - 1] + 1, c[i])
    BY <1>0, <1>1
  <2>2. g[b + i - 1] = [done |-> g[b].done, part |-> Bytes(1, c[i - 1])]
    <3>1. b + (i - 1) = b + i - 1
      OBVIOUS
    <3> QED
      BY <1>2, <3>1
  <2>3. Bytes(1, c[i - 1]) \o Bytes(c[i - 1] + 1, c[i]) = Bytes(1, c[i])
    BY <2>1, BytesGrow
  <2>4. b + i \in 1..Len(p) /\ p[b + i] = s[i] /\ (b + i) - 1 = b + i - 1
    BY <1>0
  <2> HIDE DEF T, m
  <2> QED
    BY <2>1, <2>2, <2>3, <2>4, SMTT(20)
<1>3. 0 \in T
  <2>1. Bytes(1, 0) = << >>
    BY DEF Bytes
  <2>2. b \in 0..Len(p) /\ b + 0 = b
    BY <1>0
  <2>3. g[b] = [done |-> g[b].done, part |-> << >>]
    BY <2>2 DEF Received
  <2>4. 0 \in 0..m
    BY <1>0
  <2> HIDE DEF m
  <2> QED
    BY <1>1, <2>1, <2>2, <2>3, <2>4
<1>4. ASSUME NEW i \in 1..m, i - 1 \in T PROVE i \in T
  <2>1. /\ g[b + i - 1].part \o PartOf(s[i]) = Bytes(1, c[i])
        /\ g[b + i - 1].done = g[b].done
        /\ g[b + i] = Receive(g[b + i - 1], s[i])
    <3>1. i \in 1..m + 1
      BY <1>0
    <3> HIDE DEF T, m
    <3> QED
      BY <1>2, <1>4, <3>1
  <2>2. ~s[i].last
    <3>1. i \in 1..Len(s) /\ i # Len(s)
      <4> HIDE DEF m
      <4> QED
        BY <1>0
    <3> QED
      BY <1>1, <3>1
  <2>3. g[b + i] = [done |-> g[b].done, part |-> Bytes(1, c[i])]
    BY <2>1, <2>2 DEF Receive, PartOf
  <2> QED
    BY <2>3
<1>5. m \in T
  <2> HIDE DEF T, m
  <2>1. \A i \in 0..m : i \in T
    BY <1>0, <1>3, <1>4, UpTo
  <2> QED
    BY <1>0, <2>1
<1> DEFINE e == Len(s)
<1>6. e \in 1..m + 1 /\ e - 1 = m /\ e = Len(s)
  BY <1>0
<1>7. e - 1 \in T
  <2> HIDE DEF T, m, e
  <2> QED
    BY <1>5, <1>6
<1> HIDE DEF e
<1>8. /\ g[b + e - 1].part \o PartOf(s[e]) = Bytes(1, c[e])
      /\ g[b + e - 1].done = g[b].done
      /\ g[b + e] = Receive(g[b + e - 1], s[e])
  <2> HIDE DEF T, m
  <2> QED
    BY <1>2, <1>6, <1>7
<1>9. s[e].last /\ c[e] = n
  <2>1. e \in 1..Len(s)
    BY <1>0, <1>6
  <2> QED
    BY <1>1, <1>6, <2>1
<1>10. g[b + e] = [done |-> Append(g[b].done, Bytes(1, n)), part |-> << >>]
  BY <1>8, <1>9 DEF Receive, PartOf
<1> QED
  BY <1>6, <1>10

\* The packets of no frame or of one.
Carries(s, n) == s = << >> \/ Delivers(s, n)

FrameOf(s, n) == IF s = << >> THEN << >> ELSE <<Bytes(1, n)>>

\* Two frames in a row.
LEMMA TwoFramesArrive ==
  ASSUME NEW n \in Nat, NEW m \in Nat, NEW s, NEW t, Carries(s, n), Carries(t, m)
  PROVE  Reassembled(s, t) = [done |-> FrameOf(s, n) \o FrameOf(t, m), part |-> << >>]
<1> DEFINE p == s \o t
           k == Len(s)
           l == Len(t)
<1>1. s \in Seq(Packets) /\ t \in Seq(Packets) /\ k \in Nat /\ l \in Nat
  <2>1. << >> \in Seq(Packets)
    OBVIOUS
  <2>2. s \in Seq(Packets) /\ t \in Seq(Packets)
    BY <2>1 DEF Carries, Delivers
  <2> QED
    BY <2>2
<1>2. /\ p \in Seq(Packets) /\ Len(p) = k + l
      /\ \A i \in 1..k : p[0 + i] = s[i]
      /\ \A i \in 1..l : p[k + i] = t[i]
  <2>1. /\ p \in Seq(Packets) /\ Len(p) = Len(s) + Len(t)
        /\ \A i \in 1..Len(s) + Len(t) : p[i] = IF i <= Len(s) THEN s[i] ELSE t[i - Len(s)]
    BY <1>1, ConcatProperties
  <2>2. \A i \in 1..k : p[0 + i] = s[i]
    BY <1>1, <2>1
  <2>3. ASSUME NEW i \in 1..l PROVE p[k + i] = t[i]
    <3>1. k + i \in 1..k + l /\ ~(k + i <= k) /\ (k + i) - k = i
      BY <1>1
    <3> QED
      BY <2>1, <3>1
  <2> QED
    BY <2>1, <2>2, <2>3
<1>3. PICK g \in [0..Len(p) -> Received] :
        /\ g[0] = [done |-> << >>, part |-> << >>]
        /\ \A i \in 1..Len(p) : g[i] = Receive(g[i - 1], p[i])
        /\ Units(p) = g[Len(p)]
  BY <1>2, UnitsIs
<1> HIDE DEF p
<1>4. g[k] = [done |-> FrameOf(s, n), part |-> << >>]
  <2>1. CASE s = << >>
    <3>1. k = 0
      BY <2>1
    <3> QED
      BY <1>3, <2>1, <3>1 DEF FrameOf
  <2>2. CASE s # << >>
    <3>1. g[0 + k] = [done |-> Append(g[0].done, Bytes(1, n)), part |-> << >>]
      <4>1. Delivers(s, n) /\ g[0].part = << >> /\ 0 + k <= Len(p) /\ 0 \in Nat
        BY <1>1, <1>2, <1>3, <2>2 DEF Carries
      <4> QED
        BY <1>2, <1>3, <4>1, FrameArrives
    <3>2. 0 + k = k /\ g[0].done = << >>
      BY <1>1, <1>3
    <3>3. Append(<< >>, Bytes(1, n)) = <<Bytes(1, n)>>
      OBVIOUS
    <3> QED
      BY <2>2, <3>1, <3>2, <3>3 DEF FrameOf
  <2> QED
    BY <2>1, <2>2
<1>5. g[k + l] = [done |-> FrameOf(s, n) \o FrameOf(t, m), part |-> << >>]
  <2>0. /\ Bytes(1, n) \in Seq(Nat) /\ Bytes(1, m) \in Seq(Nat)
        /\ FrameOf(s, n) \in Seq(Seq(Nat))
    <3>1. Bytes(1, n) \in Seq(Nat) /\ Bytes(1, m) \in Seq(Nat)
      BY FirstBytes
    <3> QED
      BY <3>1 DEF FrameOf
  <2>1. CASE t = << >>
    <3>1. k + l = k /\ FrameOf(s, n) \o << >> = FrameOf(s, n)
      BY <1>1, <2>0, <2>1
    <3> QED
      BY <1>4, <2>1, <3>1 DEF FrameOf
  <2>2. CASE t # << >>
    <3>1. g[k + l] = [done |-> Append(g[k].done, Bytes(1, m)), part |-> << >>]
      <4>1. Delivers(t, m) /\ g[k].part = << >> /\ k + Len(t) <= Len(p) /\ k \in Nat
        BY <1>1, <1>2, <1>4, <2>2 DEF Carries
      <4>2. \A i \in 1..Len(t) : p[k + i] = t[i]
        BY <1>2
      <4> HIDE DEF k
      <4>3. g[k + Len(t)] = [done |-> Append(g[k].done, Bytes(1, m)), part |-> << >>]
        BY <1>2, <1>3, <4>1, <4>2, FrameArrives
      <4> QED
        BY <4>3
    <3>2. g[k].done = FrameOf(s, n)
      BY <1>4
    <3>3. Append(FrameOf(s, n), Bytes(1, m)) = FrameOf(s, n) \o <<Bytes(1, m)>>
      BY <2>0, AppendIsConcat
    <3> QED
      BY <2>2, <3>1, <3>2, <3>3 DEF FrameOf
  <2> QED
    BY <2>1, <2>2
<1> QED
  BY <1>2, <1>3, <1>5 DEF Reassembled, p

-----------------------------------------------------------------------------
(* The sources.                                                            *)

\* The packets that come of cutting a frame at S[0], S[1] and so on.
Pieces(S, E, header, nal, l) ==
  [i \in 1..l
    |-> Packet(header, Bytes(1, nal), Bytes(S[i - 1] + 1, S[i]), i = 1, E[i], i = l)]

\* The fields of a packet.
Holds(q, header, nal, payload, start, final) ==
  /\ q \in Packets
  /\ q.header = header /\ q.nal = nal /\ q.payload = payload
  /\ q.start = start /\ q.last = final

\* A packet is what Packet is given.
LEMMA PacketIs ==
  ASSUME NEW header \in Nat, NEW nal \in Seq(Nat), NEW payload \in Seq(Nat),
         NEW start \in BOOLEAN, NEW end \in BOOLEAN, NEW final \in BOOLEAN
  PROVE  Holds(Packet(header, nal, payload, start, end, final),
               header, nal, payload, start, final)
  BY Zenon DEF Packet, Packets, Holds

\* The cuts of a frame of n bytes.
Cuts(S, l, n, nal, header) ==
  /\ l \in Nat /\ l > 0 /\ S \in [0..l -> Nat] /\ S[0] = nal /\ S[l] = n
  /\ \A i \in 1..l : S[i - 1] < S[i] /\ header + (S[i] - S[i - 1]) <= MaxPayload + 1

\* A frame that is cut at S[0], S[1] and so on.
LEMMA CutFrame ==
  ASSUME NEW n \in Nat, NEW nal \in Nat, NEW header \in Nat, NEW l, NEW S,
         Cuts(S, l, n, nal, header), NEW E \in [1..l -> BOOLEAN]
  PROVE  Delivers(Pieces(S, E, header, nal, l), n) /\ Sized(Pieces(S, E, header, nal, l))
<1> DEFINE s == Pieces(S, E, header, nal, l)
<1>0. l \in Nat /\ l > 0 /\ S \in [0..l -> Nat] /\ S[0] = nal /\ S[l] = n
  BY DEF Cuts
<1>1. ASSUME NEW i \in 1..l
      PROVE  /\ S[i - 1] \in Nat /\ S[i] \in Nat /\ S[i - 1] < S[i]
             /\ header + (S[i] - S[i - 1]) <= MaxPayload + 1
             /\ Bytes(S[i - 1] + 1, S[i]) \in Seq(Nat)
             /\ Len(Bytes(S[i - 1] + 1, S[i])) = S[i] - S[i - 1]
  <2>1. i - 1 \in 0..l /\ i \in 0..l
    BY <1>0
  <2>2. S[i - 1] \in Nat /\ S[i] \in Nat
    BY <1>0, <2>1
  <2>3. S[i - 1] < S[i] /\ header + (S[i] - S[i - 1]) <= MaxPayload + 1
    BY DEF Cuts
  <2>4. S[i - 1] <= S[i]
    BY <2>2, <2>3
  <2> QED
    BY <2>2, <2>3, <2>4, BytesAre
<1>2. Bytes(1, nal) \in Seq(Nat)
  BY FirstBytes
<1>3. ASSUME NEW i \in 1..l
      PROVE  /\ s[i] \in Packets
             /\ s[i].header = header
             /\ s[i].nal = Bytes(1, nal)
             /\ s[i].payload = Bytes(S[i - 1] + 1, S[i])
             /\ s[i].start = (i = 1)
             /\ s[i].last = (i = l)
  <2>1. s[i] = Packet(header, Bytes(1, nal), Bytes(S[i - 1] + 1, S[i]), i = 1, E[i], i = l)
    BY DEF Pieces
  <2> DEFINE start == (i = 1)
             final == (i = l)
             payload == Bytes(S[i - 1] + 1, S[i])
  <2>2. start \in BOOLEAN /\ final \in BOOLEAN /\ E[i] \in BOOLEAN
    OBVIOUS
  <2>3. s[i] = Packet(header, Bytes(1, nal), payload, start, E[i], final)
    BY <2>1
  <2>4. payload \in Seq(Nat)
    BY <1>1
  <2> HIDE DEF s, start, final, payload
  <2>5. Holds(s[i], header, Bytes(1, nal), payload, start, final)
    <3>1. header \in Nat
      OBVIOUS
    <3>2. Holds(Packet(header, Bytes(1, nal), payload, start, E[i], final),
                header, Bytes(1, nal), payload, start, final)
      BY ONLY <1>2, <2>2, <2>4, <3>1, PacketIs
    <3> QED
      BY ONLY <2>3, <3>2
  <2> QED
    BY <2>5 DEF start, final, payload, Holds
<1>4. s \in Seq(Packets) /\ Len(s) = l
  <2>1. s = [i \in 1..l |-> s[i]]
    BY DEF Pieces
  <2> HIDE DEF s
  <2> QED
    BY <1>0, <1>3, <2>1, SMTT(20)
<1> HIDE DEF s
<1> DEFINE c == [i \in 0..l |-> IF i = 0 THEN 0 ELSE S[i]]
<1>5. c \in [0..l -> Nat] /\ c[0] = 0 /\ c[l] = n
  BY <1>0
<1>6. ASSUME NEW i \in 1..l
      PROVE  c[i - 1] <= c[i] /\ PartOf(s[i]) = Bytes(c[i - 1] + 1, c[i])
  <2>0. /\ c[i - 1] = IF i = 1 THEN 0 ELSE S[i - 1]
        /\ c[i] = S[i]
    BY <1>0
  <2>01. PartOf(s[i]) = IF i = 1 THEN Bytes(1, nal) \o Bytes(S[i - 1] + 1, S[i])
                        ELSE Bytes(S[i - 1] + 1, S[i])
    BY <1>3, Zenon DEF PartOf
  <2> HIDE DEF c
  <2>1. CASE i = 1
    <3>1. S[i - 1] = nal /\ nal <= S[i]
      BY <1>0, <1>1, <2>1
    <3>2. Bytes(1, nal) \o Bytes(nal + 1, S[i]) = Bytes(1, S[i])
      BY <1>1, <3>1, BytesGrow
    <3>3. c[i - 1] = 0 /\ 0 + 1 = 1 /\ c[i - 1] <= c[i]
      BY <1>1, <2>0, <2>1
    <3> QED
      BY <2>0, <2>01, <2>1, <3>1, <3>2, <3>3
  <2>2. CASE i # 1
    BY <1>1, <2>0, <2>01, <2>2
  <2> QED
    BY <2>1, <2>2
<1> HIDE DEF c
<1>7. Delivers(s, n)
  <2>1. \A i \in 1..Len(s) :
          /\ c[i - 1] <= c[i]
          /\ PartOf(s[i]) = Bytes(c[i - 1] + 1, c[i])
          /\ s[i].last <=> i = Len(s)
    BY <1>3, <1>4, <1>6
  <2>2. c \in [0..Len(s) -> Nat] /\ c[0] = 0 /\ c[Len(s)] = n
    BY <1>4, <1>5
  <2>3. s \in Seq(Packets) /\ Len(s) > 0
    BY <1>0, <1>4
  <2> QED
    BY <2>1, <2>2, <2>3, Zenon DEF Delivers
<1>8. Sized(s)
  <2> SUFFICES ASSUME NEW i \in 1..l
               PROVE  /\ Len(s[i].payload) > 0
                      /\ s[i].header + Len(s[i].payload) <= MaxPayload + 1
                      /\ s[i].start <=> i = 1
    BY <1>4 DEF Sized
  <2>1. Len(s[i].payload) = S[i] - S[i - 1] /\ s[i].header = header /\ s[i].start = (i = 1)
    BY <1>1, <1>3
  <2>2. S[i] - S[i - 1] > 0
    BY <1>1
  <2> QED
    BY <1>1, <2>1, <2>2
<1> QED
  BY <1>7, <1>8 DEF s

\* A frame that is one packet.
LEMMA SingleFrame ==
  ASSUME NEW n \in Nat, n > 0, NEW header \in Nat, header + n <= MaxPayload + 1
  PROVE  LET s == <<Packet(header, << >>, Bytes(1, n), TRUE, TRUE, TRUE)>>
         IN  Delivers(s, n) /\ Sized(s)
<1> DEFINE s == <<Packet(header, << >>, Bytes(1, n), TRUE, TRUE, TRUE)>>
           S == [i \in 0..1 |-> IF i = 0 THEN 0 ELSE n]
           E == [i \in 1..1 |-> TRUE]
<1>1. /\ S \in [0..1 -> Nat] /\ S[0] = 0 /\ S[1] = n /\ E \in [1..1 -> BOOLEAN]
           /\ E[1] = TRUE
      /\ \A i \in 1..1 : S[i - 1] < S[i] /\ header + (S[i] - S[i - 1]) <= MaxPayload + 1
  OBVIOUS
<1> HIDE DEF S, E
<1>2. s = Pieces(S, E, header, 0, 1)
  <2>1. Bytes(1, 0) = << >> /\ S[1 - 1] + 1 = 1 /\ S[1] = n /\ E[1] = TRUE
    BY <1>1 DEF Bytes
  <2>2. Pieces(S, E, header, 0, 1) = [i \in 1..1 |-> s[1]]
    <3>1. \A i \in 1..1 : i = 1
      OBVIOUS
    <3>2. \A i \in 1..1 : Packet(header, Bytes(1, 0), Bytes(S[i - 1] + 1, S[i]),
                                 i = 1, E[i], i = 1)
                          = Packet(header, << >>, Bytes(1, n), TRUE, TRUE, TRUE)
      <4> TAKE i \in 1..1
      <4>1. i = 1 /\ (i = 1) = TRUE
        OBVIOUS
      <4> QED
        BY <2>1, <4>1
    <3>3. s[1] = Packet(header, << >>, Bytes(1, n), TRUE, TRUE, TRUE)
      OBVIOUS
    <3> HIDE DEF s
    <3> QED
      BY <3>2, <3>3 DEF Pieces
  <2>3. s = [i \in 1..1 |-> s[1]]
    <3> DEFINE t == [i \in 1..1 |-> s[1]]
    <3>1. s \in Seq({s[1]}) /\ Len(s) = 1
      OBVIOUS
    <3>2. t \in Seq({s[1]}) /\ Len(t) = 1 /\ t[1] = s[1]
      <4> HIDE DEF s
      <4> QED
        OBVIOUS
    <3> HIDE DEF s, t
    <3>3. s = t
      BY <3>1, <3>2, SeqEqual
    <3> QED
      BY <3>3 DEF t
  <2> QED
    BY <2>2, <2>3
<1>3. Cuts(S, 1, n, 0, header)
  BY <1>1 DEF Cuts
<1>4. Delivers(Pieces(S, E, header, 0, 1), n) /\ Sized(Pieces(S, E, header, 0, 1))
  BY <1>1, <1>3, CutFrame
<1> QED
  BY <1>2, <1>4

\* The fragments of a NAL unit: of the same size up to the last one, which is
\* neither empty nor longer.
LEMMA FragmentsCarry ==
  ASSUME NEW n \in Nat, n > MaxPayload, NEW nal \in 1..2
  PROVE  Delivers(Fragment(n, nal, nal + 1), n) /\ Sized(Fragment(n, nal, nal + 1))
<1> DEFINE header == nal + 1
           chunk == MaxPayload - header
           T == {k \in 0..n : n - (nal + k * chunk) + header <= MaxPayload}
           r == Min(T)
           S == [k \in 0..(r + 1) |-> IF k <= r THEN nal + k * chunk ELSE n]
           E == [i \in 1..(r + 1) |-> i > r]
<1>1. /\ header \in Nat /\ chunk \in Nat /\ chunk > 0 /\ nal < n /\ nal \in Nat
      /\ chunk + header = MaxPayload /\ MaxPayload \in Nat
  BY PayloadAssumption
<1>2. n \in T
  <2> HIDE DEF chunk
  <2>1. n * chunk >= n
    BY <1>1
  <2>2. n * chunk \in Nat
    BY <1>1
  <2>3. n - (nal + n * chunk) + header <= MaxPayload
    BY <1>1, <2>1, <2>2, PayloadAssumption
  <2> QED
    BY <2>3
<1>3. r \in T /\ \A k \in T : r <= k
  <2>1. T \subseteq Nat /\ T # {}
    BY <1>2
  <2> HIDE DEF T
  <2> QED
    BY <2>1, LeastIs
<1> HIDE DEF r
<1>4. r \in 0..n /\ n - (nal + r * chunk) + header <= MaxPayload
  BY <1>3
<1>5. \A k \in 0..r - 1 : n - (nal + k * chunk) + header > MaxPayload
  <2> TAKE k \in 0..r - 1
  <2>1. k \in 0..n /\ ~(r <= k)
    BY <1>4
  <2>2. k \notin T
    <3> HIDE DEF T
    <3> QED
      BY <1>3, <2>1
  <2>3. ~(n - (nal + k * chunk) + header <= MaxPayload)
    BY <2>1, <2>2
  <2>4. k * chunk \in Nat
    <3> HIDE DEF chunk
    <3> QED
      BY <1>1, <2>1
  <2> HIDE DEF chunk
  <2> QED
    BY <1>1, <2>3, <2>4
<1> HIDE DEF T, chunk
<1>6. \A k \in 0..r : k * chunk \in Nat /\ nal + k * chunk < n
  <2> TAKE k \in 0..r
  <2>1. k * chunk \in Nat
    BY <1>1, <1>4
  <2>2. CASE k = 0
    <3>1. 0 * chunk = 0
      BY <1>1
    <3> QED
      BY <1>1, <2>2, <3>1
  <2>3. CASE k # 0
    <3>1. k - 1 \in 0..r - 1 /\ (k - 1) * chunk = k * chunk - chunk
      BY <1>1, <1>4, <2>3
    <3>2. n - (nal + (k * chunk - chunk)) + header > MaxPayload
      BY <1>5, <3>1
    <3> QED
      BY <1>1, <2>1, <3>2
  <2> QED
    BY <2>1, <2>2, <2>3
<1>7. S \in [0..(r + 1) -> Nat]
  <2> SUFFICES ASSUME NEW k \in 0..(r + 1)
               PROVE  (IF k <= r THEN nal + k * chunk ELSE n) \in Nat
    OBVIOUS
  <2>1. CASE k <= r
    <3>1. k \in 0..r
      BY <1>4, <2>1
    <3>2. k * chunk \in Nat
      BY <1>6, <3>1
    <3> QED
      BY <1>1, <2>1, <3>2
  <2>2. CASE ~(k <= r)
    BY <2>2
  <2> QED
    BY <2>1, <2>2
<1>8. Cuts(S, r + 1, n, nal, header)
  <2>1. S[0] = nal /\ S[r + 1] = n
    <3>1. 0 * chunk = 0 /\ 0 \in 0..(r + 1) /\ 0 <= r
      BY <1>1, <1>4
    <3>2. S[0] = nal + 0 * chunk
      BY <3>1
    <3>3. r + 1 \in 0..(r + 1) /\ ~(r + 1 <= r)
      BY <1>4
    <3>4. S[r + 1] = n
      BY <3>3
    <3> HIDE DEF S
    <3> QED
      BY <1>1, <3>1, <3>2, <3>4
  <2>2. ASSUME NEW i \in 1..(r + 1)
        PROVE  S[i - 1] < S[i] /\ header + (S[i] - S[i - 1]) <= MaxPayload + 1
    <3>1. i - 1 \in 0..r /\ i - 1 <= r /\ i - 1 \in 0..(r + 1) /\ i \in 0..(r + 1)
      BY <1>4
    <3>2. S[i - 1] = nal + (i - 1) * chunk /\ S[i] = IF i <= r THEN nal + i * chunk ELSE n
      BY <3>1
    <3>3. (i - 1) * chunk \in Nat /\ nal + (i - 1) * chunk < n
      BY <1>6, <3>1
    <3> HIDE DEF S
    <3>4. CASE i <= r
      <4>1. i * chunk = (i - 1) * chunk + chunk
        BY <1>1
      <4>2. S[i] = nal + (i - 1) * chunk + chunk
        BY <1>1, <3>2, <3>3, <3>4, <4>1
      <4> HIDE DEF header
      <4> QED
        BY <1>1, <3>2, <3>3, <4>2
    <3>5. CASE ~(i <= r)
      <4>1. i - 1 = r /\ S[i] = n
        BY <1>4, <3>2, <3>5
      <4>2. n - (nal + (i - 1) * chunk) + header <= MaxPayload
        BY <1>4, <4>1
      <4> HIDE DEF header
      <4> QED
        BY <1>1, <3>2, <3>3, <4>1, <4>2
    <3> QED
      BY <3>4, <3>5
  <2>3. r + 1 \in Nat /\ r + 1 > 0
    BY <1>4
  <2> HIDE DEF S
  <2> QED
    BY <1>7, <2>1, <2>2, <2>3 DEF Cuts
<1>9. E \in [1..(r + 1) -> BOOLEAN]
  OBVIOUS
<1>10. Fragment(n, nal, header) = Pieces(S, E, header, nal, r + 1)
  <2>1. Fragment(n, nal, header) =
          [i \in 1..(r + 1) |->
             Packet(header, Bytes(1, nal),
                    Bytes((IF i - 1 <= r THEN nal + (i - 1) * chunk ELSE n) + 1,
                          IF i <= r THEN nal + i * chunk ELSE n),
                    i = 1, i > r, i > r)]
    BY DEF Fragment, chunk, r, T
  <2>2. ASSUME NEW i \in 1..(r + 1)
        PROVE  /\ S[i - 1] = IF i - 1 <= r THEN nal + (i - 1) * chunk ELSE n
               /\ S[i] = IF i <= r THEN nal + i * chunk ELSE n
               /\ E[i] = (i > r)
               /\ (i = r + 1) = (i > r)
    <3>1. i - 1 \in 0..(r + 1) /\ i \in 0..(r + 1)
      BY <1>4
    <3>2. (i = r + 1) <=> (i > r)
      BY <1>4
    <3> QED
      BY <3>1, <3>2
  <2> HIDE DEF S, E
  <2> QED
    BY <2>1, <2>2 DEF Pieces
<1> HIDE DEF S, E
<1>11. nal \in Nat /\ header \in Nat
  BY <1>1
<1> HIDE DEF header
<1>12. /\ Delivers(Pieces(S, E, header, nal, r + 1), n)
       /\ Sized(Pieces(S, E, header, nal, r + 1))
  BY <1>8, <1>9, <1>11, CutFrame
<1> QED
  BY <1>10, <1>12 DEF header

\* The packets of a VP8 frame are full up to the last one, which is not.
LEMMA VP8Carries ==
  ASSUME NEW n \in Nat, n > 0, n % MaxPayload # 0
  PROVE  Delivers(VP8Packets(n), n) /\ Sized(VP8Packets(n))
<1> DEFINE M == MaxPayload
           T == {k \in 0..n : n <= k * M}
           r == Min(T)
           S == [k \in 0..r |-> IF k * M <= n THEN k * M ELSE n]
           E == [i \in 1..r |-> FALSE]
<1>1. M \in Nat /\ M > 0
  BY PayloadAssumption
<1>2. n \in T
  <2> HIDE DEF M
  <2>1. n * M >= n
    BY <1>1
  <2> QED
    BY <2>1
<1>3. r \in T /\ \A k \in T : r <= k
  <2>1. T \subseteq Nat /\ T # {}
    BY <1>2
  <2> HIDE DEF T
  <2> QED
    BY <2>1, LeastIs
<1> HIDE DEF r
<1>4. r \in 0..n /\ n <= r * M
  BY <1>3
<1>5. \A k \in 0..r - 1 : k * M \in Nat /\ k * M < n
  <2> TAKE k \in 0..r - 1
  <2>1. k \in 0..n /\ ~(r <= k)
    BY <1>4
  <2>2. k \notin T
    <3> HIDE DEF T
    <3> QED
      BY <1>3, <2>1
  <2>3. ~(n <= k * M)
    BY <2>1, <2>2
  <2>4. k * M \in Nat
    <3> HIDE DEF M
    <3> QED
      BY <1>1, <2>1
  <2> HIDE DEF M
  <2> QED
    BY <2>3, <2>4
<1> HIDE DEF T
<1>6. r > 0
  <2> SUFFICES ASSUME r = 0 PROVE FALSE
    BY <1>4
  <2>1. 0 * M = 0
    BY <1>1
  <2> QED
    BY <1>4, <2>1
<1>7. r * M \in Nat /\ n < r * M
  <2> HIDE DEF M
  <2>1. r * M \in Nat
    BY <1>1, <1>4
  <2>2. r * M # n
    <3> SUFFICES ASSUME r * M = n PROVE FALSE
      OBVIOUS
    <3>1. (r * M + 0) % M = 0
      BY <1>1, <1>4, DivIs
    <3>2. r * M + 0 = n
      BY <2>1
    <3> QED
      BY <3>1, <3>2 DEF M
  <2> QED
    BY <1>4, <2>1, <2>2
<1> HIDE DEF M
<1>8. /\ S \in [0..r -> Nat] /\ S[0] = 0 /\ S[r] = n
      /\ \A i \in 1..r : i <= r - 1 => S[i] = i * M
  <2>1. ASSUME NEW k \in 0..r
        PROVE  (IF k * M <= n THEN k * M ELSE n) \in Nat
    <3>1. k * M \in Nat
      BY <1>1
    <3> QED
      BY <3>1
  <2>2. S \in [0..r -> Nat]
    BY <2>1
  <2>3. S[0] = 0
    <3>1. 0 * M = 0 /\ 0 \in 0..r /\ 0 <= n
      BY <1>1, <1>4
    <3> QED
      BY <3>1
  <2>4. S[r] = n
    <3>1. r \in 0..r /\ ~(r * M <= n)
      BY <1>4, <1>7
    <3> QED
      BY <3>1
  <2>5. ASSUME NEW i \in 1..r, i <= r - 1 PROVE S[i] = i * M
    <3>1. i \in 0..r /\ i \in 0..r - 1
      BY <1>4, <2>5
    <3>2. i * M <= n
      BY <1>5, <3>1
    <3> QED
      BY <3>1, <3>2
  <2> HIDE DEF S
  <2> QED
    BY <2>2, <2>3, <2>4, <2>5
<1>9. Cuts(S, r, n, 0, 1)
  <2>1. ASSUME NEW i \in 1..r
        PROVE  S[i - 1] < S[i] /\ 1 + (S[i] - S[i - 1]) <= MaxPayload + 1
    <3>1. i - 1 \in 0..r - 1 /\ (i - 1) * M \in Nat /\ (i - 1) * M < n
      BY <1>4, <1>5
    <3>2. S[i - 1] = (i - 1) * M
      <4>1. CASE i = 1
        <5>1. 0 * M = 0 /\ i - 1 = 0
          BY <1>1, <4>1
        <5> HIDE DEF S
        <5> QED
          BY <1>8, <5>1
      <4>2. CASE i # 1
        <5>1. i - 1 \in 1..r /\ i - 1 <= r - 1
          BY <3>1, <4>2, <1>4
        <5> HIDE DEF S
        <5> QED
          BY <1>8, <5>1
      <4> QED
        BY <4>1, <4>2
    <3>3. i * M = (i - 1) * M + M
      BY <1>1
    <3> HIDE DEF S
    <3>4. CASE i <= r - 1
      <4>1. S[i] = (i - 1) * M + M
        BY <1>8, <3>3, <3>4
      <4> QED
        BY <1>1, <3>1, <3>2, <4>1 DEF M
    <3>5. CASE i = r
      <4>1. S[i] = n /\ n < (i - 1) * M + M
        BY <1>7, <1>8, <3>3, <3>5
      <4> QED
        BY <1>1, <3>1, <3>2, <4>1 DEF M
    <3> QED
      BY <1>4, <3>4, <3>5
  <2>2. r \in Nat
    BY <1>4
  <2> HIDE DEF S
  <2> QED
    BY <1>6, <1>8, <2>1, <2>2 DEF Cuts
<1>10. E \in [1..r -> BOOLEAN]
  OBVIOUS
<1>11. VP8Packets(n) = Pieces(S, E, 1, 0, r)
  <2>1. VP8Packets(n) =
          [i \in 1..r |->
             Packet(1, << >>,
                    Bytes((IF (i - 1) * M <= n THEN (i - 1) * M ELSE n) + 1,
                          IF i * M <= n THEN i * M ELSE n),
                    i = 1, FALSE, ~(i * M <= n))]
    BY DEF VP8Packets, r, T, M
  <2>2. ASSUME NEW i \in 1..r
        PROVE  /\ S[i - 1] = IF (i - 1) * M <= n THEN (i - 1) * M ELSE n
               /\ S[i] = IF i * M <= n THEN i * M ELSE n
               /\ E[i] = FALSE
               /\ (i = r) = (~(i * M <= n))
    <3>1. i - 1 \in 0..r /\ i \in 0..r
      BY <1>4
    <3>2. (i = r) <=> ~(i * M <= n)
      <4>1. CASE i = r
        BY <1>7, <4>1
      <4>2. CASE i # r
        <5>1. i \in 0..r - 1
          BY <1>4, <4>2
        <5>2. i * M < n /\ i * M \in Nat
          BY <1>5, <5>1
        <5>3. i * M <= n
          BY <5>2
        <5> QED
          BY <4>2, <5>3
      <4> QED
        BY <4>1, <4>2
    <3> QED
      BY <3>1, <3>2
  <2>3. Bytes(1, 0) = << >>
    BY DEF Bytes
  <2> HIDE DEF S, E
  <2> QED
    BY <2>1, <2>2, <2>3 DEF Pieces
<1> HIDE DEF S, E
<1>12. Delivers(Pieces(S, E, 1, 0, r), n) /\ Sized(Pieces(S, E, 1, 0, r))
  BY <1>9, <1>10, CutFrame
<1> QED
  BY <1>11, <1>12

-----------------------------------------------------------------------------
(* Detections: an output lies where the network saw the object.            *)

\* A multiple between two bounds.
LEMMA SmallMultiple ==
  ASSUME NEW s \in Nat, s > 0, NEW e \in Int, -(2 * s) < e * s, e * s < 2 * s
  PROVE  e \in -1..1
<1>1. CASE e >= 2
  <2>1. e * s >= 2 * s
    BY <1>1
  <2> QED
    BY <2>1
<1>2. CASE e <= -2
  <2>1. e * s <= (-2) * s
    BY <1>2
  <2> QED
    BY <2>1
<1> QED
  BY <1>1, <1>2

\* Truncation goes towards zero, by less than one.
LEMMA TruncatedIs ==
  ASSUME NEW a \in Int
  PROVE  /\ Truncated(a) \in Int
         /\ a >= 0 => Truncated(a) * Scale <= a /\ a < Truncated(a) * Scale + Scale
         /\ a < 0  => a <= Truncated(a) * Scale /\ Truncated(a) * Scale - Scale < a
<1>0. Scale \in Nat /\ Scale > 0
  BY DetectionsAssumption
<1>1. CASE a >= 0
  <2> DEFINE q == a \div Scale
  <2>1. q \in Int /\ q * Scale <= a /\ a < q * Scale + Scale
    BY <1>0
  <2>2. Truncated(a) = q
    BY <1>1 DEF Truncated
  <2> HIDE DEF q
  <2> QED
    BY <1>0, <1>1, <2>1, <2>2
<1>2. CASE ~(a >= 0)
  <2> DEFINE q == (-a) \div Scale
  <2>1. q \in Int /\ q * Scale <= -a /\ -a < q * Scale + Scale
    BY <1>0
  <2>2. Truncated(a) = -q
    BY <1>2 DEF Truncated
  <2> HIDE DEF q
  <2>3. (-q) * Scale = -(q * Scale)
    BY <1>0, <2>1
  <2> QED
    BY <1>0, <1>2, <2>1, <2>2, <2>3
<1> QED
  BY <1>1, <1>2

\* The size that one adapter computes from a difference of fractions, the other
\* one from a difference of pixels.
LEMMA SizesAreNear ==
  ASSUME NEW a \in Int, NEW b \in Int, a <= b
  PROVE  Truncated(b - a + Scale) - (Truncated(b) - Truncated(a) + 1) \in -1..1
<1> DEFINE x == Truncated(b - a + Scale)
           y == Truncated(b)
           z == Truncated(a)
           e == x - (y - z + 1)
<1>0. Scale \in Nat /\ Scale > 0
  BY DetectionsAssumption
<1>1. x \in Int /\ x * Scale <= b - a + Scale /\ b - a + Scale < x * Scale + Scale
  <2>1. b - a + Scale \in Int /\ b - a + Scale >= 0
    BY <1>0
  <2> QED
    BY <2>1, TruncatedIs
<1>2. /\ y \in Int
      /\ b >= 0 => y * Scale <= b /\ b < y * Scale + Scale
      /\ b < 0  => b <= y * Scale /\ y * Scale - Scale < b
  BY TruncatedIs
<1>3. /\ z \in Int
      /\ a >= 0 => z * Scale <= a /\ a < z * Scale + Scale
      /\ a < 0  => a <= z * Scale /\ z * Scale - Scale < a
  BY TruncatedIs
<1> HIDE DEF x, y, z
<1>4. e * Scale = x * Scale - y * Scale + z * Scale - Scale
  BY <1>0, <1>1, <1>2, <1>3
<1>5. x * Scale \in Int /\ y * Scale \in Int /\ z * Scale \in Int
  BY <1>0, <1>1, <1>2, <1>3
<1>6. -(2 * Scale) < e * Scale /\ e * Scale < 2 * Scale
  <2> HIDE DEF e
  <2>1. CASE a >= 0
    BY <1>0, <1>1, <1>2, <1>3, <1>4, <1>5, <2>1
  <2>2. CASE a < 0 /\ b >= 0
    BY <1>0, <1>1, <1>2, <1>3, <1>4, <1>5, <2>2
  <2>3. CASE b < 0
    BY <1>0, <1>1, <1>2, <1>3, <1>4, <1>5, <2>3
  <2> QED
    BY <2>1, <2>2, <2>3
<1>7. e \in Int
  BY <1>1, <1>2, <1>3
<1> HIDE DEF e
<1>8. e \in -1..1
  BY <1>0, <1>6, <1>7, SmallMultiple
<1> QED
  BY <1>8 DEF e, x, y, z

\* An object on the frame is not taken for pixels.
LEMMA FractionsAreSmall ==
  ASSUME NEW a \in Int, NEW b \in Int, OnFrame(a, b)
  PROVE  Truncated(b) - Truncated(a) + 1 <= 2
<1>0. Scale \in Nat /\ Scale > 0 /\ -Scale < a /\ b < 2 * Scale
  BY DetectionsAssumption DEF OnFrame
<1>1. Truncated(b) \in Int /\ Truncated(b) <= 1
  <2> DEFINE y == Truncated(b)
  <2>1. /\ y \in Int
        /\ b >= 0 => y * Scale <= b
        /\ b < 0  => y * Scale - Scale < b
    BY TruncatedIs
  <2> HIDE DEF y
  <2>2. y * Scale < 2 * Scale
    BY <1>0, <2>1
  <2>3. y >= 2 => y * Scale >= 2 * Scale
    BY <1>0, <2>1
  <2>4. y <= 1
    BY <1>0, <2>1, <2>2, <2>3
  <2> QED
    BY <2>1, <2>4 DEF y
<1>2. Truncated(a) \in Int /\ Truncated(a) >= 0
  <2> DEFINE z == Truncated(a)
  <2>1. /\ z \in Int
        /\ a >= 0 => a < z * Scale + Scale
        /\ a < 0  => a <= z * Scale
    BY TruncatedIs
  <2> HIDE DEF z
  <2>2. -Scale < z * Scale
    BY <1>0, <2>1
  <2>3. z <= -1 => z * Scale <= (-1) * Scale
    BY <1>0, <2>1
  <2>4. z >= 0
    BY <1>0, <2>1, <2>2, <2>3
  <2> QED
    BY <2>1, <2>4 DEF z
<1> QED
  BY <1>1, <1>2

-----------------------------------------------------------------------------
\* There are colours for the classes of every adapter, and for the signs.
LEMMA ClassColorsSuffice ==
  /\ ClassColors \in Nat /\ ClassColors >= InitialClasses
  /\ \A a \in ToSet(SetUp) : ClassNumber(a) \in Nat /\ ClassNumber(a) <= ClassColors
<1> DEFINE n == Len(SetUp)
           L[i \in 0..Len(SetUp)] ==
             IF i = 0 THEN InitialClasses
             ELSE SetClassesNumber(L[i - 1], ClassNumber(SetUp[i]))
           F == [i \in 1..n |-> [x \in Nat |-> SetClassesNumber(x, ClassNumber(SetUp[i]))]]
<1>0. n \in Nat
  BY DetectionsAssumption
<1>1. \A i \in 1..n : ClassNumber(SetUp[i]) \in Nat
  <2> TAKE i \in 1..n
  <2>1. SetUp[i] \in DOMAIN ClassFiles
    BY DetectionsAssumption
  <2>2. ClassFiles[SetUp[i]] \in Seq(ToSet(ClassFiles[SetUp[i]]))
    BY <2>1, DetectionsAssumption
  <2> QED
    BY <2>2 DEF ClassNumber, Classes
<1>2. \A x \in Nat, y \in Nat : SetClassesNumber(x, y) \in Nat
  BY DEF SetClassesNumber
<1>3. InitialClasses \in Nat
  BY DEF InitialClasses
<1>4. PICK h \in [0..n -> Nat] :
        /\ h[0] = InitialClasses
        /\ \A i \in 1..n : h[i] = F[i][h[i - 1]]
  <2> DEFINE W == Nat
  <2>1. F \in [1..n -> [W -> W]] /\ InitialClasses \in W /\ n \in Nat
    BY <1>0, <1>1, <1>2, <1>3
  <2> HIDE DEF F, n, W
  <2>2. \E h \in [0..n -> W] : h[0] = InitialClasses
          /\ \A i \in 1..n : h[i] = F[i][h[i - 1]]
    <3>1. PICK h : RunOf(h, W, InitialClasses, n, F)
      BY <2>1, RunExists, Zenon
    <3> QED
      BY <3>1, Zenon DEF RunOf
  <2> QED
    BY <2>2 DEF W
<1>5. h = [i \in 0..n |-> IF i = 0 THEN InitialClasses
                          ELSE SetClassesNumber(h[i - 1], ClassNumber(SetUp[i]))]
  <2>1. \A i \in 1..n :
          i - 1 \in 0..n
            /\ F[i][h[i - 1]] = SetClassesNumber(h[i - 1], ClassNumber(SetUp[i]))
    BY <1>4
  <2> HIDE DEF F
  <2> QED
    BY <1>4, <2>1
<1>6. L = [i \in 0..n |-> IF i = 0 THEN InitialClasses
                          ELSE SetClassesNumber(L[i - 1], ClassNumber(SetUp[i]))]
  BY <1>5 DEF L
<1>7. ClassColors = L[n]
  BY DEF ClassColors
<1> HIDE DEF L
<1> DEFINE T == {i \in 0..n : /\ L[i] \in Nat /\ L[i] >= InitialClasses
                              /\ \A j \in 1..i : ClassNumber(SetUp[j]) <= L[i]}
<1>8. 0 \in T
  BY <1>0, <1>3, <1>6
<1>9. ASSUME NEW i \in 1..n, i - 1 \in T PROVE i \in T
  <2>1. L[i] = SetClassesNumber(L[i - 1], ClassNumber(SetUp[i])) /\ i \in 0..n
    BY <1>0, <1>6
  <2>2. /\ L[i - 1] \in Nat /\ L[i - 1] >= InitialClasses
        /\ \A j \in 1..i - 1 : ClassNumber(SetUp[j]) <= L[i - 1]
    BY <1>9
  <2>3. L[i] \in Nat /\ L[i] >= L[i - 1] /\ ClassNumber(SetUp[i]) <= L[i]
    BY <1>1, <2>1, <2>2 DEF SetClassesNumber
  <2>4. L[i] >= InitialClasses
    BY <1>3, <2>2, <2>3
  <2>5. ASSUME NEW j \in 1..i PROVE ClassNumber(SetUp[j]) <= L[i]
    <3>1. CASE j = i
      BY <2>3, <3>1
    <3>2. CASE j # i
      <4>1. j \in 1..i - 1 /\ j \in 1..n
        BY <3>2
      <4>2. ClassNumber(SetUp[j]) <= L[i - 1] /\ ClassNumber(SetUp[j]) \in Nat
        BY <1>1, <2>2, <4>1
      <4> QED
        BY <2>2, <2>3, <4>2
    <3> QED
      BY <3>1, <3>2
  <2> QED
    BY <2>1, <2>3, <2>4, <2>5
<1>10. n \in T
  <2> HIDE DEF T, n
  <2>1. \A i \in 0..n : i \in T
    BY <1>0, <1>8, <1>9, UpTo
  <2> QED
    BY <1>0, <2>1
<1>11. ASSUME NEW a \in ToSet(SetUp) PROVE ClassNumber(a) \in Nat /\ ClassNumber(a) <= L[n]
  <2>1. PICK i \in DOMAIN SetUp : a = SetUp[i]
    BY DEF ToSet
  <2>2. i \in 1..n
    BY <2>1, DetectionsAssumption
  <2> QED
    BY <1>1, <1>10, <2>1, <2>2
<1> QED
  BY <1>7, <1>10, <1>11

\* A detection on the frame can be drawn.
LEMMA DetectionIsDrawable ==
  ASSUME NEW d, d.class \in Nat \ {0}, d.left \in Int, d.right \in Int,
         d.top \in Int, d.bottom \in Int,
         OnFrame(d.left, d.right), OnFrame(d.top, d.bottom)
  PROVE  Drawable(d)
<1> DEFINE s == SSDMobileBox(d)
           t == TensorflowBox(d)
<1>1. CanSign
  BY ClassColorsSuffice DEF CanSign, InitialClasses
<1>2. ASSUME NEW adapter \in ToSet(SetUp), d.class <= ClassNumber(adapter)
      PROVE  LET rect == RectOut(adapter, d)
             IN  CanDraw(rect) /\ rect.name = ClassFiles[adapter][d.class]
  <2>1. d.class - 1 < ClassColors
    BY <1>2, ClassColorsSuffice
  <2>2. (d.class - 1) + 1 = d.class
    OBVIOUS
  <2> QED
    BY <2>1, <2>2 DEF CanDraw, RectOut, Classes
<1>3. t = Corners(Truncated(d.left * Cols), Truncated(d.top * Rows),
                  Truncated(d.right * Cols), Truncated(d.bottom * Rows))
  <2>1. Truncated(d.right) - Truncated(d.left) + 1 <= 2
    BY FractionsAreSmall
  <2> QED
    BY <2>1 DEF TensorflowBox, Corners, Rectangle
<1>4. \A a, b \in Int, c \in Nat : a <= b => a * c \in Int /\ b * c \in Int
        /\ a * c <= b * c /\ (b - a) * c = b * c - a * c
  OBVIOUS
<1>5. /\ d.left * Cols \in Int /\ d.right * Cols \in Int /\ d.left * Cols <= d.right * Cols
      /\ (d.right - d.left) * Cols = d.right * Cols - d.left * Cols
      /\ d.top * Rows \in Int /\ d.bottom * Rows \in Int /\ d.top * Rows <= d.bottom * Rows
      /\ (d.bottom - d.top) * Rows = d.bottom * Rows - d.top * Rows
  BY <1>4, DetectionsAssumption DEF OnFrame
<1>6. s.x = t.x /\ s.y = t.y
  BY <1>3 DEF SSDMobileBox, Corners, Rectangle
<1>7. s.width - t.width \in -1..1
  <2>1. s.width = Truncated(d.right * Cols - d.left * Cols + Scale)
    BY <1>5 DEF SSDMobileBox, Rectangle
  <2>2. t.width = Truncated(d.right * Cols) - Truncated(d.left * Cols) + 1
    BY <1>3 DEF Corners, Rectangle
  <2> HIDE DEF s, t
  <2> QED
    BY <1>5, <2>1, <2>2, SizesAreNear
<1>8. s.height - t.height \in -1..1
  <2>1. s.height = Truncated(d.bottom * Rows - d.top * Rows + Scale)
    BY <1>5 DEF SSDMobileBox, Rectangle
  <2>2. t.height = Truncated(d.bottom * Rows) - Truncated(d.top * Rows) + 1
    BY <1>3 DEF Corners, Rectangle
  <2> HIDE DEF s, t
  <2> QED
    BY <1>5, <2>1, <2>2, SizesAreNear
<1> QED
  BY <1>1, <1>2, <1>6, <1>7, <1>8 DEF Drawable

-----------------------------------------------------------------------------
(* WsCodec: bits, the mask, the bytes of a length, the parts of a frame.   *)

\* A byte is the sum of its bits.
LEMMA BitsOfByte ==
  ASSUME NEW a \in 0..255
  PROVE  a = ((a \div 1) % 2) + 2 * ((a \div 2) % 2) + 4 * ((a \div 4) % 2)
         + 8 * ((a \div 8) % 2)
             + 16 * ((a \div 16) % 2) + 32 * ((a \div 32) % 2) + 64 * ((a \div 64) % 2)
             + 128 * ((a \div 128) % 2)
  BY SMTT(60)

\* The bits of a sum of bits.
LEMMA BitsOfSum ==
  ASSUME NEW z1 \in 0..1, NEW z2 \in 0..1, NEW z3 \in 0..1, NEW z4 \in 0..1,
         NEW z5 \in 0..1, NEW z6 \in 0..1, NEW z7 \in 0..1, NEW z8 \in 0..1
  PROVE  LET c == 1 * z1 + 2 * z2 + 4 * z3 + 8 * z4 + 16 * z5 + 32 * z6 + 64 * z7 + 128 * z8
         IN  /\ c \in 0..255
             /\ (c \div 1) % 2 = z1 /\ (c \div 2) % 2 = z2
             /\ (c \div 4) % 2 = z3 /\ (c \div 8) % 2 = z4
             /\ (c \div 16) % 2 = z5 /\ (c \div 32) % 2 = z6
             /\ (c \div 64) % 2 = z7 /\ (c \div 128) % 2 = z8
  BY SMTT(60)

\* A number that is added twice does not change what is even.
LEMMA Parity ==
  ASSUME NEW p \in Int, NEW q \in Int, NEW r \in Int, p % 2 = (q + r) % 2
  PROVE  (p + r) % 2 = q % 2
  OBVIOUS

\* Masking twice with the same byte gives the byte back.
LEMMA XorTwice ==
  ASSUME NEW a \in 0..255, NEW b \in 0..255
  PROVE  Xor(a, b) \in 0..255 /\ Xor(Xor(a, b), b) = a
<1> DEFINE z(w) == ((a \div w) + (b \div w)) % 2
           c == 1 * z(1) + 2 * z(2) + 4 * z(4) + 8 * z(8) + 16 * z(16) + 32 * z(32)
                + 64 * z(64) + 128 * z(128)
<1>1. Xor(a, b) = c
  BY DEF Xor
<1>2. /\ z(1) \in 0..1 /\ z(2) \in 0..1 /\ z(4) \in 0..1 /\ z(8) \in 0..1
      /\ z(16) \in 0..1 /\ z(32) \in 0..1 /\ z(64) \in 0..1 /\ z(128) \in 0..1
  OBVIOUS
<1> HIDE DEF z
<1>3. /\ c \in 0..255
      /\ (c \div 1) % 2 = z(1) /\ (c \div 2) % 2 = z(2)
      /\ (c \div 4) % 2 = z(4) /\ (c \div 8) % 2 = z(8)
      /\ (c \div 16) % 2 = z(16) /\ (c \div 32) % 2 = z(32)
      /\ (c \div 64) % 2 = z(64) /\ (c \div 128) % 2 = z(128)
  BY <1>2, BitsOfSum
<1> HIDE DEF c
<1>4. \A w \in {1, 2, 4, 8, 16, 32, 64, 128} :
        ((c \div w) + (b \div w)) % 2 = (a \div w) % 2
  <2> TAKE w \in {1, 2, 4, 8, 16, 32, 64, 128}
  <2>1. (c \div w) % 2 = ((a \div w) + (b \div w)) % 2
    BY <1>3 DEF z
  <2>2. a \div w \in Int /\ b \div w \in Int /\ c \div w \in Int
    BY <1>3
  <2> QED
    BY <2>1, <2>2, Parity
<1>5. Xor(c, b) = a
  <2>1. Xor(c, b) = 1 * ((a \div 1) % 2) + 2 * ((a \div 2) % 2) + 4 * ((a \div 4) % 2)
                    + 8 * ((a \div 8) % 2) + 16 * ((a \div 16) % 2) + 32 * ((a \div 32) % 2)
                    + 64 * ((a \div 64) % 2) + 128 * ((a \div 128) % 2)
    BY <1>4 DEF Xor
  <2>2. 1 * ((a \div 1) % 2) = (a \div 1) % 2
    OBVIOUS
  <2> QED
    BY <2>1, <2>2, BitsOfByte
<1> QED
  BY <1>1, <1>3, <1>5

\* A masked payload is as long, and masking it again gives it back.
LEMMA UnmaskTwice ==
  ASSUME NEW payload \in Seq(Octet), NEW key \in [1..4 -> Octet]
  PROVE  /\ UnmaskPayloadData(payload, key) \in Seq(Octet)
         /\ Len(UnmaskPayloadData(payload, key)) = Len(payload)
         /\ UnmaskPayloadData(UnmaskPayloadData(payload, key), key) = payload
<1> DEFINE n == Len(payload)
           k(i) == key[((i - 1) % 4) + 1]
           x == [i \in 1..n |-> Xor(payload[i], k(i))]
           y == [i \in 1..n |-> Xor(x[i], k(i))]
<1>1. n \in Nat /\ DOMAIN payload = 1..n /\ payload \in [1..n -> Octet]
  OBVIOUS
<1>2. \A i \in 1..n : k(i) \in Octet
  <2> TAKE i \in 1..n
  <2>1. ((i - 1) % 4) + 1 \in 1..4
    <3>1. i - 1 \in Int
      BY <1>1
    <3>2. \A u \in Int : (u % 4) + 1 \in 1..4
      BY ONLY SMT
    <3> QED
      BY ONLY <3>1, <3>2, Zenon
  <2> QED
    BY <2>1
<1> HIDE DEF k
<1>3. \A i \in 1..n : Xor(payload[i], k(i)) \in Octet
        /\ Xor(Xor(payload[i], k(i)), k(i)) = payload[i]
  BY <1>1, <1>2, XorTwice DEF Octet
<1>4. x \in Seq(Octet) /\ Len(x) = n /\ DOMAIN x = 1..n
  BY <1>1, <1>3
<1>5. y = payload
  BY <1>1, <1>3
<1>6. UnmaskPayloadData(payload, key) = x
  BY <1>1 DEF UnmaskPayloadData, k
<1>7. UnmaskPayloadData(x, key) = y
  BY <1>4 DEF UnmaskPayloadData, k
<1> QED
  BY <1>4, <1>5, <1>6, <1>7

\* The bytes of a swapped word.
LEMMA SwapIs ==
  ASSUME NEW m \in Seq(Octet)
  PROVE  /\ Swap(m) \in Seq(Octet) /\ Len(Swap(m)) = Len(m)
         /\ \A i \in 1..Len(m) : Swap(m)[i] = m[Len(m) + 1 - i]
<1> DEFINE n == Len(m)
           s == [i \in 1..n |-> m[(n - i) + 1]]
<1>1. Swap(m) = s /\ n \in Nat
  BY DEF Swap, Reverse
<1>2. \A i \in 1..n : m[(n - i) + 1] \in Octet /\ (n - i) + 1 = n + 1 - i
  <2> TAKE i \in 1..n
  <2>1. (n - i) + 1 \in 1..n /\ (n - i) + 1 = n + 1 - i
    BY <1>1
  <2> QED
    BY <2>1
<1>3. s \in Seq(Octet) /\ Len(s) = n /\ \A i \in 1..n : s[i] = m[n + 1 - i]
  BY <1>1, <1>2
<1> QED
  BY <1>1, <1>3

\* The eight bytes of a swapped long word, in the opposite order.
LEMMA SwapLongIs ==
  ASSUME NEW m \in Seq(Octet), Len(m) = 8
  PROVE  /\ SwapLong(m) \in Seq(Octet) /\ Len(SwapLong(m)) = 8
         /\ \A i \in 1..8 : SwapLong(m)[i] = m[9 - i]
<1> DEFINE low == SubSeq(m, 1, 4)
           high == SubSeq(m, 5, 8)
<1>1. /\ low \in Seq(Octet) /\ Len(low) = 4 /\ \A i \in 1..4 : low[i] = m[i]
      /\ high \in Seq(Octet) /\ Len(high) = 4 /\ \A i \in 1..4 : high[i] = m[4 + i]
  <2>1. \A i \in 1..8 : m[i] \in Octet
    <3>1. \A i \in 1..Len(m) : m[i] \in Octet
      BY ElementOfSeq
    <3> QED
      BY <3>1
  <2>2. /\ low \in Seq(Octet) /\ Len(low) = 4
        /\ \A i \in 1..4 - 1 + 1 : low[i] = m[1 + i - 1]
    <3>1. \A i \in 1..4 : m[i] \in Octet
      BY <2>1
    <3> QED
      BY <3>1, SubSeqProperties
  <2>3. /\ high \in Seq(Octet) /\ Len(high) = 4
        /\ \A i \in 1..8 - 5 + 1 : high[i] = m[5 + i - 1]
    <3>1. \A i \in 5..8 : m[i] \in Octet
      BY <2>1
    <3> QED
      BY <3>1, SubSeqProperties
  <2> HIDE DEF low, high
  <2> QED
    BY <2>2, <2>3
<1> HIDE DEF low, high
<1>2. /\ Swap(low) \in Seq(Octet) /\ Len(Swap(low)) = 4
      /\ \A i \in 1..4 : Swap(low)[i] = low[5 - i]
  <2>1. /\ Swap(low) \in Seq(Octet) /\ Len(Swap(low)) = Len(low)
        /\ \A i \in 1..Len(low) : Swap(low)[i] = low[Len(low) + 1 - i]
    BY <1>1, SwapIs
  <2> QED
    BY <1>1, <2>1
<1>3. /\ Swap(high) \in Seq(Octet) /\ Len(Swap(high)) = 4
      /\ \A i \in 1..4 : Swap(high)[i] = high[5 - i]
  <2>1. /\ Swap(high) \in Seq(Octet) /\ Len(Swap(high)) = Len(high)
        /\ \A i \in 1..Len(high) : Swap(high)[i] = high[Len(high) + 1 - i]
    BY <1>1, SwapIs
  <2> QED
    BY <1>1, <2>1
<1>4. SwapLong(m) = Swap(high) \o Swap(low)
  BY DEF SwapLong, low, high
<1>5. /\ SwapLong(m) \in Seq(Octet) /\ Len(SwapLong(m)) = 8
      /\ \A i \in 1..8 : SwapLong(m)[i] = IF i <= 4 THEN Swap(high)[i] ELSE Swap(low)[i - 4]
  <2> DEFINE a == Swap(high)
             b == Swap(low)
  <2>1. a \in Seq(Octet) /\ Len(a) = 4 /\ b \in Seq(Octet) /\ Len(b) = 4
    BY <1>2, <1>3
  <2> HIDE DEF a, b
  <2>2. /\ a \o b \in Seq(Octet) /\ Len(a \o b) = Len(a) + Len(b)
        /\ \A i \in 1..Len(a) + Len(b) : (a \o b)[i] =
             IF i <= Len(a) THEN a[i] ELSE b[i - Len(a)]
    BY <2>1, ConcatProperties
  <2>3. /\ a \o b \in Seq(Octet) /\ Len(a \o b) = 8
        /\ \A i \in 1..8 : (a \o b)[i] = IF i <= 4 THEN a[i] ELSE b[i - 4]
    BY <2>1, <2>2
  <2> DEFINE c == a \o b
  <2>4. /\ c \in Seq(Octet) /\ Len(c) = 8
        /\ \A i \in 1..8 : c[i] = IF i <= 4 THEN a[i] ELSE b[i - 4]
    BY <2>3
  <2>5. SwapLong(m) = c
    BY <1>4 DEF a, b
  <2> HIDE DEF c
  <2>6. /\ SwapLong(m) \in Seq(Octet) /\ Len(SwapLong(m)) = 8
        /\ \A i \in 1..8 : SwapLong(m)[i] = IF i <= 4 THEN a[i] ELSE b[i - 4]
    BY <2>4, <2>5
  <2> QED
    BY <2>6, Zenon DEF a, b
<1>6. \A i \in 1..8 : SwapLong(m)[i] = m[9 - i]
  <2> TAKE i \in 1..8
  <2>1. CASE i <= 4
    <3>1. Swap(high)[i] = high[5 - i] /\ 5 - i \in 1..4 /\ 4 + (5 - i) = 9 - i
      BY <1>3, <2>1
    <3> QED
      BY <1>1, <1>5, <2>1, <3>1
  <2>2. CASE ~(i <= 4)
    <3>1. i - 4 \in 1..4 /\ 5 - (i - 4) = 9 - i /\ 9 - i \in 1..4
      BY <2>2
    <3>2. Swap(low)[i - 4] = low[9 - i]
      BY <1>2, <3>1
    <3> QED
      BY <1>1, <1>5, <2>2, <3>1, <3>2
  <2> QED
    BY <2>1, <2>2
<1> QED
  BY <1>5, <1>6

\* What a length looks like in memory and on the wire.
LEMMA BytesOfLength ==
  ASSUME NEW n \in Nat, NEW l \in {2, 8}
  PROVE  /\ Memory(n, l) \in Seq(Octet) /\ Len(Memory(n, l)) = l
         /\ NetworkOrder(n, l) \in Seq(Octet) /\ Len(NetworkOrder(n, l)) = l
         /\ \A i \in 1..l : NetworkOrder(n, l)[i] = Memory(n, l)[l + 1 - i]
         /\ \A i \in 1..l : Memory(n, l)[i] = IF i > 4 THEN 0 ELSE (n \div Weight[i]) % 256
<1>1. \A i \in 1..4 : Weight[i] \in Nat /\ Weight[i] > 0
  BY DEF Weight
<1>2. \A i \in 1..l : (IF i > 4 THEN 0 ELSE (n \div Weight[i]) % 256) \in Octet
  <2> TAKE i \in 1..l
  <2>1. CASE i > 4
    BY <2>1 DEF Octet
  <2>2. CASE ~(i > 4)
    <3>1. i \in 1..4
      BY <2>2
    <3>2. n \div Weight[i] \in Int
      BY <1>1, <3>1
    <3> QED
      BY <2>2, <3>2 DEF Octet
  <2> QED
    BY <2>1, <2>2
<1>3. /\ Memory(n, l) \in Seq(Octet) /\ Len(Memory(n, l)) = l
      /\ \A i \in 1..l : Memory(n, l)[i] = IF i > 4 THEN 0 ELSE (n \div Weight[i]) % 256
  <2> DEFINE e(i) == IF i > 4 THEN 0 ELSE (n \div Weight[i]) % 256
             m == [i \in 1..l |-> e(i)]
  <2>1. Memory(n, l) = m
    BY DEF Memory
  <2>2. \A i \in 1..l : e(i) \in Octet
    BY <1>2
  <2>3. l \in Nat
    OBVIOUS
  <2>4. m \in Seq(Octet) /\ Len(m) = l /\ \A i \in 1..l : m[i] = e(i)
    <3> HIDE DEF e
    <3> QED
      BY <2>2, <2>3
  <2> QED
    BY <2>1, <2>4
<1>4. /\ NetworkOrder(n, l) \in Seq(Octet) /\ Len(NetworkOrder(n, l)) = l
      /\ \A i \in 1..l : NetworkOrder(n, l)[i] = Memory(n, l)[l + 1 - i]
  <2> DEFINE e(i) == IF i > 4 THEN 0 ELSE (n \div Weight[i]) % 256
             m == [i \in 1..l |-> e(l - i + 1)]
  <2>1. NetworkOrder(n, l) = m
    <3>1. \A i \in 1..l : (l - i > 3) = (l - i + 1 > 4)
      OBVIOUS
    <3> QED
      BY <3>1 DEF NetworkOrder
  <2>2. \A i \in 1..l : l - i + 1 \in 1..l /\ l - i + 1 = l + 1 - i
    OBVIOUS
  <2>3. \A i \in 1..l : e(i) \in Octet /\ Memory(n, l)[i] = e(i)
    BY <1>2, <1>3
  <2>4. l \in Nat
    OBVIOUS
  <2>5. m \in Seq(Octet) /\ Len(m) = l /\ \A i \in 1..l : m[i] = Memory(n, l)[l + 1 - i]
    <3> HIDE DEF e
    <3> QED
      BY <2>2, <2>3, <2>4
  <2> QED
    BY <2>1, <2>5
<1> QED
  BY <1>3, <1>4

\* The lengths that two bytes carry, and those of a message.
Short == {n \in Nat : n <= 65535}
Long  == {n \in Nat : n <= 2147483647}

\* The server's two bytes are those the standard wants, and the number comes
\* back from them.
LEMMA ShortLength ==
  ASSUME NEW n \in Short
  PROVE  /\ Swap(Memory(n, 2)) = NetworkOrder(n, 2)
         /\ NetworkOrder(n, 2) \in Seq(Octet) /\ Len(NetworkOrder(n, 2)) = 2
         /\ \A m \in Seq(Octet) : m = NetworkOrder(n, 2) => Number(Swap(m)) = n
<1> DEFINE m == Memory(n, 2)
           w == NetworkOrder(n, 2)
<1>0. n \in Nat
  BY SMT DEF Short, Long
<1>1. /\ m \in Seq(Octet) /\ Len(m) = 2 /\ w \in Seq(Octet) /\ Len(w) = 2
      /\ \A i \in 1..2 : w[i] = m[2 + 1 - i]
      /\ \A i \in 1..2 : m[i] = IF i > 4 THEN 0 ELSE (n \div Weight[i]) % 256
  BY <1>0, BytesOfLength
<1> HIDE DEF m, w
<1>2. Swap(m) \in Seq(Octet) /\ Len(Swap(m)) = 2
        /\ \A i \in 1..2 : Swap(m)[i] = m[2 + 1 - i]
  <2>1. /\ Swap(m) \in Seq(Octet) /\ Len(Swap(m)) = Len(m)
        /\ \A i \in 1..Len(m) : Swap(m)[i] = m[Len(m) + 1 - i]
    BY <1>1, SwapIs
  <2> QED
    BY <1>1, <2>1
<1>3. Swap(m) = w
  BY <1>1, <1>2, SeqEqual
<1>4. Swap(w) \in Seq(Octet) /\ Len(Swap(w)) = 2
        /\ \A i \in 1..2 : Swap(w)[i] = w[2 + 1 - i]
  <2>1. /\ Swap(w) \in Seq(Octet) /\ Len(Swap(w)) = Len(w)
        /\ \A i \in 1..Len(w) : Swap(w)[i] = w[Len(w) + 1 - i]
    BY <1>1, SwapIs
  <2> QED
    BY <1>1, <2>1
<1>5. Swap(w)[1] = n % 256 /\ Swap(w)[2] = (n \div 256) % 256
  <2>1. m[1] = (n \div 1) % 256 /\ m[2] = (n \div 256) % 256
    BY <1>1 DEF Weight
  <2>2. Swap(w)[1] = w[2] /\ Swap(w)[2] = w[1] /\ w[2] = m[1] /\ w[1] = m[2]
    BY <1>1, <1>4
  <2>3. n \div 1 = n
    BY <1>0
  <2> QED
    BY <2>1, <2>2, <2>3
<1>6. Number(Swap(w)) = Swap(w)[1] + 256 * (Swap(w)[2] + 256 * 0)
  <2>1. DOMAIN Swap(w) = 1..2
    BY <1>4
  <2>2. 1 \in 1..2 /\ 2 \in 1..2 /\ \A i \in 3..8 : i \notin 1..2
    OBVIOUS
  <2> QED
    BY <2>1, <2>2 DEF Number
<1>7. (n % 256) + 256 * (((n \div 256) % 256) + 256 * 0) = n
  BY SMT DEF Short, Long
<1>8. Number(Swap(w)) = n
  BY <1>5, <1>6, <1>7
<1> QED
  BY <1>1, <1>3, <1>8 DEF m, w

\* Its eight bytes as well.
LEMMA LongLength ==
  ASSUME NEW n \in Long
  PROVE  /\ SwapLong(Memory(n, 8)) = NetworkOrder(n, 8)
         /\ NetworkOrder(n, 8) \in Seq(Octet) /\ Len(NetworkOrder(n, 8)) = 8
         /\ \A m \in Seq(Octet) : m = NetworkOrder(n, 8) => Number(SwapLong(m)) = n
<1> DEFINE m == Memory(n, 8)
           w == NetworkOrder(n, 8)
           s == SwapLong(w)
<1>0. n \in Nat
  BY SMT DEF Short, Long
<1>1. /\ m \in Seq(Octet) /\ Len(m) = 8 /\ w \in Seq(Octet) /\ Len(w) = 8
      /\ \A i \in 1..8 : w[i] = m[8 + 1 - i]
      /\ \A i \in 1..8 : m[i] = IF i > 4 THEN 0 ELSE (n \div Weight[i]) % 256
  BY <1>0, BytesOfLength
<1> HIDE DEF m, w
<1>2. /\ SwapLong(m) \in Seq(Octet) /\ Len(SwapLong(m)) = 8
      /\ \A i \in 1..8 : SwapLong(m)[i] = m[9 - i]
  BY <1>1, SwapLongIs, SMT
<1>3. SwapLong(m) = w
  <2>1. \A i \in 1..8 : 8 + 1 - i = 9 - i
    BY SMT
  <2> QED
    BY <1>1, <1>2, <2>1, SeqEqual, SMT
<1>4. s \in Seq(Octet) /\ Len(s) = 8 /\ \A i \in 1..8 : s[i] = w[9 - i]
  BY <1>1, SwapLongIs, SMT
<1> HIDE DEF s
<1>5. \A i \in 1..8 : s[i] = IF i > 4 THEN 0 ELSE (n \div Weight[i]) % 256
  <2> TAKE i \in 1..8
  <2>1. 9 - i \in 1..8 /\ 8 + 1 - (9 - i) = i
    BY SMT
  <2> QED
    BY <1>1, <1>4, <2>1, SMT
<1>6. /\ s[1] = n % 256 /\ s[2] = (n \div 256) % 256
      /\ s[3] = (n \div 65536) % 256 /\ s[4] = (n \div 16777216) % 256
      /\ s[5] = 0 /\ s[6] = 0 /\ s[7] = 0 /\ s[8] = 0
  <2>1. n \div 1 = n
    BY <1>0
  <2> QED
    BY <1>5, <2>1, SMT DEF Weight
<1>7. Number(s) = s[1] + 256 * (s[2] + 256 * (s[3] + 256 * (s[4]
                  + 256 * (s[5] + 256 * (s[6] + 256 * (s[7] + 256 * s[8]))))))
  <2>1. DOMAIN s = 1..8
    BY <1>4, SMT
  <2>2. \A i \in 1..8 : i \in DOMAIN s
    BY <2>1, SMT
  <2> QED
    BY <2>2, SMT DEF Number
<1>8. (n % 256) + 256 * (((n \div 256) % 256) + 256 * (((n \div 65536) % 256)
      + 256 * (((n \div 16777216) % 256) + 256 * (0 + 256 * (0 + 256 * (0 + 256 * 0)))))) =
        n
  BY SMT DEF Short, Long
<1>9. Number(s) = n
  BY <1>6, <1>7, <1>8, SMT
<1> QED
  BY <1>1, <1>3, <1>9, SMT DEF m, w, s

\* A sequence between two others.
LEMMA MiddlePart ==
  ASSUME NEW S, NEW a \in Seq(S), NEW b \in Seq(S), NEW c \in Seq(S)
  PROVE  /\ a \o b \o c \in Seq(S) /\ Len(a \o b \o c) = Len(a) + Len(b) + Len(c)
         /\ \A i \in 1..Len(a) : (a \o b \o c)[i] = a[i]
         /\ SubSeq(a \o b \o c, Len(a) + 1, Len(a) + Len(b)) = b
<1> DEFINE d == a \o b
           s == d \o c
           k == Len(a)
           l == Len(b)
           m == Len(c)
<1>1. k \in Nat /\ l \in Nat /\ m \in Nat
  OBVIOUS
<1>2. /\ d \in Seq(S) /\ Len(d) = k + l
      /\ \A i \in 1..k + l : d[i] = IF i <= k THEN a[i] ELSE b[i - k]
  BY ConcatProperties
<1> HIDE DEF d
<1>3. /\ s \in Seq(S) /\ Len(s) = k + l + m
      /\ \A i \in 1..k + l + m : s[i] = IF i <= k + l THEN d[i] ELSE c[i - (k + l)]
  <2>1. /\ s \in Seq(S) /\ Len(s) = Len(d) + Len(c)
        /\ \A i \in 1..Len(d) + Len(c) : s[i] = IF i <= Len(d) THEN d[i] ELSE c[i - Len(d)]
    <3>1. d \in Seq(S)
      BY <1>2
    <3> QED
      BY <3>1, ConcatProperties
  <2> HIDE DEF s
  <2> QED
    BY <1>2, <2>1
<1> HIDE DEF s
<1>4. \A i \in 1..k : s[i] = a[i]
  BY <1>1, <1>2, <1>3
<1>5. SubSeq(s, k + 1, k + l) = b
  <2> DEFINE t == SubSeq(s, k + 1, k + l)
  <2>1. \A i \in k + 1..k + l : s[i] \in S
    BY <1>1, <1>3
  <2>2. /\ t \in Seq(S) /\ Len(t) = IF k + 1 <= k + l THEN k + l - (k + 1) + 1 ELSE 0
        /\ \A i \in 1..k + l - (k + 1) + 1 : t[i] = s[k + 1 + i - 1]
    BY <1>1, <2>1, SubSeqProperties
  <2> HIDE DEF t
  <2>3. Len(t) = l /\ \A i \in 1..l : t[i] = s[k + i]
    <3>1. k + l - (k + 1) + 1 = l /\ \A i \in 1..l : k + 1 + i - 1 = k + i
      BY <1>1
    <3> QED
      BY <1>1, <2>2, <3>1
  <2>4. \A i \in 1..l : s[k + i] = b[i]
    <3> TAKE i \in 1..l
    <3>1. k + i \in 1..k + l /\ k + i \in 1..k + l + m /\ ~(k + i <= k) /\ (k + i) - k = i
          /\ k + i <= k + l
      BY <1>1
    <3> QED
      BY <1>2, <1>3, <3>1
  <2>5. t = b
    BY <2>2, <2>3, <2>4, SeqEqual
  <2> QED
    BY <2>5 DEF t
<1> QED
  BY <1>3, <1>4, <1>5 DEF s, d

\* Some of a sequence.
LEMMA SliceIs ==
  ASSUME NEW S, NEW s \in Seq(S), NEW m \in Nat, NEW n \in Nat, 1 <= m, m <= n + 1,
         n <= Len(s)
  PROVE  /\ SubSeq(s, m, n) \in Seq(S) /\ Len(SubSeq(s, m, n)) = n - m + 1
         /\ \A i \in 1..n - m + 1 : SubSeq(s, m, n)[i] = s[m + i - 1]
<1> DEFINE t == SubSeq(s, m, n)
<1>1. \A i \in m..n : s[i] \in S
  <2> TAKE i \in m..n
  <2>1. i \in 1..Len(s)
    OBVIOUS
  <2> QED
    BY <2>1, ElementOfSeq
<1>2. /\ t \in Seq(S) /\ Len(t) = IF m <= n THEN n - m + 1 ELSE 0
      /\ \A i \in 1..n - m + 1 : t[i] = s[m + i - 1]
  BY <1>1, SubSeqProperties
<1> HIDE DEF t
<1>3. Len(t) = n - m + 1
  BY <1>2
<1> QED
  BY <1>2, <1>3 DEF t

\* Four sequences make up b, one behind the other.
PartsOf(b, S, h, k, x, t) ==
  /\ b \in Seq(S) /\ Len(b) = Len(h) + Len(k) + Len(x) + Len(t)
  /\ \A i \in 1..Len(h) : b[i] = h[i]
  /\ SubSeq(b, Len(h) + 1, Len(h) + Len(k)) = k
  /\ SubSeq(b, Len(h) + Len(k) + 1, Len(h) + Len(k) + Len(x)) = x
  /\ SubSeq(b, Len(h) + Len(k) + Len(x) + 1, Len(b)) = t

\* The two ways of joining three sequences.
Reordered(x, y, z) ==
  (x \o y) \o z = x \o (y \o z)

\* Both give the same.
LEMMA Reorders ==
  ASSUME NEW S, NEW x \in Seq(S), NEW y \in Seq(S), NEW z \in Seq(S)
  PROVE  Reordered(x, y, z)
  BY ConcatAssociative DEF Reordered

\* The parts of a frame and what follows it.
LEMMA PartsOfFrame ==
  ASSUME NEW S, NEW h \in Seq(S), NEW k \in Seq(S), NEW x \in Seq(S), NEW t \in Seq(S)
  PROVE  PartsOf(h \o k \o x \o t, S, h, k, x, t)
<1> DEFINE b == h \o k \o x \o t
           hk == h \o k
           hkx == hk \o x
           xt == x \o t
<1>1. /\ hk \in Seq(S) /\ Len(hk) = Len(h) + Len(k)
      /\ hkx \in Seq(S) /\ xt \in Seq(S)
  BY ConcatProperties
<1>2. Len(hkx) = Len(h) + Len(k) + Len(x)
  <2>1. Len(hk \o x) = Len(hk) + Len(x)
    BY <1>1, ConcatProperties
  <2> QED
    BY <1>1, <2>1
<1>3. b = hkx \o t
  OBVIOUS
<1>4. b = h \o k \o xt
  <2> HIDE DEF hk
  <2>1. (hk \o x) \o t = hk \o (x \o t)
    <3>1. hk \in Seq(S) /\ x \in Seq(S) /\ t \in Seq(S)
      BY <1>1
    <3>2. Reordered(hk, x, t)
      BY ONLY <3>1, Reorders, Zenon
    <3> QED
      BY ONLY <3>2 DEF Reordered
  <2> QED
    BY <2>1 DEF hk
<1>5. /\ \A i \in 1..Len(h) : b[i] = h[i]
      /\ SubSeq(b, Len(h) + 1, Len(h) + Len(k)) = k
  <2> HIDE DEF xt, hk, hkx
  <2>1. /\ \A i \in 1..Len(h) : (h \o k \o xt)[i] = h[i]
        /\ SubSeq(h \o k \o xt, Len(h) + 1, Len(h) + Len(k)) = k
    BY <1>1, MiddlePart
  <2> DEFINE c == h \o k \o xt
  <2>2. /\ \A i \in 1..Len(h) : c[i] = h[i]
        /\ SubSeq(c, Len(h) + 1, Len(h) + Len(k)) = k
    BY <2>1
  <2>3. b = c
    BY <1>4
  <2> HIDE DEF c
  <2> QED
    BY <2>2, <2>3
<1>6. /\ b \in Seq(S) /\ Len(b) = Len(h) + Len(k) + Len(x) + Len(t)
      /\ SubSeq(b, Len(h) + Len(k) + 1, Len(h) + Len(k) + Len(x)) = x
  <2> HIDE DEF hk
  <2>1. /\ hk \o x \o t \in Seq(S) /\ Len(hk \o x \o t) = Len(hk) + Len(x) + Len(t)
        /\ SubSeq(hk \o x \o t, Len(hk) + 1, Len(hk) + Len(x)) = x
    <3>1. hk \in Seq(S)
      BY <1>1
    <3> QED
      BY <3>1, MiddlePart
  <2>2. b = hk \o x \o t
    BY <1>3
  <2> HIDE DEF xt, hkx
  <2> QED
    BY <1>1, <2>1, <2>2
<1>7. SubSeq(b, Len(h) + Len(k) + Len(x) + 1, Len(b)) = t
  <2> HIDE DEF hk, hkx
  <2>1. SubSeq(hkx \o t \o << >>, Len(hkx) + 1, Len(hkx) + Len(t)) = t
    <3>1. << >> \in Seq(S)
      OBVIOUS
    <3> QED
      BY <1>1, <3>1, MiddlePart
  <2>2. hkx \o t \o << >> = b
    <3>1. b \o << >> = b
      BY <1>6, ConcatEmptySeq
    <3> QED
      BY <1>3, <3>1
  <2> QED
    BY <1>2, <1>6, <2>1, <2>2
<1> HIDE DEF b
<1>8. PartsOf(b, S, h, k, x, t)
  BY <1>5, <1>6, <1>7 DEF PartsOf
<1> QED
  BY <1>8 DEF b

\* The bytes that carry a length, and the seven bits that say how many.
More(n) == IF n < 126 THEN 0 ELSE IF n < 65536 THEN 2 ELSE 8
Code(n) == IF n < 126 THEN n ELSE IF n < 65536 THEN 126 ELSE 127

\* A byte in front of others.
LEMMA ByteInFront ==
  ASSUME NEW a \in Octet, NEW w \in Seq(Octet), NEW l, l = <<a>> \o w
  PROVE  /\ l \in Seq(Octet) /\ Len(l) = 1 + Len(w)
         /\ l[1] = a
         /\ \A i \in 1..Len(w) : l[1 + i] = w[i]
<1> DEFINE s == <<a>>
           d == s \o w
<1>1. s \in Seq(Octet) /\ Len(s) = 1 /\ s[1] = a
  OBVIOUS
<1>2. l = d
  OBVIOUS
<1> HIDE DEF s
<1>3. /\ d \in Seq(Octet) /\ Len(d) = Len(s) + Len(w)
      /\ \A i \in 1..Len(s) + Len(w) : d[i] = IF i <= Len(s) THEN s[i] ELSE w[i - Len(s)]
  <2>1. s \in Seq(Octet)
    BY <1>1
  <2> QED
    BY <2>1, ConcatProperties
<1> HIDE DEF d
<1>4. /\ d \in Seq(Octet) /\ Len(d) = 1 + Len(w)
      /\ \A i \in 1..1 + Len(w) : d[i] = IF i <= 1 THEN s[i] ELSE w[i - 1]
  BY <1>1, <1>3
<1>5. Len(w) \in Nat
  OBVIOUS
<1>6. d[1] = s[1]
  BY <1>4, <1>5
<1>7. \A i \in 1..Len(w) : d[1 + i] = w[i]
  <2> TAKE i \in 1..Len(w)
  <2>1. 1 + i \in 1..1 + Len(w) /\ ~(1 + i <= 1) /\ (1 + i) - 1 = i
    BY <1>5
  <2> QED
    BY <1>4, <2>1
<1> QED
  BY <1>1, <1>2, <1>4, <1>6, <1>7

\* The length in a browser's header.
LEMMA LengthBytes ==
  ASSUME NEW n \in Long, NEW mask \in 0..1
  PROVE  LET l == BrowserLength(n, mask)
         IN  /\ l \in Seq(Octet) /\ Len(l) = 1 + More(n)
             /\ l[1] = mask * 128 + Code(n)
             /\ More(n) # 0 => \A i \in 1..More(n) : l[1 + i] = NetworkOrder(n, More(n))[i]
<1>0. n \in Nat
  BY SMT DEF Long
<1>1. \A c \in 0..127 : /\ <<mask * 128 + c>> \in Seq(Octet)
                        /\ Len(<<mask * 128 + c>>) = 1
                        /\ <<mask * 128 + c>>[1] = mask * 128 + c
  <2> TAKE c \in 0..127
  <2>1. mask * 128 + c \in Octet
    BY DEF Octet
  <2> QED
    BY <2>1
<1>3. CASE n < 126
  <2>1. BrowserLength(n, mask) = <<mask * 128 + n>> /\ n \in 0..127
    <3>1. n \in 0..127
      BY <1>0, <1>3
    <3>2. n < 126 /\ ~(126 <= n) /\ ~(n >= 65536)
      BY <1>0, <1>3, SMT
    <3>3. BrowserLength(n, mask) = <<mask * 128 + n>>
      BY <3>2 DEF BrowserLength
    <3> QED
      BY <3>1, <3>3
  <2>2. More(n) = 0 /\ Code(n) = n
    BY <1>3, SMT DEF More, Code
  <2> QED
    BY <1>1, <2>1, <2>2
<1>4. CASE ~(n < 126) /\ n < 65536
  <2>1. BrowserLength(n, mask) = <<mask * 128 + 126>> \o NetworkOrder(n, 2)
    BY <1>0, <1>4, SMT DEF BrowserLength
  <2>2. More(n) = 2 /\ Code(n) = 126
    BY <1>4, SMT DEF More, Code
  <2>3. NetworkOrder(n, 2) \in Seq(Octet) /\ Len(NetworkOrder(n, 2)) = 2
    BY <1>0, BytesOfLength
  <2>4. 126 \in 0..127
    OBVIOUS
  <2> DEFINE l == BrowserLength(n, mask)
             w == NetworkOrder(n, 2)
             a == mask * 128 + 126
  <2>5. l = <<a>> \o w /\ w \in Seq(Octet) /\ Len(w) = 2
    BY <2>1, <2>3
  <2>6. a \in Octet
    BY DEF Octet
  <2> HIDE DEF l, w, a
  <2>61. /\ l \in Seq(Octet) /\ Len(l) = 1 + Len(w)
         /\ l[1] = a
         /\ \A i \in 1..Len(w) : l[1 + i] = w[i]
    <3>1. l = <<a>> \o w
      BY <2>5
    <3>2. w \in Seq(Octet)
      BY <2>5
    <3> QED
      BY <2>6, <3>1, <3>2, ByteInFront
  <2>7. NetworkOrder(n, More(n)) = w
    BY <2>2 DEF w
  <2>8. More(n) = Len(w) /\ mask * 128 + Code(n) = a
    BY <2>2, <2>5 DEF a
  <2> QED
    BY <2>61, <2>7, <2>8 DEF l
<1>5. CASE ~(n < 65536)
  <2>1. BrowserLength(n, mask) = <<mask * 128 + 127>> \o NetworkOrder(n, 8)
    BY <1>0, <1>5, SMT DEF BrowserLength
  <2>2. More(n) = 8 /\ Code(n) = 127
    BY <1>0, <1>5, SMT DEF More, Code
  <2>3. NetworkOrder(n, 8) \in Seq(Octet) /\ Len(NetworkOrder(n, 8)) = 8
    BY <1>0, BytesOfLength
  <2>4. 127 \in 0..127
    OBVIOUS
  <2> DEFINE l == BrowserLength(n, mask)
             w == NetworkOrder(n, 8)
             a == mask * 128 + 127
  <2>5. l = <<a>> \o w /\ w \in Seq(Octet) /\ Len(w) = 8
    BY <2>1, <2>3
  <2>6. a \in Octet
    BY DEF Octet
  <2> HIDE DEF l, w, a
  <2>61. /\ l \in Seq(Octet) /\ Len(l) = 1 + Len(w)
         /\ l[1] = a
         /\ \A i \in 1..Len(w) : l[1 + i] = w[i]
    <3>1. l = <<a>> \o w
      BY <2>5
    <3>2. w \in Seq(Octet)
      BY <2>5
    <3> QED
      BY <2>6, <3>1, <3>2, ByteInFront
  <2>7. NetworkOrder(n, More(n)) = w
    BY <2>2 DEF w
  <2>8. More(n) = Len(w) /\ mask * 128 + Code(n) = a
    BY <2>2, <2>5 DEF a
  <2> QED
    BY <2>61, <2>7, <2>8 DEF l
<1> QED
  BY <1>3, <1>4, <1>5, SMT

\* The server writes what the standard prescribes.
LEMMA ServerWritesTheStandard ==
  ASSUME NEW fin, NEW opcode, NEW payload \in Seq(Octet), Len(payload) \in Long
  PROVE  WritesTheStandard(fin, opcode, payload)
<1> DEFINE n == Len(payload)
           c1 == fin * 128 + opcode
<1>0. n \in Nat
  OBVIOUS
<1>1. CASE n <= 125
  <2>1. FrameBuffer(fin, opcode, payload) = <<c1, n>> \o payload
    BY <1>1, SMT DEF FrameBuffer
  <2>2. BrowserLength(n, 0) = <<n>>
    BY <1>0, <1>1, SMT DEF BrowserLength
  <2>3. <<c1, n>> = <<c1>> \o <<n>>
    OBVIOUS
  <2> HIDE DEF c1, n
  <2> QED
    BY <2>1, <2>2, <2>3 DEF WritesTheStandard, c1, n
<1>2. CASE 126 <= n /\ n <= 65535
  <2>1. FrameBuffer(fin, opcode, payload) = <<c1, 126>> \o Swap(Memory(n, 2)) \o payload
    BY <1>2, SMT DEF FrameBuffer
  <2>2. BrowserLength(n, 0) = <<126>> \o NetworkOrder(n, 2)
    BY <1>0, <1>2, SMT DEF BrowserLength
  <2>3. Swap(Memory(n, 2)) = NetworkOrder(n, 2) /\ NetworkOrder(n, 2) \in Seq(Octet)
    <3>1. n \in Short
      BY <1>0, <1>2, SMT DEF Short
    <3> QED
      BY <3>1, ShortLength
  <2>4. <<c1, 126>> \o NetworkOrder(n, 2) = <<c1>> \o (<<126>> \o NetworkOrder(n, 2))
    <3>1. <<c1, 126>> = <<c1>> \o <<126>>
      OBVIOUS
    <3> DEFINE U == Octet \union {c1}
    <3>2. <<c1>> \in Seq(U) /\ <<126>> \in Seq(U) /\ NetworkOrder(n, 2) \in Seq(U)
      BY <2>3 DEF Octet
    <3> HIDE DEF U, c1, n
    <3>3. (<<c1>> \o <<126>>) \o NetworkOrder(n, 2) =
            <<c1>> \o (<<126>> \o NetworkOrder(n, 2))
      BY <3>2, ConcatAssociative
    <3> QED
      BY <3>1, <3>3
  <2> QED
    BY <2>1, <2>2, <2>3, <2>4 DEF WritesTheStandard
<1>3. CASE n >= 65536
  <2>1. FrameBuffer(fin, opcode, payload) = <<c1, 127>> \o SwapLong(Memory(n, 8)) \o payload
    BY <1>3, SMT DEF FrameBuffer
  <2>2. BrowserLength(n, 0) = <<127>> \o NetworkOrder(n, 8)
    BY <1>0, <1>3, SMT DEF BrowserLength
  <2>3. SwapLong(Memory(n, 8)) = NetworkOrder(n, 8) /\ NetworkOrder(n, 8) \in Seq(Octet)
    BY LongLength
  <2>4. <<c1, 127>> \o NetworkOrder(n, 8) = <<c1>> \o (<<127>> \o NetworkOrder(n, 8))
    <3>1. <<c1, 127>> = <<c1>> \o <<127>>
      OBVIOUS
    <3> DEFINE U == Octet \union {c1}
    <3>2. <<c1>> \in Seq(U) /\ <<127>> \in Seq(U) /\ NetworkOrder(n, 8) \in Seq(U)
      BY <2>3 DEF Octet
    <3> HIDE DEF U, c1, n
    <3>3. (<<c1>> \o <<127>>) \o NetworkOrder(n, 8) =
            <<c1>> \o (<<127>> \o NetworkOrder(n, 8))
      BY <3>2, ConcatAssociative
    <3> QED
      BY <3>1, <3>3
  <2> QED
    BY <2>1, <2>2, <2>3, <2>4 DEF WritesTheStandard
<1> QED
  BY <1>0, <1>1, <1>2, <1>3, SMT

-----------------------------------------------------------------------------
(* WsCodec: what the two readers make of a frame.                          *)

\* The three forms of a header.
LEMMA MoreIs ==
  ASSUME NEW n \in Nat
  PROVE  /\ More(n) \in {0, 2, 8} /\ Code(n) \in 0..127
         /\ More(n) = 0 => Code(n) = n /\ n <= 125
         /\ More(n) = 2 => Code(n) = 126 /\ n \in Short
         /\ More(n) = 8 => Code(n) = 127
         /\ n <= 2040 => More(n) # 8
  BY SMT DEF More, Code, Short

\* Where the parts of a browser's frame lie in the bytes b.
FrameIn(b, fin, opcode, payload, key, next) ==
  LET n    == Len(payload)
      data == 2 + More(n) + 4
  IN  /\ b[1] = fin * 128 + opcode /\ b[2] = 128 + Code(n)
      /\ More(n) # 0 => SubSeq(b, 3, 2 + More(n)) = NetworkOrder(n, More(n))
      /\ SubSeq(b, data - 3, data) = key
      /\ SubSeq(b, data + 1, data + n) = UnmaskPayloadData(payload, key)
      /\ SubSeq(b, data + n + 1, Len(b)) = next

\* They lie there when other bytes follow.
LEMMA BrowserFrameParts ==
  ASSUME NEW fin \in 0..1, NEW opcode \in 0..15, NEW payload \in Seq(Octet),
         Len(payload) \in Long, NEW key \in [1..4 -> Octet], NEW next \in Seq(Octet)
  PROVE  /\ FrameIn(BrowserFrame(fin, opcode, payload, key) \o next,
                    fin, opcode, payload, key, next)
         /\ BrowserFrame(fin, opcode, payload, key) \in Seq(Octet)
<1> DEFINE n == Len(payload)
           k == More(n)
           data == 2 + k + 4
           c1 == fin * 128 + opcode
           l == BrowserLength(n, 1)
           h == <<c1>> \o l
           x == UnmaskPayloadData(payload, key)
<1>0. n \in Nat /\ n \in Long /\ k \in {0, 2, 8} /\ data \in Nat /\ data = k + 6
  BY SMT DEF Long, More
<1>1. /\ l \in Seq(Octet) /\ Len(l) = 1 + k
      /\ l[1] = 1 * 128 + Code(n)
      /\ k # 0 => \A i \in 1..k : l[1 + i] = NetworkOrder(n, k)[i]
  <2>1. 1 \in 0..1
    OBVIOUS
  <2> QED
    BY <1>0, <2>1, LengthBytes
<1> HIDE DEF l
<1>2. /\ h \in Seq(Octet) /\ Len(h) = 1 + Len(l) /\ h[1] = c1
      /\ \A i \in 1..Len(l) : h[1 + i] = l[i]
  <2>1. c1 \in Octet
    BY DEF Octet
  <2>2. l \in Seq(Octet)
    BY <1>1
  <2> HIDE DEF c1
  <2> QED
    BY <2>1, <2>2, ByteInFront
<1> DEFINE b == h \o key \o x \o next
<1>3. BrowserFrame(fin, opcode, payload, key) \o next = b
  <2>1. BrowserFrame(fin, opcode, payload, key) = h \o key \o x
    BY DEF BrowserFrame, UnmaskPayloadData, l
  <2> HIDE DEF h, x
  <2> QED
    BY <2>1
<1> HIDE DEF h
<1>4. Len(h) = 2 + k /\ h[1] = c1 /\ h[2] = 128 + Code(n)
  <2>1. Len(h) = 2 + k
    BY <1>0, <1>1, <1>2
  <2>2. 1 \in 1..Len(l) /\ 1 + 1 = 2
    BY <1>0, <1>1
  <2>3. h[2] = l[1]
    BY <1>2, <2>2
  <2>4. l[1] = 128 + Code(n)
    BY <1>1
  <2> QED
    BY <1>2, <2>1, <2>3, <2>4
<1>5. k # 0 => \A i \in 1..k : h[2 + i] = NetworkOrder(n, k)[i]
  <2> SUFFICES ASSUME k # 0, NEW i \in 1..k PROVE h[2 + i] = NetworkOrder(n, k)[i]
    OBVIOUS
  <2>1. 1 + i \in 1..Len(l) /\ 1 + (1 + i) = 2 + i
    BY <1>0, <1>1
  <2>2. h[2 + i] = l[1 + i]
    BY <1>2, <2>1
  <2> QED
    BY <1>1, <2>2
<1>6. key \in Seq(Octet) /\ Len(key) = 4
  <2>1. key = [i \in 1..4 |-> key[i]] /\ \A i \in 1..4 : key[i] \in Octet
    OBVIOUS
  <2> QED
    BY <2>1
<1>7. x \in Seq(Octet) /\ Len(x) = n
  BY UnmaskTwice
<1> HIDE DEF x, c1, k
<1>8. /\ b \in Seq(Octet) /\ Len(b) = Len(h) + Len(key) + Len(x) + Len(next)
      /\ \A i \in 1..Len(h) : b[i] = h[i]
      /\ SubSeq(b, Len(h) + 1, Len(h) + Len(key)) = key
      /\ SubSeq(b, Len(h) + Len(key) + 1, Len(h) + Len(key) + Len(x)) = x
      /\ SubSeq(b, Len(h) + Len(key) + Len(x) + 1, Len(b)) = next
  <2>1. h \in Seq(Octet)
    BY <1>2
  <2>2. x \in Seq(Octet)
    BY <1>7
  <2>3. key \in Seq(Octet)
    BY <1>6
  <2>4. next \in Seq(Octet)
    OBVIOUS
  <2>5. PartsOf(b, Octet, h, key, x, next)
    BY <2>1, <2>2, <2>3, <2>4, PartsOfFrame
  <2> HIDE DEF b
  <2> QED
    BY <2>5 DEF PartsOf
<1> HIDE DEF b
<1>9. b[1] = c1 /\ b[2] = 128 + Code(n)
  <2>1. 1 \in 1..Len(h) /\ 2 \in 1..Len(h)
    BY <1>0, <1>4
  <2> QED
    BY <1>4, <1>8, <2>1
<1>10. k # 0 => SubSeq(b, 3, 2 + k) = NetworkOrder(n, k)
  <2> SUFFICES ASSUME k # 0 PROVE SubSeq(b, 3, 2 + k) = NetworkOrder(n, k)
    OBVIOUS
  <2> DEFINE e == 2 + k
             s == SubSeq(b, 3, e)
             w == NetworkOrder(n, k)
  <2>1. w \in Seq(Octet) /\ Len(w) = k
    <3>1. k \in {2, 8} /\ n \in Nat
      BY <1>0
    <3>2. NetworkOrder(n, k) \in Seq(Octet) /\ Len(NetworkOrder(n, k)) = k
      BY ONLY <3>1, BytesOfLength, Zenon
    <3> QED
      BY <3>2
  <2>2. e \in Int /\ e - 3 + 1 = k /\ 3 <= e /\ k \in Nat /\ e = Len(h)
    BY <1>0, <1>4
  <2> HIDE DEF e
  <2>3. \A i \in 3..e : b[i] \in Octet /\ b[i] = h[i]
    <3>1. \A i \in 3..e : i \in 1..Len(b) /\ i \in 1..Len(h)
      BY <1>6, <1>7, <1>8, <2>2
    <3> QED
      BY <1>8, <3>1
  <2>4. /\ s \in Seq(Octet) /\ Len(s) = IF 3 <= e THEN e - 3 + 1 ELSE 0
        /\ \A i \in 1..e - 3 + 1 : s[i] = b[3 + i - 1]
    <3>1. e \in Nat /\ 3 \in Nat /\ 1 <= 3 /\ 3 <= e + 1 /\ e <= Len(b)
      BY <1>6, <1>7, <1>8, <2>2
    <3>2. b \in Seq(Octet)
      BY <1>8
    <3>3. /\ s \in Seq(Octet) /\ Len(s) = e - 3 + 1
          /\ \A i \in 1..e - 3 + 1 : s[i] = b[3 + i - 1]
      BY <3>1, <3>2, SliceIs
    <3> HIDE DEF s
    <3> QED
      BY <2>2, <3>3
  <2> HIDE DEF s, w
  <2>5. Len(s) = k /\ \A i \in 1..k : s[i] = b[2 + i]
    <3>1. \A i \in 1..k : 3 + i - 1 = 2 + i
      BY <2>2
    <3> QED
      BY <2>2, <2>4, <3>1
  <2>6. \A i \in 1..k : 2 + i \in 3..e
    BY <2>2
  <2>7. \A i \in 1..k : s[i] = w[i]
    BY <1>5, <2>3, <2>5, <2>6 DEF w
  <2>8. s = w
    BY <2>1, <2>4, <2>5, <2>7, SeqEqual
  <2> QED
    BY <2>8 DEF s, w, e
<1>11. /\ SubSeq(b, data - 3, data) = key
       /\ SubSeq(b, data + 1, data + n) = x
       /\ SubSeq(b, data + n + 1, Len(b)) = next
  <2>1. /\ data - 3 = Len(h) + 1 /\ data = Len(h) + Len(key)
        /\ data + 1 = Len(h) + Len(key) + 1
        /\ data + n = Len(h) + Len(key) + Len(x)
        /\ data + n + 1 = Len(h) + Len(key) + Len(x) + 1
    BY <1>0, <1>4, <1>6, <1>7
  <2> QED
    BY <1>8, <2>1
<1>12. BrowserFrame(fin, opcode, payload, key) \in Seq(Octet)
  <2>1. h \in Seq(Octet)
    BY <1>2
  <2>2. x \in Seq(Octet)
    BY <1>7
  <2>3. key \in Seq(Octet)
    BY <1>6
  <2>4. h \o key \o x \in Seq(Octet)
    BY <2>1, <2>2, <2>3, MiddlePart
  <2> QED
    BY <2>4 DEF BrowserFrame, UnmaskPayloadData, h, x, c1, l
<1> QED
  <2>1. FrameIn(b, fin, opcode, payload, key, next)
    BY <1>9, <1>10, <1>11 DEF FrameIn, c1, x, k
  <2> QED
    BY <1>3, <1>12, <2>1

\* What is in the first two bytes of a frame.
LEMMA HeaderFields ==
  ASSUME NEW fin \in 0..1, NEW opcode \in 0..15, NEW code \in 0..127
  PROVE  /\ (fin * 128 + opcode) \div 128 = fin /\ (fin * 128 + opcode) % 16 = opcode
         /\ (128 + code) \div 128 = 1 /\ (128 + code) % 128 = code
  OBVIOUS

\* A browser's frame consists of bytes.
LEMMA BrowserFrameBytes ==
  ASSUME NEW fin \in 0..1, NEW opcode \in 0..15, NEW payload \in Seq(Octet),
         Len(payload) \in Long, NEW key \in [1..4 -> Octet]
  PROVE  BrowserFrame(fin, opcode, payload, key) \in Seq(Octet)
<1>1. << >> \in Seq(Octet)
  OBVIOUS
<1> DEFINE t == << >>
<1>2. t \in Seq(Octet)
  BY <1>1
<1> HIDE DEF t
<1>3. /\ FrameIn(BrowserFrame(fin, opcode, payload, key) \o t, fin, opcode, payload, key, t)
      /\ BrowserFrame(fin, opcode, payload, key) \in Seq(Octet)
  BY <1>2, BrowserFrameParts
<1> QED
  BY <1>3

\* A browser's frame comes out as it went in.
LEMMA ServerReadsWhatWasSent ==
  ASSUME NEW fin \in 0..1, NEW opcode \in 0..15, NEW payload \in Seq(Octet),
         Len(payload) \in Long, NEW key \in [1..4 -> Octet], NEW next \in Seq(Octet)
  PROVE  ReadsWhatWasSent(fin, opcode, payload, key, next)
<1> DEFINE b == BrowserFrame(fin, opcode, payload, key) \o next
           n == Len(payload)
           data == 2 + More(n) + 4
           x == UnmaskPayloadData(payload, key)
           h == ParseFrameHeader(b)
<1>0. n \in Nat /\ n \in Long
  BY SMT DEF Long
<1>1. /\ b[1] = fin * 128 + opcode /\ b[2] = 128 + Code(n)
      /\ More(n) # 0 => SubSeq(b, 3, 2 + More(n)) = NetworkOrder(n, More(n))
      /\ SubSeq(b, data - 3, data) = key
      /\ SubSeq(b, data + 1, data + n) = x
      /\ SubSeq(b, data + n + 1, Len(b)) = next
  <2>1. FrameIn(b, fin, opcode, payload, key, next)
    BY BrowserFrameParts
  <2> HIDE DEF b
  <2> QED
    BY <2>1 DEF FrameIn
<1>2. UnmaskPayloadData(x, key) = payload
  BY UnmaskTwice
<1> HIDE DEF b, x, n
<1>3. Code(n) \in 0..127
  BY <1>0, MoreIs
<1>4. h.fin = fin /\ h.opcode = opcode /\ h.payload_len = Code(n)
  <2>1. h.fin = b[1] \div 128 /\ h.opcode = b[1] % 16 /\ h.payload_len = b[2] % 128
    BY DEF ParseFrameHeader
  <2> HIDE DEF h
  <2>2. /\ (fin * 128 + opcode) \div 128 = fin /\ (fin * 128 + opcode) % 16 = opcode
        /\ (128 + Code(n)) % 128 = Code(n)
    <3> DEFINE c == Code(n)
    <3>1. c \in 0..127
      BY <1>3
    <3> HIDE DEF c
    <3>2. /\ (fin * 128 + opcode) \div 128 = fin /\ (fin * 128 + opcode) % 16 = opcode
          /\ (128 + c) \div 128 = 1 /\ (128 + c) % 128 = c
      BY <3>1, HeaderFields
    <3> QED
      BY <3>2 DEF c
  <2> QED
    BY <1>1, <2>1, <2>2
<1> HIDE DEF h, n
<1> DEFINE more == CASE h.payload_len <= 125 -> 0
                     [] h.payload_len = 126  -> 2
                     [] h.payload_len = 127  -> 8
           m == CASE more = 0 -> h.payload_len
                  [] more = 2 -> Number(Swap(SubSeq(b, 3, 4)))
                  [] more = 8 -> Number(SwapLong(SubSeq(b, 3, 10)))
           d == 2 + more + 4
<1>5. ReadFrame(b) =
        [fin |-> h.fin, opcode |-> h.opcode,
         payload |-> UnmaskPayloadData(SubSeq(b, d + 1, d + m), SubSeq(b, d - 3, d)),
         rest |-> SubSeq(b, d + m + 1, Len(b))]
  BY DEF ReadFrame, h
<1>6. more = More(n) /\ m = n
  <2>1. CASE More(n) = 0
    <3>1. Code(n) = n /\ n <= 125
      BY <1>0, <2>1, MoreIs
    <3>2. more = 0
      BY <1>0, <1>4, <3>1
    <3> HIDE DEF more
    <3> QED
      BY <1>4, <2>1, <3>1, <3>2
  <2>2. CASE More(n) = 2
    <3>1. More(n) = 2 /\ Code(n) = 126 /\ n \in Short
      BY <1>0, <2>2, MoreIs
    <3>2. more = 2
      BY <1>4, <3>1
    <3>3. SubSeq(b, 3, 4) = NetworkOrder(n, 2) /\ NetworkOrder(n, 2) \in Seq(Octet)
      <4>1. SubSeq(b, 3, 2 + 2) = NetworkOrder(n, 2)
        BY <1>1, <3>1
      <4> QED
        BY <1>0, <4>1, BytesOfLength
    <3>4. Number(Swap(SubSeq(b, 3, 4))) = n
      BY <3>1, <3>3, ShortLength
    <3> HIDE DEF more
    <3>5. more # 0 /\ more = 2
      BY <3>2
    <3>6. m = Number(Swap(SubSeq(b, 3, 4)))
      BY <3>5
    <3> QED
      BY <3>1, <3>2, <3>4, <3>6
  <2>3. CASE More(n) = 8
    <3>1. More(n) = 8 /\ Code(n) = 127
      BY <1>0, <2>3, MoreIs
    <3>2. more = 8
      BY <1>4, <3>1
    <3>3. SubSeq(b, 3, 10) = NetworkOrder(n, 8) /\ NetworkOrder(n, 8) \in Seq(Octet)
      <4>1. SubSeq(b, 3, 2 + 8) = NetworkOrder(n, 8)
        BY <1>1, <3>1
      <4> QED
        BY <1>0, <4>1, BytesOfLength
    <3>4. Number(SwapLong(SubSeq(b, 3, 10))) = n
      BY <1>0, <3>3, LongLength
    <3> HIDE DEF more
    <3>5. more # 0 /\ more # 2 /\ more = 8
      BY <3>2
    <3>6. m = Number(SwapLong(SubSeq(b, 3, 10)))
      BY <3>5
    <3> QED
      BY <3>1, <3>2, <3>4, <3>6
  <2>4. More(n) \in {0, 2, 8}
    BY <1>0, MoreIs
  <2> HIDE DEF more, m
  <2> QED
    BY <2>1, <2>2, <2>3, <2>4
<1> HIDE DEF more, m
<1>7. d = data
  BY <1>6
<1> HIDE DEF d, data
<1>8. ReadFrame(b) = [fin |-> fin, opcode |-> opcode, payload |-> payload, rest |-> next]
  BY <1>1, <1>2, <1>4, <1>5, <1>6, <1>7
<1> QED
  BY <1>8 DEF ReadsWhatWasSent, b

\* The other reader of the library reads it too, when it fits its buffer.
LEMMA OtherReaderReads ==
  ASSUME NEW fin \in 0..1, NEW opcode \in 0..15, NEW payload \in Seq(Octet),
         Len(payload) <= 2040, NEW key \in [1..4 -> Octet]
  PROVE  FetchWebsocketInfo(BrowserFrame(fin, opcode, payload, key)) =
           [fin |-> fin, opcode |-> opcode, payload |-> payload]
<1> DEFINE t == << >>
           f == BrowserFrame(fin, opcode, payload, key)
           b == f \o t
           n == Len(payload)
           d == 2 + More(n) + 4
           x == UnmaskPayloadData(payload, key)
<1>0. n \in Nat /\ n \in Long /\ n \in Short /\ n <= 2040
  <2>1. n \in Nat
    OBVIOUS
  <2> QED
    BY <2>1, SMT DEF Long, Short
<1>1. /\ b[1] = fin * 128 + opcode /\ b[2] = 128 + Code(n)
      /\ More(n) # 0 => SubSeq(b, 3, 2 + More(n)) = NetworkOrder(n, More(n))
      /\ SubSeq(b, d - 3, d) = key
      /\ SubSeq(b, d + 1, d + n) = x
      /\ f \in Seq(Octet)
  <2>1. t \in Seq(Octet)
    OBVIOUS
  <2>2. Len(payload) \in Long
    BY <1>0
  <2> HIDE DEF t
  <2>3. FrameIn(b, fin, opcode, payload, key, t)
    BY ONLY <2>1, <2>2, BrowserFrameParts
  <2>4. f \in Seq(Octet)
    <3> HIDE DEF b, f, n, x, d
    <3>1. payload \in Seq(Octet)
      OBVIOUS
    <3>2. fin \in 0..1 /\ opcode \in 0..15 /\ key \in [1..4 -> Octet]
      OBVIOUS
    <3>3. BrowserFrame(fin, opcode, payload, key) \in Seq(Octet)
      BY ONLY <3>1, <3>2, <2>2, BrowserFrameBytes
    <3> QED
      BY <3>3 DEF f
  <2> HIDE DEF b, f
  <2> QED
    BY <2>3, <2>4 DEF FrameIn
<1>2. UnmaskPayloadData(x, key) = payload
  BY UnmaskTwice
<1> HIDE DEF n
<1>3. Code(n) \in 0..127
  BY <1>0, MoreIs
<1>4. f = b
  <2>1. f \in Seq(Octet)
    BY <1>1
  <2> HIDE DEF f
  <2> QED
    BY <2>1, ConcatEmptySeq
<1> HIDE DEF b, x, f, d
<1>5. b[1] \div 128 = fin /\ b[1] % 16 = opcode /\ b[2] \div 128 = 1 /\ b[2] % 128 = Code(n)
  <2>1. /\ (fin * 128 + opcode) \div 128 = fin /\ (fin * 128 + opcode) % 16 = opcode
        /\ (128 + Code(n)) \div 128 = 1 /\ (128 + Code(n)) % 128 = Code(n)
    <3> DEFINE c == Code(n)
    <3>1. c \in 0..127
      BY <1>3
    <3> HIDE DEF c
    <3>2. /\ (fin * 128 + opcode) \div 128 = fin /\ (fin * 128 + opcode) % 16 = opcode
          /\ (128 + c) \div 128 = 1 /\ (128 + c) % 128 = c
      BY <3>1, HeaderFields
    <3> QED
      BY <3>2 DEF c
  <2> QED
    BY <1>1, <2>1
<1> DEFINE len7 == b[2] % 128
           more == CASE len7 = 126 -> 2 [] len7 = 127 -> 4 [] OTHER -> 0
           m == IF more = 0 THEN len7 ELSE Number(Swap(SubSeq(b, 3, 2 + more)))
           e == 2 + more + 4
<1>6. FetchWebsocketInfo(b) =
        [fin |-> b[1] \div 128, opcode |-> b[1] % 16,
         payload |-> UnmaskPayloadData(SubSeq(b, e + 1, e + m), SubSeq(b, e - 3, e))]
  BY <1>5 DEF FetchWebsocketInfo
<1>7. more = More(n) /\ m = n
  <2>1. CASE More(n) = 0
    <3>1. Code(n) = n /\ n <= 125
      BY <1>0, <2>1, MoreIs
    <3>2. more = 0
      BY <1>0, <1>5, <3>1
    <3> HIDE DEF more
    <3> QED
      BY <1>5, <2>1, <3>1, <3>2
  <2>2. CASE More(n) = 2
    <3>1. More(n) = 2 /\ Code(n) = 126 /\ n \in Short
      BY <1>0, <2>2, MoreIs
    <3>2. more = 2
      BY <1>5, <3>1
    <3>3. SubSeq(b, 3, 4) = NetworkOrder(n, 2) /\ NetworkOrder(n, 2) \in Seq(Octet)
      <4>1. SubSeq(b, 3, 2 + 2) = NetworkOrder(n, 2)
        BY <1>1, <3>1
      <4> QED
        BY <1>0, <4>1, BytesOfLength
    <3>4. Number(Swap(SubSeq(b, 3, 4))) = n
      <4> DEFINE w == SubSeq(b, 3, 4)
      <4>1. w \in Seq(Octet) /\ w = NetworkOrder(n, 2)
        BY <3>3
      <4> HIDE DEF w
      <4>2. Number(Swap(w)) = n
        BY <3>1, <4>1, ShortLength
      <4> QED
        BY <4>2 DEF w
    <3> HIDE DEF more
    <3>5. 2 + more = 4 /\ more # 0
      BY <3>2
    <3> QED
      BY <3>1, <3>2, <3>4, <3>5
  <2>3. More(n) \in {0, 2}
    BY <1>0, MoreIs
  <2> HIDE DEF more, m
  <2> QED
    BY <2>1, <2>2, <2>3
<1> HIDE DEF more, m
<1>8. e = d
  BY <1>7 DEF d
<1> HIDE DEF e
<1>9. FetchWebsocketInfo(b) = [fin |-> fin, opcode |-> opcode, payload |-> payload]
  <2>1. SubSeq(b, e + 1, e + m) = x /\ SubSeq(b, e - 3, e) = key
    BY <1>1, <1>7, <1>8
  <2>2. UnmaskPayloadData(SubSeq(b, e + 1, e + m), SubSeq(b, e - 3, e)) = payload
    BY <1>2, <2>1
  <2> QED
    BY <1>5, <1>6, <2>2
<1> QED
  BY <1>4, <1>9 DEF f

-----------------------------------------------------------------------------
(* WsCodec: Base64, three bytes and four signs at a time.                  *)

\* After i rounds of a loop that puts a code for each k signs of a text, q groups
\* are coded and the signs behind them are kept.
GroupedTo(text, i, ret, group, G, k, m, q) ==
  /\ Len(group) < k /\ i = k * q + Len(group)
  /\ \A j \in 1..Len(group) : group[j] = text[k * q + j]
  /\ Len(ret) = m * q
  /\ \A p \in 0..q - 1, j \in 1..m :
       ret[m * p + j] = G[[x \in 1..k |-> text[k * p + x]]][j]

\* One more of a number of groups.
LEMMA OneMore ==
  ASSUME NEW k \in Nat, NEW q \in Nat
  PROVE  k * q \in Nat /\ k * (q + 1) = k * q + k
  OBVIOUS

\* Groups in front of others.
LEMMA GroupsInFront ==
  ASSUME NEW m \in Nat, NEW q \in Nat, NEW p \in Nat, p < q, NEW j \in 1..m
  PROVE  m * p + j \in 1..m * q
<1>1. q - p - 1 \in Nat /\ m * (q - p - 1) \in Nat
  OBVIOUS
<1>2. m * q = m * p + m + m * (q - p - 1)
  OBVIOUS
<1>3. m * p \in Nat
  OBVIOUS
<1> DEFINE a == m * p
           b == m * (q - p - 1)
<1> HIDE DEF a, b
<1>4. a + j \in 1..(a + m + b)
  BY <1>1, <1>3 DEF a, b
<1> QED
  BY <1>2, <1>4 DEF a, b

\* A round that keeps a sign.
LEMMA SignIsKept ==
  ASSUME NEW A, NEW k \in Nat, k > 0, NEW text \in Seq(A),
         NEW i \in 1..Len(text), NEW group \in Seq(A), NEW q \in Nat,
         Len(group) < k, i - 1 = k * q + Len(group),
         \A j \in 1..Len(group) : group[j] = text[k * q + j]
  PROVE  /\ Append(group, text[i]) \in Seq(A)
         /\ Len(Append(group, text[i])) = Len(group) + 1
         /\ Len(group) \in 0..k - 1
         /\ i = k * q + Len(group) + 1
         /\ \A j \in 1..Len(group) + 1 : Append(group, text[i])[j] = text[k * q + j]
<1> DEFINE l == Len(group)
           more == Append(group, text[i])
           kq == k * q
<1>0. text[i] \in A
  BY ElementOfSeq
<1>1. l \in Nat
  OBVIOUS
<1>2. kq \in Nat
  BY OneMore
<1>3. /\ l < k /\ i - 1 = kq + l /\ \A j \in 1..l : group[j] = text[kq + j]
  OBVIOUS
<1>4. /\ more \in Seq(A) /\ Len(more) = l + 1
      /\ \A j \in 1..l : more[j] = group[j]
      /\ more[l + 1] = text[i]
  BY <1>0, AppendProperties
<1> HIDE DEF more, l, kq
<1>5. \A j \in 1..l + 1 : more[j] = text[kq + j]
  <2> TAKE j \in 1..l + 1
  <2>1. CASE j \in 1..l
    BY <1>3, <1>4, <2>1
  <2>2. CASE j = l + 1
    <3>1. kq + j = i
      BY <1>1, <1>2, <1>3, <2>2
    <3> QED
      BY <1>4, <2>2, <3>1
  <2> QED
    BY <1>1, <2>1, <2>2
<1>6. l \in 0..k - 1
  BY <1>1, <1>3
<1>7. i = kq + l + 1
  BY <1>1, <1>2, <1>3
<1>8. more \in Seq(A) /\ Len(more) = l + 1
  BY <1>4
<1> QED
  BY ONLY <1>5, <1>6, <1>7, <1>8, Zenon DEF more, l, kq

\* A round that completes no group.
LEMMA GroupGrows ==
  ASSUME NEW A, NEW k \in Nat, k > 0, NEW m, NEW text \in Seq(A), NEW G, NEW ret,
         NEW i \in 1..Len(text), NEW group \in Seq(A), NEW q \in Nat,
         GroupedTo(text, i - 1, ret, group, G, k, m, q), Len(group) # k - 1
  PROVE  GroupedTo(text, i, ret, Append(group, text[i]), G, k, m, q)
<1> DEFINE l == Len(group)
           more == Append(group, text[i])
<1>1. /\ Len(more) = l + 1 /\ l \in 0..k - 1 /\ i = k * q + l + 1
      /\ \A j \in 1..l + 1 : more[j] = text[k * q + j]
  <2>1. /\ Len(group) < k /\ i - 1 = k * q + Len(group)
        /\ \A j \in 1..Len(group) : group[j] = text[k * q + j]
    BY DEF GroupedTo
  <2> QED
    BY <2>1, SignIsKept
<1>2. /\ Len(ret) = m * q
      /\ \A p \in 0..q - 1, j \in 1..m :
           ret[m * p + j] = G[[x \in 1..k |-> text[k * p + x]]][j]
  BY DEF GroupedTo
<1>3. l # k - 1 /\ k * q \in Nat
  BY OneMore
<1> HIDE DEF more, l
<1>4. Len(more) < k /\ i = k * q + Len(more)
  BY <1>1, <1>3
<1>5. \A j \in 1..Len(more) : more[j] = text[k * q + j]
  BY <1>1
<1>6. GroupedTo(text, i, ret, more, G, k, m, q)
  BY <1>2, <1>4, <1>5 DEF GroupedTo
<1> QED
  BY <1>6 DEF more

\* A round that completes one.
LEMMA GroupEnds ==
  ASSUME NEW A, NEW B, NEW k \in Nat, k > 0, NEW m \in Nat, NEW text \in Seq(A),
         NEW G \in [[1..k -> A] -> Seq(B)], \A a \in [1..k -> A] : Len(G[a]) = m,
         NEW ret \in Seq(B), NEW i \in 1..Len(text), NEW group \in Seq(A), NEW q \in Nat,
         GroupedTo(text, i - 1, ret, group, G, k, m, q), Len(group) = k - 1
  PROVE  GroupedTo(text, i, ret \o G[Append(group, text[i])], << >>, G, k, m, q + 1)
<1> DEFINE more == Append(group, text[i])
           Out(p) == G[[x \in 1..k |-> text[k * p + x]]]
           mq == m * q
           code == G[more]
           all == ret \o code
<1>1. /\ more \in Seq(A) /\ Len(more) = k /\ i = k * q + k
      /\ \A j \in 1..k : more[j] = text[k * q + j]
  <2>1. /\ more \in Seq(A) /\ Len(more) = Len(group) + 1 /\ i = k * q + Len(group) + 1
        /\ \A j \in 1..Len(group) + 1 : more[j] = text[k * q + j]
    <3>1. /\ Len(group) < k /\ i - 1 = k * q + Len(group)
          /\ \A j \in 1..Len(group) : group[j] = text[k * q + j]
      BY DEF GroupedTo
    <3> QED
      BY <3>1, SignIsKept
  <2>2. Len(group) + 1 = k /\ k * q + Len(group) + 1 = k * q + k
    BY OneMore
  <2> HIDE DEF more
  <2> QED
    BY <2>1, <2>2
<1>2. Len(ret) = mq /\ \A p \in 0..q - 1, j \in 1..m : ret[m * p + j] = Out(p)[j]
  BY DEF GroupedTo
<1> HIDE DEF more
<1>3. more \in [1..k -> A] /\ more = [x \in 1..k |-> text[k * q + x]]
  BY <1>1, LenProperties
<1>4. code = Out(q)
  BY <1>3
<1>5. code \in Seq(B)
  BY <1>3
<1>6. Len(code) = m
  BY <1>3
<1>7. mq \in Nat /\ m * (q + 1) = mq + m /\ k * (q + 1) = k * q + k /\ k * q \in Nat
  BY OneMore
<1> HIDE DEF code, mq, Out
<1>8. Len(all) = mq + m
      /\ \A x \in 1..mq + m : all[x] = IF x <= mq THEN ret[x] ELSE code[x - mq]
  <2>1. /\ Len(all) = Len(ret) + Len(code)
        /\ \A x \in 1..Len(ret) + Len(code) :
             all[x] = IF x <= Len(ret) THEN ret[x] ELSE code[x - Len(ret)]
    BY <1>5, ConcatProperties
  <2> HIDE DEF all
  <2> QED
    BY <1>2, <1>6, <2>1
<1> HIDE DEF all
<1>9. ASSUME NEW p \in 0..q, NEW j \in 1..m PROVE all[m * p + j] = Out(p)[j]
  <2>1. CASE p < q
    <3> DEFINE x == m * p + j
    <3>1. p \in Nat
      OBVIOUS
    <3>2. x \in 1..mq
      BY <2>1, <3>1, GroupsInFront DEF mq
    <3> HIDE DEF x
    <3>3. x \in 1..mq + m /\ x <= mq
      BY <1>7, <3>2
    <3>4. all[x] = ret[x]
      BY <1>8, <3>3
    <3>5. p \in 0..q - 1
      BY <2>1
    <3>6. ret[m * p + j] = Out(p)[j]
      BY <1>2, <3>5
    <3> QED
      BY <3>4, <3>6 DEF x
  <2>2. CASE p = q
    <3> DEFINE x == mq + j
    <3>1. x \in 1..mq + m /\ ~(x <= mq) /\ x - mq = j
      BY <1>7
    <3> HIDE DEF x
    <3>2. all[x] = code[j]
      BY <1>8, <3>1
    <3> QED
      BY <1>4, <2>2, <3>2 DEF x, mq
  <2> QED
    BY <2>1, <2>2
<1>10. Len(<< >>) = 0 /\ 0 < k /\ i = k * (q + 1) + 0
  <2>1. k * q + k \in Int
    BY <1>7
  <2> QED
    BY <1>1, <1>7, <2>1
<1>11. q = (q + 1) - 1
  OBVIOUS
<1>12. GroupedTo(text, i, all, << >>, G, k, m, q + 1)
  <2> DEFINE r == q + 1
             none == << >>
  <2>1. Len(none) < k /\ i = k * r + Len(none) /\ 1..Len(none) = {}
    BY <1>10
  <2>2. Len(all) = m * r
    BY <1>7, <1>8
  <2>3. \A p \in 0..r - 1, j \in 1..m :
          all[m * p + j] = G[[x \in 1..k |-> text[k * p + x]]][j]
    BY <1>9, <1>11 DEF Out
  <2> HIDE DEF r, none
  <2>4. GroupedTo(text, i, all, none, G, k, m, r)
    BY <2>1, <2>2, <2>3 DEF GroupedTo
  <2> QED
    BY <2>4 DEF r, none
<1> QED
  BY <1>12 DEF all, code, more

\* All rounds of a loop with the states L.
LEMMA LoopOfGroups ==
  ASSUME NEW A, NEW B, NEW k \in Nat, k > 0, NEW m \in Nat, NEW text \in Seq(A),
         NEW G \in [[1..k -> A] -> Seq(B)], \A a \in [1..k -> A] : Len(G[a]) = m,
         NEW L, L[0].ret = << >>, L[0].group = << >>,
         \A i \in 1..Len(text) :
           LET more == Append(L[i - 1].group, text[i])
           IN  IF Len(L[i - 1].group) = k - 1
               THEN more \in [1..k -> A] =>
                      L[i].ret = L[i - 1].ret \o G[more] /\ L[i].group = << >>
               ELSE L[i].ret = L[i - 1].ret /\ L[i].group = more
  PROVE  LET s == L[Len(text)]
         IN  /\ s.ret \in Seq(B) /\ s.group \in Seq(A)
             /\ \E q \in Nat : GroupedTo(text, Len(text), s.ret, s.group, G, k, m, q)
<1> DEFINE n == Len(text)
           Good(i) == /\ L[i].ret \in Seq(B) /\ L[i].group \in Seq(A)
                      /\ \E q \in Nat : GroupedTo(text, i, L[i].ret, L[i].group, G, k, m, q)
           T == {i \in 0..n : Good(i)}
<1>0. n \in Nat
  OBVIOUS
<1>1. 0 \in T
  <2> DEFINE none == << >>
             q == 0
  <2>1. Len(none) < k /\ 0 = k * q + Len(none) /\ 1..Len(none) = {} /\ Len(none) = m * q
        /\ 0..q - 1 = {}
    OBVIOUS
  <2>2. none \in Seq(A) /\ none \in Seq(B) /\ q \in Nat
    OBVIOUS
  <2> HIDE DEF none, q
  <2>3. GroupedTo(text, 0, none, none, G, k, m, q)
    BY <2>1 DEF GroupedTo
  <2>4. L[0].ret = none /\ L[0].group = none
    BY DEF none
  <2> QED
    BY <1>0, <2>2, <2>3, <2>4
<1>2. ASSUME NEW i \in 1..n, i - 1 \in T PROVE i \in T
  <2> DEFINE ret == L[i - 1].ret
             group == L[i - 1].group
             more == Append(group, text[i])
  <2>1. ret \in Seq(B) /\ group \in Seq(A)
    BY <1>2
  <2>2. PICK q \in Nat : GroupedTo(text, i - 1, ret, group, G, k, m, q)
    BY <1>2
  <2>3. IF Len(group) = k - 1
        THEN more \in [1..k -> A] => L[i].ret = ret \o G[more] /\ L[i].group = << >>
        ELSE L[i].ret = ret /\ L[i].group = more
    OBVIOUS
  <2>4. more \in Seq(A) /\ Len(more) = Len(group) + 1
    <3>1. text[i] \in A
      BY ElementOfSeq
    <3> HIDE DEF group
    <3> QED
      BY <2>1, <3>1, AppendProperties
  <2>5. i \in 1..Len(text) /\ i \in 0..n
    BY <1>0
  <2> HIDE DEF ret, group
  <2>6. CASE Len(group) = k - 1
    <3>1. GroupedTo(text, i, ret \o G[more], << >>, G, k, m, q + 1) /\ q + 1 \in Nat
      <4>1. group \in Seq(A)
        BY <2>1
      <4>2. ret \in Seq(B)
        BY <2>1
      <4>3. GroupedTo(text, i, ret \o G[Append(group, text[i])], << >>, G, k, m, q + 1)
        BY <2>2, <2>5, <2>6, <4>1, <4>2, GroupEnds, Zenon
      <4> QED
        BY <4>3
    <3>2. more \in [1..k -> A]
      <4> HIDE DEF more
      <4>1. Len(more) = k
        BY <2>4, <2>6
      <4> QED
        BY <2>4, <4>1, LenProperties
    <3> HIDE DEF more
    <3>3. L[i].ret = ret \o G[more] /\ L[i].group = << >>
      BY <2>3, <2>6, <3>2
    <3>4. G[more] \in Seq(B)
      BY <3>2
    <3>5. ret \o G[more] \in Seq(B)
      <4> DEFINE code == G[more]
      <4> HIDE DEF code
      <4> QED
        BY <2>1, <3>4, ConcatProperties DEF code
    <3>6. << >> \in Seq(A)
      OBVIOUS
    <3>7. Good(i)
      BY <3>1, <3>3, <3>5, <3>6
    <3> QED
      BY <2>5, <3>7
  <2>7. CASE Len(group) # k - 1
    <3>1. GroupedTo(text, i, ret, more, G, k, m, q)
      BY <2>1, <2>2, <2>5, <2>7, GroupGrows
    <3> HIDE DEF more
    <3>2. L[i].ret = ret /\ L[i].group = more
      BY <2>3, <2>7
    <3>3. Good(i)
      BY <2>1, <2>4, <3>1, <3>2
    <3> QED
      BY <2>5, <3>3
  <2> QED
    BY <2>6, <2>7
<1>3. n \in T
  <2> HIDE DEF T, n
  <2>1. \A i \in 0..n : i \in T
    BY <1>0, <1>1, <1>2, UpTo
  <2> QED
    BY <1>0, <2>1
<1> QED
  BY <1>3

Sign == 0..63

Encoder == [a \in [1..3 -> Octet] |-> EncodeGroup(a)]
Decoder == [c \in [1..4 -> Sign] |-> DecodeGroup(c)]

\* What a group becomes.
LEMMA EncodedGroup ==
  ASSUME NEW a, a[1] \in Octet, a[2] \in Octet, a[3] \in Octet
  PROVE  EncodeGroup(a) \in Seq(Sign) /\ Len(EncodeGroup(a)) = 4
<1> DEFINE x == a[1]
           y == a[2]
           z == a[3]
<1>1. x \in 0..255 /\ y \in 0..255 /\ z \in 0..255
  BY DEF Octet
<1> HIDE DEF x, y, z
<1>2. x \div 4 \in Sign /\ (x % 4) * 16 + y \div 16 \in Sign
      /\ (y % 16) * 4 + z \div 64 \in Sign /\ z % 64 \in Sign
  BY <1>1 DEF Sign
<1>3. EncodeGroup(a) = <<x \div 4, (x % 4) * 16 + y \div 16, (y % 16) * 4 + z \div 64,
        z % 64>>
  BY DEF EncodeGroup, x, y, z
<1> DEFINE p == x \div 4
           q == (x % 4) * 16 + y \div 16
           r == (y % 16) * 4 + z \div 64
           t == z % 64
<1> HIDE DEF p, q, r, t
<1>4. <<p, q, r, t>> \in Seq(Sign) /\ Len(<<p, q, r, t>>) = 4
  BY <1>2 DEF p, q, r, t
<1> QED
  BY <1>3, <1>4 DEF p, q, r, t

\* Four signs make three bytes.
LEMMA DecodedGroup ==
  ASSUME NEW c, c[1] \in Octet, c[2] \in Octet, c[3] \in Octet, c[4] \in Octet
  PROVE  DecodeGroup(c) \in Seq(Octet) /\ Len(DecodeGroup(c)) = 3
<1> DEFINE x == c[1] * 4 + (c[2] % 64) \div 16
           y == (c[2] % 16) * 16 + (c[3] % 64) \div 4
           z == (c[3] % 4) * 64 + c[4]
<1>1. x \in Int /\ y \in Int /\ z \in Int
  <2>1. \A u, v \in Octet : /\ u * 4 + (v % 64) \div 16 \in Int
                         /\ (u % 16) * 16 + (v % 64) \div 4 \in Int
                         /\ (u % 4) * 64 + v \in Int
    BY DEF Octet
  <2> QED
    BY <2>1
<1>2. DecodeGroup(c) = <<x % 256, y % 256, z % 256>>
  BY DEF DecodeGroup
<1> HIDE DEF x, y, z
<1> DEFINE p == x % 256
           q == y % 256
           r == z % 256
<1>3. p \in Octet /\ q \in Octet /\ r \in Octet
  BY <1>1 DEF Octet
<1> HIDE DEF p, q, r
<1>4. <<p, q, r>> \in Seq(Octet) /\ Len(<<p, q, r>>) = 3
  BY <1>3
<1> QED
  BY <1>2, <1>4 DEF p, q, r

\* The EncodeLoop is one of groups of 3.
LEMMA EncodeLoopIs ==
  ASSUME NEW text \in Seq(Octet)
  PROVE  /\ EncodeLoop(text).ret \in Seq(Sign) /\ EncodeLoop(text).group \in Seq(Octet)
         /\ \E q \in Nat :
              GroupedTo(text, Len(text), EncodeLoop(text).ret, EncodeLoop(text).group,
                                     Encoder, 3, 4, q)
<1> DEFINE W == [ret : Seq(Sign), group : Seq(Octet)]
           n == Len(text)
           c == [ret |-> << >>, group |-> << >>]
           L[i \in 0..Len(text)] == IF i = 0 THEN c ELSE EncodeRound(L[i - 1], text[i])
           F == [i \in 1..n |-> [s \in W |-> EncodeRound(s, text[i])]]
<1>0. n \in Nat /\ c \in W /\ \A i \in 1..n : text[i] \in Octet
  OBVIOUS
<1>1. ASSUME NEW a \in [1..3 -> Octet]
      PROVE  EncodeGroup(a) \in Seq(Sign) /\ Len(EncodeGroup(a)) = 4
  <2>1. a[1] \in Octet /\ a[2] \in Octet /\ a[3] \in Octet
    BY DEF Sign, Octet
  <2> QED
    BY <2>1, EncodedGroup
<1>2. ASSUME NEW s \in W, NEW b \in Octet PROVE EncodeRound(s, b) \in W
  <2> DEFINE more == Append(s.group, b)
             code == EncodeGroup(more)
             ret == s.ret
             group == s.group
  <2>1. ret \in Seq(Sign) /\ group \in Seq(Octet)
    OBVIOUS
  <2> HIDE DEF ret, group
  <2>2. more \in Seq(Octet) /\ Len(more) = Len(group) + 1
    BY <2>1, AppendProperties DEF group
  <2>3. EncodeRound(s, b) = IF Len(group) = 2 THEN [ret |-> ret \o code, group |-> << >>]
                      ELSE [ret |-> ret, group |-> more]
    BY DEF EncodeRound, ret, group
  <2> HIDE DEF more
  <2>4. CASE Len(group) = 2
    <3>1. more \in [1..3 -> Octet]
      <4>1. Len(more) = 3
        BY <2>2, <2>4
      <4> QED
        BY <2>2, <4>1, LenProperties
    <3>2. code \in Seq(Sign)
      BY <1>1, <3>1
    <3> HIDE DEF code
    <3>3. ret \o code \in Seq(Sign)
      BY <2>1, <3>2, ConcatProperties
    <3> DEFINE all == ret \o code
    <3> HIDE DEF all
    <3>4. [ret |-> all, group |-> << >>] \in W
      BY <3>3 DEF all
    <3> QED
      BY <2>3, <2>4, <3>4, Zenon DEF all
  <2>5. CASE Len(group) # 2
    <3> HIDE DEF code
    <3>1. [ret |-> ret, group |-> more] \in W
      BY <2>1, <2>2
    <3> QED
      BY <2>3, <2>5, <3>1, Zenon
  <2> QED
    BY <2>4, <2>5
<1>3. PICK h \in [0..n -> W] : h[0] = c /\ \A i \in 1..n : h[i] = F[i][h[i - 1]]
  <2>1. F \in [1..n -> [W -> W]]
    <3> HIDE DEF W
    <3> QED
      BY <1>0, <1>2
  <2>2. n \in Nat
    BY <1>0
  <2>3. c \in W
    BY <1>0
  <2> HIDE DEF F, n, c, W
  <2> QED
    <3>1. PICK h : RunOf(h, W, c, n, F)
      BY ONLY <2>1, <2>2, <2>3, RunExists, Zenon
    <3> QED
      BY <3>1, Zenon DEF RunOf
<1> HIDE DEF W
<1>4. h = [i \in 0..n |-> IF i = 0 THEN c ELSE EncodeRound(h[i - 1], text[i])]
  <2>1. \A i \in 1..n : i - 1 \in 0..n /\ F[i][h[i - 1]] = EncodeRound(h[i - 1], text[i])
    BY <1>0
  <2> HIDE DEF F, c
  <2> QED
    BY <1>3, <2>1
<1>5. L = [i \in 0..n |-> IF i = 0 THEN c ELSE EncodeRound(L[i - 1], text[i])]
  BY <1>4 DEF L
<1>6. EncodeLoop(text) = L[n]
  BY DEF EncodeLoop
<1>7. L[0] = c /\ \A i \in 1..n : L[i] = EncodeRound(L[i - 1], text[i])
  <2> HIDE DEF L, c
  <2> QED
    BY <1>0, <1>5
<1> HIDE DEF L
<1>8. L[0].ret = << >> /\ L[0].group = << >>
  <2>1. c.ret = << >> /\ c.group = << >>
    OBVIOUS
  <2> HIDE DEF c
  <2> QED
    BY <1>7, <2>1
<1>9. ASSUME NEW i \in 1..n
      PROVE  LET more == Append(L[i - 1].group, text[i])
             IN  IF Len(L[i - 1].group) = 2
                 THEN more \in [1..3 -> Octet] =>
                        L[i].ret = L[i - 1].ret \o Encoder[more] /\ L[i].group = << >>
                 ELSE L[i].ret = L[i - 1].ret /\ L[i].group = more
  <2> DEFINE more == Append(L[i - 1].group, text[i])
             ret == L[i - 1].ret
             group == L[i - 1].group
             code == EncodeGroup(more)
  <2>1. L[i] = IF Len(group) = 2 THEN [ret |-> ret \o code, group |-> << >>]
               ELSE [ret |-> ret, group |-> more]
    BY <1>7 DEF EncodeRound
  <2>2. more \in [1..3 -> Octet] => code = Encoder[more]
    BY DEF Encoder
  <2> HIDE DEF more, ret, group, code
  <2>3. CASE Len(group) = 2
    <3> DEFINE all == ret \o code
    <3>1. L[i] = [ret |-> all, group |-> << >>]
      BY <2>1, <2>3, Zenon
    <3> HIDE DEF all
    <3>2. L[i].ret = all /\ L[i].group = << >>
      BY <3>1
    <3> QED
      BY <2>2, <2>3, <3>2, Zenon DEF more, ret, group, all
  <2>4. CASE Len(group) # 2
    <3>1. L[i] = [ret |-> ret, group |-> more]
      BY <2>1, <2>4, Zenon
    <3>2. L[i].ret = ret /\ L[i].group = more
      BY <3>1
    <3> QED
      BY <2>4, <3>2, Zenon DEF more, ret, group
  <2> QED
    BY <2>3, <2>4
<1>10. LET s == L[Len(text)]
       IN  /\ s.ret \in Seq(Sign) /\ s.group \in Seq(Octet)
           /\ \E q \in Nat : GroupedTo(text, Len(text), s.ret, s.group, Encoder, 3, 4, q)
  <2> DEFINE k == 3
             m == 4
             G == Encoder
  <2>1. k \in Nat /\ k > 0 /\ m \in Nat
    OBVIOUS
  <2>2. G \in [[1..k -> Octet] -> Seq(Sign)] /\ \A a \in [1..k -> Octet] : Len(G[a]) = m
    BY <1>1 DEF Encoder
  <2>3. k - 1 = 2
    OBVIOUS
  <2>4. \A i \in 1..Len(text) :
          LET more == Append(L[i - 1].group, text[i])
          IN  IF Len(L[i - 1].group) = k - 1
              THEN more \in [1..k -> Octet] =>
                     L[i].ret = L[i - 1].ret \o G[more] /\ L[i].group = << >>
              ELSE L[i].ret = L[i - 1].ret /\ L[i].group = more
    BY <1>9, <2>3
  <2> HIDE DEF k, m, G
  <2>5. LET s == L[Len(text)]
        IN  /\ s.ret \in Seq(Sign) /\ s.group \in Seq(Octet)
            /\ \E q \in Nat : GroupedTo(text, Len(text), s.ret, s.group, G, k, m, q)
    BY <1>8, <2>1, <2>2, <2>4, LoopOfGroups, Zenon
  <2> QED
    BY <2>5 DEF G, k, m
<1> QED
  BY <1>6, <1>10

\* The DecodeLoop is one of groups of 4.
LEMMA DecodeLoopIs ==
  ASSUME NEW text \in Seq(Sign)
  PROVE  /\ DecodeLoop(text).ret \in Seq(Octet) /\ DecodeLoop(text).group \in Seq(Sign)
         /\ \E q \in Nat :
              GroupedTo(text, Len(text), DecodeLoop(text).ret, DecodeLoop(text).group,
                                     Decoder, 4, 3, q)
<1> DEFINE W == [ret : Seq(Octet), group : Seq(Sign)]
           n == Len(text)
           c == [ret |-> << >>, group |-> << >>]
           L[i \in 0..Len(text)] == IF i = 0 THEN c ELSE DecodeRound(L[i - 1], text[i])
           F == [i \in 1..n |-> [s \in W |-> DecodeRound(s, text[i])]]
<1>0. n \in Nat /\ c \in W /\ \A i \in 1..n : text[i] \in Sign
  OBVIOUS
<1>1. ASSUME NEW a \in [1..4 -> Sign]
      PROVE  DecodeGroup(a) \in Seq(Octet) /\ Len(DecodeGroup(a)) = 3
  <2>1. a[1] \in Octet /\ a[2] \in Octet /\ a[3] \in Octet /\ a[4] \in Octet
    BY DEF Sign, Octet
  <2> QED
    BY <2>1, DecodedGroup
<1>2. ASSUME NEW s \in W, NEW b \in Sign PROVE DecodeRound(s, b) \in W
  <2> DEFINE more == Append(s.group, b)
             code == DecodeGroup(more)
             ret == s.ret
             group == s.group
  <2>1. ret \in Seq(Octet) /\ group \in Seq(Sign)
    OBVIOUS
  <2> HIDE DEF ret, group
  <2>2. more \in Seq(Sign) /\ Len(more) = Len(group) + 1
    BY <2>1, AppendProperties DEF group
  <2>3. DecodeRound(s, b) = IF Len(group) = 3 THEN [ret |-> ret \o code, group |-> << >>]
                      ELSE [ret |-> ret, group |-> more]
    BY DEF DecodeRound, ret, group
  <2> HIDE DEF more
  <2>4. CASE Len(group) = 3
    <3>1. more \in [1..4 -> Sign]
      <4>1. Len(more) = 4
        BY <2>2, <2>4
      <4> QED
        BY <2>2, <4>1, LenProperties
    <3>2. code \in Seq(Octet)
      BY <1>1, <3>1
    <3> HIDE DEF code
    <3>3. ret \o code \in Seq(Octet)
      BY <2>1, <3>2, ConcatProperties
    <3> DEFINE all == ret \o code
    <3> HIDE DEF all
    <3>4. [ret |-> all, group |-> << >>] \in W
      BY <3>3 DEF all
    <3> QED
      BY <2>3, <2>4, <3>4, Zenon DEF all
  <2>5. CASE Len(group) # 3
    <3> HIDE DEF code
    <3>1. [ret |-> ret, group |-> more] \in W
      BY <2>1, <2>2
    <3> QED
      BY <2>3, <2>5, <3>1, Zenon
  <2> QED
    BY <2>4, <2>5
<1>3. PICK h \in [0..n -> W] : h[0] = c /\ \A i \in 1..n : h[i] = F[i][h[i - 1]]
  <2>1. F \in [1..n -> [W -> W]]
    <3> HIDE DEF W
    <3> QED
      BY <1>0, <1>2
  <2>2. n \in Nat
    BY <1>0
  <2>3. c \in W
    BY <1>0
  <2> HIDE DEF F, n, c, W
  <2> QED
    <3>1. PICK h : RunOf(h, W, c, n, F)
      BY ONLY <2>1, <2>2, <2>3, RunExists, Zenon
    <3> QED
      BY <3>1, Zenon DEF RunOf
<1> HIDE DEF W
<1>4. h = [i \in 0..n |-> IF i = 0 THEN c ELSE DecodeRound(h[i - 1], text[i])]
  <2>1. \A i \in 1..n : i - 1 \in 0..n /\ F[i][h[i - 1]] = DecodeRound(h[i - 1], text[i])
    BY <1>0
  <2> HIDE DEF F, c
  <2> QED
    BY <1>3, <2>1
<1>5. L = [i \in 0..n |-> IF i = 0 THEN c ELSE DecodeRound(L[i - 1], text[i])]
  BY <1>4 DEF L
<1>6. DecodeLoop(text) = L[n]
  BY DEF DecodeLoop
<1>7. L[0] = c /\ \A i \in 1..n : L[i] = DecodeRound(L[i - 1], text[i])
  <2> HIDE DEF L, c
  <2> QED
    BY <1>0, <1>5
<1> HIDE DEF L
<1>8. L[0].ret = << >> /\ L[0].group = << >>
  <2>1. c.ret = << >> /\ c.group = << >>
    OBVIOUS
  <2> HIDE DEF c
  <2> QED
    BY <1>7, <2>1
<1>9. ASSUME NEW i \in 1..n
      PROVE  LET more == Append(L[i - 1].group, text[i])
             IN  IF Len(L[i - 1].group) = 3
                 THEN more \in [1..4 -> Sign] =>
                        L[i].ret = L[i - 1].ret \o Decoder[more] /\ L[i].group = << >>
                 ELSE L[i].ret = L[i - 1].ret /\ L[i].group = more
  <2> DEFINE more == Append(L[i - 1].group, text[i])
             ret == L[i - 1].ret
             group == L[i - 1].group
             code == DecodeGroup(more)
  <2>1. L[i] = IF Len(group) = 3 THEN [ret |-> ret \o code, group |-> << >>]
               ELSE [ret |-> ret, group |-> more]
    BY <1>7 DEF DecodeRound
  <2>2. more \in [1..4 -> Sign] => code = Decoder[more]
    BY DEF Decoder
  <2> HIDE DEF more, ret, group, code
  <2>3. CASE Len(group) = 3
    <3> DEFINE all == ret \o code
    <3>1. L[i] = [ret |-> all, group |-> << >>]
      BY <2>1, <2>3, Zenon
    <3> HIDE DEF all
    <3>2. L[i].ret = all /\ L[i].group = << >>
      BY <3>1
    <3> QED
      BY <2>2, <2>3, <3>2, Zenon DEF more, ret, group, all
  <2>4. CASE Len(group) # 3
    <3>1. L[i] = [ret |-> ret, group |-> more]
      BY <2>1, <2>4, Zenon
    <3>2. L[i].ret = ret /\ L[i].group = more
      BY <3>1
    <3> QED
      BY <2>4, <3>2, Zenon DEF more, ret, group
  <2> QED
    BY <2>3, <2>4
<1>10. LET s == L[Len(text)]
       IN  /\ s.ret \in Seq(Octet) /\ s.group \in Seq(Sign)
           /\ \E q \in Nat : GroupedTo(text, Len(text), s.ret, s.group, Decoder, 4, 3, q)
  <2> DEFINE k == 4
             m == 3
             G == Decoder
  <2>1. k \in Nat /\ k > 0 /\ m \in Nat
    OBVIOUS
  <2>2. G \in [[1..k -> Sign] -> Seq(Octet)] /\ \A a \in [1..k -> Sign] : Len(G[a]) = m
    BY <1>1 DEF Decoder
  <2>3. k - 1 = 3
    OBVIOUS
  <2>4. \A i \in 1..Len(text) :
          LET more == Append(L[i - 1].group, text[i])
          IN  IF Len(L[i - 1].group) = k - 1
              THEN more \in [1..k -> Sign] =>
                     L[i].ret = L[i - 1].ret \o G[more] /\ L[i].group = << >>
              ELSE L[i].ret = L[i - 1].ret /\ L[i].group = more
    BY <1>9, <2>3
  <2> HIDE DEF k, m, G
  <2>5. LET s == L[Len(text)]
        IN  /\ s.ret \in Seq(Octet) /\ s.group \in Seq(Sign)
            /\ \E q \in Nat : GroupedTo(text, Len(text), s.ret, s.group, G, k, m, q)
    BY <1>8, <2>1, <2>2, <2>4, LoopOfGroups, Zenon
  <2> QED
    BY <2>5 DEF G, k, m
<1> QED
  BY <1>6, <1>10

\* A group of bytes comes back.
LEMMA GroupComesBack ==
  ASSUME NEW a, a[1] \in Octet, a[2] \in Octet, a[3] \in Octet, NEW c,
         NEW e, e = EncodeGroup(a)
  PROVE  /\ c[1] = e[1] /\ c[2] = e[2] => DecodeGroup(c)[1] = a[1]
         /\ c[2] = e[2] /\ c[3] = e[3] => DecodeGroup(c)[2] = a[2]
         /\ c[3] = e[3] /\ c[4] = e[4] => DecodeGroup(c)[3] = a[3]
<1> DEFINE x == a[1]
           y == a[2]
           z == a[3]
           p == x \div 4
           q == (x % 4) * 16 + y \div 16
           r == (y % 16) * 4 + z \div 64
           s == z % 64
<1>0. x \in 0..255 /\ y \in 0..255 /\ z \in 0..255
  BY DEF Octet
<1>2. e[1] = p /\ e[2] = q /\ e[3] = r /\ e[4] = s
  BY DEF EncodeGroup
<1>3. /\ DecodeGroup(c)[1] = (c[1] * 4 + (c[2] % 64) \div 16) % 256
      /\ DecodeGroup(c)[2] = ((c[2] % 16) * 16 + (c[3] % 64) \div 4) % 256
      /\ DecodeGroup(c)[3] = ((c[3] % 4) * 64 + c[4]) % 256
  BY DEF DecodeGroup
<1> HIDE DEF x, y, z
<1>4. /\ (p * 4 + (q % 64) \div 16) % 256 = x
      /\ ((q % 16) * 16 + (r % 64) \div 4) % 256 = y
      /\ ((r % 4) * 64 + s) % 256 = z
  <2>1. q % 64 = q /\ q \div 16 = x % 4 /\ q % 16 = y \div 16
    BY <1>0
  <2>2. r % 64 = r /\ r \div 4 = y % 16 /\ r % 4 = z \div 64
    BY <1>0
  <2>3. (p * 4 + (x % 4)) % 256 = x
    BY <1>0
  <2>4. ((y \div 16) * 16 + (y % 16)) % 256 = y
    BY <1>0
  <2>5. ((z \div 64) * 64 + s) % 256 = z
    BY <1>0
  <2> HIDE DEF p, q, r, s
  <2> QED
    BY <2>1, <2>2, <2>3, <2>4, <2>5
<1> HIDE DEF p, q, r, s
<1>5. c[1] = e[1] /\ c[2] = e[2] => DecodeGroup(c)[1] = x
  BY <1>2, <1>3, <1>4, Zenon
<1>6. c[2] = e[2] /\ c[3] = e[3] => DecodeGroup(c)[2] = y
  BY <1>2, <1>3, <1>4, Zenon
<1>7. c[3] = e[3] /\ c[4] = e[4] => DecodeGroup(c)[3] = z
  BY <1>2, <1>3, <1>4, Zenon
<1> QED
  BY <1>5, <1>6, <1>7, Zenon DEF x, y, z

\* A last group that is not full is filled up for both, and comes back.
LEMMA LastGroup ==
  ASSUME NEW group \in Seq(Octet), Len(group) \in 1..2
  PROVE  /\ EncodeRest(group) \in Seq(Sign) /\ Len(EncodeRest(group)) = Len(group) + 1
         /\ DecodeRest(EncodeRest(group)) = group
<1> DEFINE r == Len(group)
           zeros == [j \in 1..(3 - r) |-> 0]
           a == group \o zeros
           e == EncodeGroup(a)
           tail == SubSeq(e, 1, r + 1)
           ones == [j \in 1..(4 - (r + 1)) |-> 255]
           c == tail \o ones
           d == DecodeGroup(c)
           back == SubSeq(d, 1, r)
<1>0. r \in 1..2 /\ Len(group) = r
  OBVIOUS
<1>00. EncodeRest(group) = tail
  BY DEF EncodeRest
<1> HIDE DEF r
<1>1. zeros \in Seq(Octet) /\ Len(zeros) = 3 - r
  BY <1>0 DEF Octet
<1>2. ones \in Seq(Octet) /\ Len(ones) = 3 - r
  BY <1>0 DEF Octet
<1> HIDE DEF zeros, ones
<1>3. /\ a \in Seq(Octet) /\ Len(a) = 3 /\ \A i \in 1..r : a[i] = group[i]
      /\ a[1] \in Octet /\ a[2] \in Octet /\ a[3] \in Octet
  <2>1. /\ a \in Seq(Octet) /\ Len(a) = Len(group) + Len(zeros)
        /\ \A i \in 1..Len(group) + Len(zeros) :
             a[i] = IF i <= Len(group) THEN group[i] ELSE zeros[i - Len(group)]
    BY <1>1, ConcatProperties
  <2> HIDE DEF a
  <2>2. Len(a) = 3
    BY <1>0, <1>1, <2>1
  <2>3. \A i \in 1..r : a[i] = group[i]
    BY <1>0, <1>1, <2>1
  <2>4. \A i \in 1..3 : a[i] \in Octet
    BY <2>1, <2>2, ElementOfSeq
  <2>5. a[1] \in Octet /\ a[2] \in Octet /\ a[3] \in Octet
    BY <2>4
  <2> QED
    BY <2>1, <2>2, <2>3, <2>5, Zenon
<1> HIDE DEF a
<1>4. e \in Seq(Sign) /\ Len(e) = 4
  BY <1>3, EncodedGroup
<1> HIDE DEF e
<1>5. tail \in Seq(Sign) /\ Len(tail) = r + 1 /\ \A i \in 1..r + 1 : tail[i] = e[i]
  <2> DEFINE m == 1
             k == r + 1
  <2>1. m \in Nat /\ k \in Nat /\ 1 <= m /\ m <= k + 1 /\ k <= Len(e) /\ k - m + 1 = r + 1
    BY <1>0, <1>4
  <2>2. \A i \in 1..r + 1 : m + i - 1 = i
    BY <1>0
  <2> HIDE DEF m, k
  <2>3. /\ SubSeq(e, m, k) \in Seq(Sign) /\ Len(SubSeq(e, m, k)) = k - m + 1
        /\ \A i \in 1..k - m + 1 : SubSeq(e, m, k)[i] = e[m + i - 1]
    BY <1>4, <2>1, SliceIs
  <2> DEFINE t == SubSeq(e, m, k)
  <2>4. tail = t
    BY DEF m, k
  <2> HIDE DEF t, tail
  <2> QED
    BY <2>1, <2>2, <2>3, <2>4 DEF t
<1> HIDE DEF tail
<1>6. tail \in Seq(Octet)
  <2>1. Sign \subseteq Octet
    BY DEF Sign, Octet
  <2> QED
    BY <1>5, <2>1, SeqMonotonic
<1>7. /\ c \in Seq(Octet) /\ Len(c) = 4 /\ \A i \in 1..r + 1 : c[i] = e[i]
      /\ c[1] \in Octet /\ c[2] \in Octet /\ c[3] \in Octet /\ c[4] \in Octet
  <2>1. /\ c \in Seq(Octet) /\ Len(c) = Len(tail) + Len(ones)
        /\ \A i \in 1..Len(tail) + Len(ones) :
             c[i] = IF i <= Len(tail) THEN tail[i] ELSE ones[i - Len(tail)]
    BY <1>2, <1>6, ConcatProperties
  <2> HIDE DEF c
  <2>2. Len(c) = 4
    BY <1>0, <1>2, <1>5, <2>1
  <2>3. \A i \in 1..r + 1 : c[i] = e[i]
    BY <1>0, <1>2, <1>5, <2>1
  <2>4. \A i \in 1..4 : c[i] \in Octet
    BY <2>1, <2>2, ElementOfSeq
  <2>5. c[1] \in Octet /\ c[2] \in Octet /\ c[3] \in Octet /\ c[4] \in Octet
    BY <2>4
  <2> QED
    BY <2>1, <2>2, <2>3, <2>5, Zenon
<1> HIDE DEF c
<1>8. d \in Seq(Octet) /\ Len(d) = 3
  BY <1>7, DecodedGroup
<1>9. \A i \in 1..r : d[i] = a[i]
  <2>1. /\ c[1] = e[1] /\ c[2] = e[2] => d[1] = a[1]
        /\ c[2] = e[2] /\ c[3] = e[3] => d[2] = a[2]
    BY <1>3, GroupComesBack DEF e
  <2> HIDE DEF d
  <2>2. CASE r = 1
    <3>1. c[1] = e[1] /\ c[2] = e[2] /\ 1..r = {1}
      BY <1>7, <2>2
    <3> QED
      BY <2>1, <3>1
  <2>3. CASE r = 2
    <3>1. c[1] = e[1] /\ c[2] = e[2] /\ c[3] = e[3] /\ 1..r = {1, 2}
      BY <1>7, <2>3
    <3> QED
      BY <2>1, <3>1
  <2> QED
    BY <1>0, <2>2, <2>3
<1> HIDE DEF d
<1>10. back \in Seq(Octet) /\ Len(back) = r /\ \A i \in 1..r : back[i] = d[i]
  <2> DEFINE m == 1
  <2>1. m \in Nat /\ r \in Nat /\ 1 <= m /\ m <= r + 1 /\ r <= Len(d) /\ r - m + 1 = r
    BY <1>0, <1>8
  <2>2. \A i \in 1..r : m + i - 1 = i
    BY <1>0
  <2> HIDE DEF m
  <2>3. /\ SubSeq(d, m, r) \in Seq(Octet) /\ Len(SubSeq(d, m, r)) = r - m + 1
        /\ \A i \in 1..r - m + 1 : SubSeq(d, m, r)[i] = d[m + i - 1]
    BY <1>8, <2>1, SliceIs
  <2> DEFINE t == SubSeq(d, m, r)
  <2>4. back = t
    BY DEF m
  <2> HIDE DEF t, back
  <2> QED
    BY <2>1, <2>2, <2>3, <2>4 DEF t
<1> HIDE DEF back
<1>11. back = group
  <2>1. \A i \in 1..Len(back) : back[i] = group[i]
    BY <1>3, <1>9, <1>10
  <2> QED
    BY <1>0, <1>10, <2>1, SeqEqual
<1>12. DecodeRest(tail) = back
  <2>1. Len(tail) = r + 1 /\ (r + 1) - 1 = r
    BY <1>0, <1>5
  <2> HIDE DEF tail
  <2>2. SubSeq(DecodeGroup(tail \o [j \in 1..(4 - Len(tail)) |-> 255]), 1, Len(tail) - 1) =
          back
    BY <2>1, Zenon DEF back, d, c, ones
  <2> QED
    BY <2>2 DEF DecodeRest
<1> QED
  BY <1>0, <1>00, <1>5, <1>11, <1>12

\* The characters in front of the signs that fill the last group.
LEMMA ReadableIs ==
  ASSUME NEW head \in Seq(Sign), NEW n \in Nat, NEW text \in Seq(0..64),
         Len(text) = Len(head) + n,
         \A i \in 1..Len(text) : text[i] = IF i <= Len(head) THEN head[i] ELSE Fill
  PROVE  Readable(text) = head
<1> DEFINE l == Len(head)
           I == {i \in 1..Len(text) : text[i] = Fill}
           end == SelectInSeq(text, LAMBDA c : c = Fill)
<1>0. l \in Nat /\ Len(text) = l + n /\ \A i \in 1..l : head[i] # Fill
  <2>1. \A i \in 1..l : head[i] \in Sign
    BY ElementOfSeq
  <2>2. \A c \in Sign : c # Fill
    BY DEF Sign, Fill
  <2>3. l \in Nat /\ Len(text) = l + n
    OBVIOUS
  <2> HIDE DEF l
  <2> QED
    BY <2>1, <2>2, <2>3
<1>1. end = IF I # {} THEN Min(I) ELSE 0
  BY DEF SelectInSeq
<1> HIDE DEF l
<1>2. \A i \in 1..l + n : i \in I <=> i > l
  BY <1>0 DEF l
<1>3. CASE n = 0
  <2>1. I = {}
    BY <1>0, <1>2, <1>3
  <2>2. end = 0
    BY <1>1, <2>1
  <2>3. text = head
    <3>1. Len(text) = Len(head) /\ \A i \in 1..Len(text) : text[i] = head[i]
      BY <1>0, <1>3 DEF l
    <3>2. head \in Seq(0..64)
      <4>1. Sign \subseteq 0..64
        BY DEF Sign
      <4> QED
        BY <4>1, SeqMonotonic
    <3> QED
      BY <3>1, <3>2, SeqEqual
  <2> HIDE DEF end
  <2> QED
    BY <2>2, <2>3 DEF Readable, end
<1>4. CASE n # 0
  <2>1. l + 1 \in I
    BY <1>0, <1>2, <1>4
  <2>2. Min(I) = l + 1
    <3>1. I \subseteq Nat /\ I # {} /\ \A i \in I : i >= l + 1
      BY <1>0, <1>2, <2>1
    <3> HIDE DEF I
    <3> DEFINE m == Min(I)
    <3>2. m \in I /\ \A y \in I : m <= y
      BY <3>1, LeastIs
    <3> HIDE DEF m
    <3>3. m \in Nat /\ m >= l + 1 /\ m <= l + 1
      BY <2>1, <3>1, <3>2
    <3>4. m = l + 1
      BY <1>0, <3>3
    <3> QED
      BY <3>4 DEF m
  <2>3. end = l + 1
    BY <1>1, <2>1, <2>2
  <2> HIDE DEF end, I
  <2>4. SubSeq(text, 1, l) = head
    <3> DEFINE m == 1
               t == SubSeq(text, m, l)
    <3>1. m \in Nat /\ 1 <= m /\ m <= l + 1 /\ l <= Len(text) /\ l - m + 1 = l
          /\ \A i \in 1..l : m + i - 1 = i
      BY <1>0
    <3> HIDE DEF m
    <3>2. /\ t \in Seq(0..64) /\ Len(t) = l - m + 1
          /\ \A i \in 1..l - m + 1 : t[i] = text[m + i - 1]
      BY <1>0, <3>1, SliceIs, ZenonT(30)
    <3> HIDE DEF t
    <3>3. Len(t) = l /\ \A i \in 1..l : t[i] = text[i]
      BY <3>1, <3>2
    <3>4. \A i \in 1..l : i \in 1..Len(text) /\ i <= l
      BY <1>0
    <3>5. \A i \in 1..Len(t) : t[i] = head[i]
      BY <3>3, <3>4 DEF l
    <3>6. head \in Seq(0..64)
      <4>1. Sign \subseteq 0..64
        BY DEF Sign
      <4> QED
        BY <4>1, SeqMonotonic
    <3>7. t = head
      BY <3>2, <3>3, <3>5, <3>6, SeqEqual DEF l
    <3> QED
      BY <3>7 DEF t, m
  <2>5. end # 0 /\ end - 1 = l
    BY <1>0, <2>3
  <2> QED
    BY <2>4, <2>5 DEF Readable, end
<1> QED
  BY <1>3, <1>4

\* What is encoded: whole groups of four, then that of the bytes that are left.
EncodedTo(bytes, head, group, q) ==
  /\ Len(group) < 3 /\ Len(bytes) = 3 * q + Len(group)
  /\ \A j \in 1..Len(group) : group[j] = bytes[3 * q + j]
  /\ Len(head) = 4 * q + (IF Len(group) = 0 THEN 0 ELSE Len(group) + 1)
  /\ \A p \in 0..q - 1, j \in 1..4 :
       head[4 * p + j] = EncodeGroup([x \in 1..3 |-> bytes[3 * p + x]])[j]
  /\ \A j \in 1..Len(head) - 4 * q : head[4 * q + j] = EncodeRest(group)[j]

\* Base64 text is of whole groups, and readable up to the signs that fill it.
LEMMA EncodedText ==
  ASSUME NEW bytes \in Seq(Octet)
  PROVE  /\ Len(Base64Encode(bytes)) % 4 = 0
         /\ \E head \in Seq(Sign), group \in Seq(Octet), q \in Nat :
              /\ Readable(Base64Encode(bytes)) = head
              /\ EncodedTo(bytes, head, group, q)
<1> DEFINE s == EncodeLoop(bytes)
           ret == s.ret
           group == s.group
           l == Len(group)
           tail == EncodeRest(group)
           fill == [j \in 1..(3 - l) |-> Fill]
           text == Base64Encode(bytes)
<1>1. ret \in Seq(Sign) /\ group \in Seq(Octet)
  BY EncodeLoopIs
<1>2. PICK q \in Nat : GroupedTo(bytes, Len(bytes), ret, group, Encoder, 3, 4, q)
  BY EncodeLoopIs
<1>3. text = IF group = << >> THEN ret ELSE ret \o tail \o fill
  BY DEF Base64Encode
<1> HIDE DEF s, ret, group
<1>4. /\ l \in 0..2 /\ Len(bytes) = 3 * q + l
      /\ \A j \in 1..l : group[j] = bytes[3 * q + j]
      /\ Len(ret) = 4 * q
  <2>1. l \in Nat
    BY <1>1
  <2>2. /\ l < 3 /\ Len(bytes) = 3 * q + l
        /\ \A j \in 1..l : group[j] = bytes[3 * q + j]
        /\ Len(ret) = 4 * q
    BY <1>2 DEF GroupedTo
  <2> HIDE DEF l
  <2> QED
    BY <2>1, <2>2
<1>5. \A p \in 0..q - 1, j \in 1..4 :
        ret[4 * p + j] = EncodeGroup([x \in 1..3 |-> bytes[3 * p + x]])[j]
  <2> TAKE p \in 0..q - 1, j \in 1..4
  <2> DEFINE a == [x \in 1..3 |-> bytes[3 * p + x]]
  <2>1. ret[4 * p + j] = Encoder[a][j]
    BY <1>2 DEF GroupedTo
  <2>2. a \in [1..3 -> Octet]
    <3>1. \A x \in 1..3 : 3 * p + x \in 1..Len(bytes)
      BY <1>4
    <3>2. \A x \in 1..3 : bytes[3 * p + x] \in Octet
      BY <3>1, ElementOfSeq
    <3> QED
      BY <3>2
  <2> HIDE DEF a
  <2>3. Encoder[a] = EncodeGroup(a)
    BY <2>2 DEF Encoder
  <2> QED
    BY <2>1, <2>3 DEF a
<1>6. CASE l = 0
  <2>1. group = << >>
    BY <1>1, <1>6
  <2>2. text = ret
    BY <1>3, <2>1
  <2>3. EncodedTo(bytes, ret, group, q)
    BY <1>4, <1>5, <1>6 DEF EncodedTo
  <2>4. Readable(ret) = ret
    <3> DEFINE n == 0
    <3>1. n \in Nat /\ Len(ret) = Len(ret) + n
          /\ \A i \in 1..Len(ret) : ret[i] = IF i <= Len(ret) THEN ret[i] ELSE Fill
      BY <1>1
    <3>2. ret \in Seq(0..64)
      <4>1. Sign \subseteq 0..64
        BY DEF Sign
      <4> QED
        BY <1>1, <4>1, SeqMonotonic
    <3> HIDE DEF n
    <3> QED
      BY <1>1, <3>1, <3>2, ReadableIs
  <2>5. Len(text) % 4 = 0
    BY <1>4, <2>2
  <2> QED
    BY <1>1, <2>2, <2>3, <2>4, <2>5
<1>7. CASE l # 0
  <2> DEFINE head == ret \o tail
  <2>0. l \in 1..2
    BY <1>4, <1>7
  <2>1. text = head \o fill
    <3>1. group # << >>
      BY <1>7
    <3> HIDE DEF fill, tail
    <3> QED
      BY <1>3, <3>1, Zenon
  <2>2. tail \in Seq(Sign) /\ Len(tail) = l + 1
    BY <1>1, <2>0, LastGroup
  <2>3. fill \in Seq(0..64) /\ Len(fill) = 3 - l /\ \A j \in 1..3 - l : fill[j] = Fill
    <3> HIDE DEF l
    <3> DEFINE k == 3 - l
               w == [j \in 1..k |-> Fill]
    <3>1. k \in Nat
      BY <2>0
    <3>2. Fill \in 0..64
      BY DEF Fill
    <3>3. fill = w
      OBVIOUS
    <3> HIDE DEF k, fill
    <3>4. w \in Seq(0..64) /\ Len(w) = k /\ \A j \in 1..k : w[j] = Fill
      BY <3>1, <3>2
    <3> HIDE DEF w
    <3> QED
      BY <3>3, <3>4 DEF k
  <2> HIDE DEF tail, fill, text
  <2>4. /\ head \in Seq(Sign) /\ Len(head) = 4 * q + (l + 1)
        /\ \A i \in 1..4 * q + (l + 1) :
             head[i] = IF i <= 4 * q THEN ret[i] ELSE tail[i - 4 * q]
    <3>1. /\ head \in Seq(Sign) /\ Len(head) = Len(ret) + Len(tail)
          /\ \A i \in 1..Len(ret) + Len(tail) :
               head[i] = IF i <= Len(ret) THEN ret[i] ELSE tail[i - Len(ret)]
      BY <1>1, <2>2, ConcatProperties
    <3> HIDE DEF head
    <3>2. Len(ret) = 4 * q /\ Len(tail) = l + 1
      BY <1>4, <2>2
    <3> QED
      BY <3>1, <3>2
  <2> HIDE DEF head
  <2>5. head \in Seq(0..64)
    <3>1. Sign \subseteq 0..64
      BY DEF Sign
    <3> QED
      BY <2>4, <3>1, SeqMonotonic
  <2>6. /\ text \in Seq(0..64) /\ Len(text) = Len(head) + (3 - l)
        /\ \A i \in 1..Len(text) : text[i] = IF i <= Len(head) THEN head[i] ELSE Fill
    <3> DEFINE t == head \o fill
    <3>1. /\ t \in Seq(0..64) /\ Len(t) = Len(head) + Len(fill)
          /\ \A i \in 1..Len(head) + Len(fill) :
               t[i] = IF i <= Len(head) THEN head[i] ELSE fill[i - Len(head)]
      BY <2>3, <2>5, ConcatProperties
    <3>2. text = t
      BY <2>1
    <3> HIDE DEF t
    <3>3. Len(head) \in Nat
      BY <2>4, LenProperties
    <3> HIDE DEF l
    <3>4. Len(t) = Len(head) + (3 - l) /\ 3 - l \in Nat
      BY <2>0, <2>3, <3>1
    <3>5. \A i \in 1..Len(t) : ~(i <= Len(head)) => i - Len(head) \in 1..3 - l
      BY <3>3, <3>4
    <3> QED
      BY <2>3, <3>1, <3>2, <3>4, <3>5
  <2>7. Readable(text) = head
    <3> DEFINE n == 3 - l
    <3>1. n \in Nat
      <4> HIDE DEF l
      <4> QED
        BY <2>0
    <3>2. Len(text) = Len(head) + n
      BY <2>6
    <3> HIDE DEF n
    <3> QED
      BY <2>4, <2>6, <3>1, <3>2, ReadableIs
  <2>8. Len(text) % 4 = 0
    <3> HIDE DEF l
    <3>1. Len(text) = 4 * (q + 1)
      BY <2>0, <2>4, <2>6
    <3> QED
      BY <3>1
  <2>9. EncodedTo(bytes, head, group, q)
    <3>1. \A p \in 0..q - 1, j \in 1..4 : 4 * p + j \in 1..4 * q /\ 4 * p + j <= 4 * q
      OBVIOUS
    <3>2. \A i \in 1..4 * q : head[i] = ret[i]
      BY <2>0, <2>4
    <3>3. \A p \in 0..q - 1, j \in 1..4 :
            head[4 * p + j] = EncodeGroup([x \in 1..3 |-> bytes[3 * p + x]])[j]
      BY <1>5, <3>1, <3>2
    <3>4. \A j \in 1..l + 1 : head[4 * q + j] = tail[j]
      <4> TAKE j \in 1..l + 1
      <4> DEFINE i == 4 * q + j
      <4>1. i \in 1..4 * q + (l + 1) /\ ~(i <= 4 * q) /\ i - 4 * q = j
        BY <2>0
      <4> HIDE DEF i
      <4>2. head[i] = tail[j]
        BY <2>4, <4>1
      <4> QED
        BY <4>2 DEF i
    <3>5. Len(head) - 4 * q = l + 1
      BY <2>0, <2>4
    <3>6. /\ l < 3 /\ Len(bytes) = 3 * q + l /\ \A j \in 1..l : group[j] = bytes[3 * q + j]
          /\ Len(head) = 4 * q + (IF l = 0 THEN 0 ELSE l + 1)
      <4>1. l < 3
        <5> HIDE DEF l
        <5> QED
          BY <2>0
      <4> HIDE DEF l
      <4> QED
        BY <1>4, <1>7, <2>4, <4>1
    <3> QED
      BY <3>3, <3>4, <3>5, <3>6, Zenon DEF EncodedTo, tail
  <2> QED
    BY <1>1, <2>4, <2>7, <2>8, <2>9 DEF text
<1> QED
  BY <1>6, <1>7

\* Text that was encoded can be turned back.
LEMMA TextComesBack ==
  ASSUME NEW bytes \in Seq(Octet)
  PROVE  DecodesWhatWasEncoded(bytes)
<1> DEFINE text == Base64Encode(bytes)
<1>1. PICK head \in Seq(Sign), group \in Seq(Octet), q \in Nat :
        Readable(text) = head /\ EncodedTo(bytes, head, group, q)
  BY EncodedText
<1> DEFINE s == DecodeLoop(head)
           ret == s.ret
           final == s.group
           l == Len(group)
           back == IF final = << >> THEN ret ELSE ret \o DecodeRest(final)
<1>2. Base64Decode(text) = back
  BY <1>1 DEF Base64Decode
<1>3. ret \in Seq(Octet) /\ final \in Seq(Sign)
  BY DecodeLoopIs
<1>4. PICK r \in Nat : GroupedTo(head, Len(head), ret, final, Decoder, 4, 3, r)
  BY DecodeLoopIs
<1> HIDE DEF s, ret, final, text
<1>5. /\ l \in 0..2 /\ Len(bytes) = 3 * q + l
      /\ \A j \in 1..l : group[j] = bytes[3 * q + j]
      /\ Len(head) = 4 * q + (IF l = 0 THEN 0 ELSE l + 1)
      /\ \A p \in 0..q - 1, j \in 1..4 :
           head[4 * p + j] = EncodeGroup([x \in 1..3 |-> bytes[3 * p + x]])[j]
      /\ \A j \in 1..Len(head) - 4 * q : head[4 * q + j] = EncodeRest(group)[j]
  <2>1. l \in Nat
    OBVIOUS
  <2>2. l < 3
    BY <1>1 DEF EncodedTo
  <2>3. l \in 0..2
    <3> HIDE DEF l
    <3> QED
      BY <2>1, <2>2
  <2> QED
    BY <1>1, <2>3, Zenon DEF EncodedTo
<1>6. /\ Len(final) < 4 /\ Len(final) \in Nat /\ Len(head) = 4 * r + Len(final)
      /\ \A j \in 1..Len(final) : final[j] = head[4 * r + j]
      /\ Len(ret) = 3 * r
      /\ \A p \in 0..r - 1, j \in 1..3 :
           ret[3 * p + j] = Decoder[[x \in 1..4 |-> head[4 * p + x]]][j]
  <2>1. Len(final) \in Nat
    BY <1>3
  <2> QED
    BY <1>4, <2>1, Zenon DEF GroupedTo
<1> HIDE DEF l
<1>7. r = q /\ Len(final) = IF l = 0 THEN 0 ELSE l + 1
  <2> DEFINE k == IF l = 0 THEN 0 ELSE l + 1
             m == Len(final)
  <2>1. k \in 0..3 /\ m \in 0..3 /\ 4 * q + k = 4 * r + m
    <3>1. k \in 0..3
      BY <1>5
    <3>2. m \in 0..3
      <4>1. m < 4 /\ m \in Nat
        BY <1>6
      <4> HIDE DEF m
      <4> QED
        BY <4>1
    <3>3. Len(head) = 4 * q + k /\ Len(head) = 4 * r + m
      BY <1>5, <1>6
    <3> QED
      BY <3>1, <3>2, <3>3
  <2> HIDE DEF k, m
  <2>2. r = q /\ m = k
    BY <2>1
  <2> QED
    BY <2>2 DEF k, m
<1>8. ASSUME NEW p \in 0..q - 1, NEW j \in 1..3 PROVE ret[3 * p + j] = bytes[3 * p + j]
  <2> DEFINE a == [x \in 1..3 |-> bytes[3 * p + x]]
             c == [x \in 1..4 |-> head[4 * p + x]]
             e == EncodeGroup(a)
  <2>1. a[1] \in Octet /\ a[2] \in Octet /\ a[3] \in Octet
    <3>1. \A x \in 1..3 : 3 * p + x \in 1..Len(bytes)
      BY <1>5
    <3>2. \A x \in 1..3 : bytes[3 * p + x] \in Octet
      BY <3>1, ElementOfSeq
    <3>3. \A x \in 1..3 : a[x] \in Octet
      BY <3>2
    <3> HIDE DEF a
    <3> QED
      BY <3>3
  <2>2. c[1] = e[1] /\ c[2] = e[2] /\ c[3] = e[3] /\ c[4] = e[4]
    <3>1. \A x \in 1..4 : c[x] = e[x]
      BY <1>5
    <3> HIDE DEF c, e
    <3> QED
      BY <3>1
  <2>3. c \in [1..4 -> Sign]
    <3>1. \A x \in 1..4 : 4 * p + x \in 1..Len(head)
      <4>1. Len(head) >= 4 * q
        BY <1>5
      <4>2. Len(head) \in Nat
        OBVIOUS
      <4> QED
        BY <4>1, <4>2
    <3>2. \A x \in 1..4 : head[4 * p + x] \in Sign
      BY <3>1, ElementOfSeq
    <3> QED
      BY <3>2
  <2>4. a[j] = bytes[3 * p + j]
    OBVIOUS
  <2>5. ret[3 * p + j] = Decoder[c][j]
    BY <1>6, <1>7
  <2> HIDE DEF a, c
  <2>6. Decoder[c] = DecodeGroup(c)
    BY <2>3 DEF Decoder
  <2>7. DecodeGroup(c)[1] = a[1] /\ DecodeGroup(c)[2] = a[2] /\ DecodeGroup(c)[3] = a[3]
    BY <2>1, <2>2, GroupComesBack
  <2>8. DecodeGroup(c)[j] = a[j]
    <3> DEFINE d == DecodeGroup(c)
    <3>1. d[1] = a[1] /\ d[2] = a[2] /\ d[3] = a[3]
      BY <2>7
    <3> HIDE DEF d
    <3>2. d[j] = a[j]
      BY <3>1
    <3> QED
      BY <3>2 DEF d
  <2> QED
    BY <2>4, <2>5, <2>6, <2>8
<1>9. Len(ret) = 3 * q /\ \A i \in 1..3 * q : ret[i] = bytes[i]
  <2>1. Len(ret) = 3 * q
    BY <1>6, <1>7
  <2>2. ASSUME NEW i \in 1..3 * q PROVE ret[i] = bytes[i]
    <3> DEFINE p == (i - 1) \div 3
               j == i - 3 * p
    <3>1. p \in 0..q - 1 /\ j \in 1..3 /\ 3 * p + j = i
      OBVIOUS
    <3> HIDE DEF p, j
    <3>2. ret[3 * p + j] = bytes[3 * p + j]
      BY <1>8, <3>1
    <3> QED
      BY <3>1, <3>2
  <2> QED
    BY <2>1, <2>2
<1>10. back = bytes
  <2>1. CASE l = 0
    <3>1. Len(final) = 0
      BY <1>7, <2>1
    <3>2. final = << >>
      BY <1>3, <3>1
    <3>3. back = ret
      BY <3>2
    <3>4. Len(bytes) = 3 * q
      BY <1>5, <2>1
    <3>5. ret = bytes
      BY <1>3, <1>9, <3>4, SeqEqual
    <3> QED
      BY <3>3, <3>5
  <2>2. CASE l # 0
    <3>1. l \in 1..2 /\ Len(final) = l + 1 /\ Len(head) - 4 * q = l + 1
      BY <1>5, <1>6, <1>7, <2>2
    <3>2. final # << >>
      BY <3>1
    <3> DEFINE tail == EncodeRest(group)
    <3>3. tail \in Seq(Sign) /\ Len(tail) = l + 1 /\ DecodeRest(tail) = group
      BY <3>1, LastGroup DEF l
    <3>4. final = tail
      <4> HIDE DEF tail
      <4>1. \A j \in 1..Len(final) : final[j] = tail[j]
        BY <1>5, <1>6, <1>7, <3>1 DEF tail
      <4> QED
        BY <1>3, <3>1, <3>3, <4>1, SeqEqual
    <3>5. back = ret \o group
      <4> HIDE DEF tail
      <4> QED
        BY <3>2, <3>3, <3>4, Zenon
    <3> DEFINE all == ret \o group
    <3>6. /\ all \in Seq(Octet) /\ Len(all) = Len(ret) + Len(group)
          /\ \A i \in 1..Len(ret) + Len(group) :
               all[i] = IF i <= Len(ret) THEN ret[i] ELSE group[i - Len(ret)]
      BY <1>3, ConcatProperties
    <3> HIDE DEF all, back, tail
    <3>7. \A i \in 1..3 * q + l : all[i] = IF i <= 3 * q THEN ret[i] ELSE group[i - 3 * q]
      BY <1>9, <3>6 DEF l
    <3>8. ASSUME NEW i \in 1..3 * q + l PROVE all[i] = bytes[i]
      <4>1. CASE i <= 3 * q
        BY <1>9, <3>7, <4>1
      <4>2. CASE ~(i <= 3 * q)
        <5> DEFINE j == i - 3 * q
        <5>1. j \in 1..l /\ 3 * q + j = i
          BY <3>1, <4>2
        <5>2. all[i] = group[j]
          BY <3>7, <4>2
        <5> HIDE DEF j
        <5>3. group[j] = bytes[3 * q + j]
          BY <1>5, <5>1
        <5> QED
          BY <5>1, <5>2, <5>3
      <4> QED
        BY <4>1, <4>2
    <3>9. Len(all) = Len(bytes)
      BY <1>5, <1>9, <3>6 DEF l
    <3>10. Len(bytes) = 3 * q + l
      BY <1>5
    <3>11. all = bytes
      BY <3>6, <3>8, <3>9, <3>10, SeqEqual
    <3> QED
      BY <3>5, <3>11 DEF all
  <2> QED
    BY <2>1, <2>2
<1> QED
  BY <1>2, <1>10, EncodedText DEF DecodesWhatWasEncoded, text

-----------------------------------------------------------------------------
(* BlockHash: SHA-1, byte by byte.                                         *)

\* The blocks h are the first ones of the text.
BlocksOf(text, h) ==
  \A p \in 1..Len(h) : h[p] = SubSeq(text, (p - 1) * Block + 1, p * Block)

\* The first i bytes of the text are in blocks, and the rest follows them.
CutTo(text, i, h, rest) ==
  /\ BlocksOf(text, h)
  /\ Len(rest) < Block /\ i = Block * Len(h) + Len(rest)
  /\ \A j \in 1..Len(rest) : rest[j] = text[Block * Len(h) + j]

\* One more block.
LEMMA CutBlock ==
  ASSUME NEW text \in Seq(Int), NEW h \in Seq(Seq(Int)), BlocksOf(text, h),
         NEW block \in Seq(Int), Len(block) = Block,
         Block * Len(h) + Block <= Len(text),
         \A j \in 1..Block : block[j] = text[Block * Len(h) + j]
  PROVE  /\ BlocksOf(text, Append(h, block)) /\ Append(h, block) \in Seq(Seq(Int))
         /\ Len(Append(h, block)) = Len(h) + 1
         /\ Block * Len(Append(h, block)) = Block * Len(h) + Block
<1> DEFINE q == Len(h)
           g == Append(h, block)
           m == Block * q + 1
           n == Block * q + Block
           s == SubSeq(text, m, n)
<1>0. Block \in Nat /\ Block > 2
  BY HashAssumption
<1>1. /\ g \in Seq(Seq(Int)) /\ Len(g) = q + 1
      /\ \A p \in 1..q : g[p] = h[p]
      /\ g[q + 1] = block
  BY AppendProperties
<1>2. q \in Nat
  OBVIOUS
<1>3. Block * q \in Nat /\ Block * (q + 1) = Block * q + Block
  BY <1>0, <1>2, OneMore
<1>4. m \in Nat /\ n \in Nat /\ 1 <= m /\ m <= n + 1 /\ n <= Len(text) /\ n - m + 1 = Block
      /\ \A j \in 1..Block : m + j - 1 = Block * q + j
  <2>1. n <= Len(text)
    OBVIOUS
  <2> DEFINE a == Block * q
  <2> HIDE DEF q
  <2>2. a \in Nat
    BY <1>3
  <2>3. m = a + 1 /\ n = a + Block
    OBVIOUS
  <2> HIDE DEF a, m, n
  <2>4. m \in Nat /\ n \in Nat /\ 1 <= m /\ m <= n + 1 /\ n - m + 1 = Block
        /\ \A j \in 1..Block : m + j - 1 = a + j
    BY <1>0, <2>2, <2>3
  <2> QED
    BY <2>1, <2>4 DEF a
<1> HIDE DEF g, q, m, n
<1>5. block = s
  <2>1. /\ s \in Seq(Int) /\ Len(s) = n - m + 1
        /\ \A j \in 1..n - m + 1 : s[j] = text[m + j - 1]
    <3>1. text \in Seq(Int)
      OBVIOUS
    <3> QED
      BY ONLY <1>4, <3>1, SliceIs
  <2> HIDE DEF s
  <2>2. Len(s) = Block /\ \A j \in 1..Block : s[j] = text[Block * q + j]
    BY <1>4, <2>1
  <2>3. \A j \in 1..Len(block) : block[j] = s[j]
    BY <2>2 DEF q
  <2> QED
    BY <2>1, <2>2, <2>3, SeqEqual
<1>6. q * Block + 1 = m /\ (q + 1) * Block = n
  <2>1. q * Block = Block * q /\ (q + 1) * Block = Block * (q + 1)
    BY <1>0, <1>2
  <2> QED
    BY <1>3, <2>1 DEF m, n
<1>7. ASSUME NEW p \in 1..q + 1
      PROVE  g[p] = SubSeq(text, (p - 1) * Block + 1, p * Block)
  <2>1. CASE p \in 1..q
    BY <1>1, <2>1 DEF BlocksOf, q
  <2>2. CASE p = q + 1
    <3>1. (p - 1) * Block + 1 = m /\ p * Block = n
      <4>1. p - 1 = q
        BY <1>2, <2>2
      <4> QED
        BY <1>6, <2>2, <4>1, Zenon
    <3> QED
      BY <1>1, <1>5, <2>2, <3>1, Zenon DEF s
  <2> QED
    BY <1>2, <2>1, <2>2
<1>8. BlocksOf(text, g)
  BY <1>1, <1>7 DEF BlocksOf
<1> QED
  BY <1>1, <1>3, <1>8 DEF g, q

\* More bytes of the text behind the rest.
LEMMA RestGrows ==
  ASSUME NEW text \in Seq(Int), NEW h \in Seq(Seq(Int)), NEW rest \in Seq(Int),
         NEW i \in Nat,
         CutTo(text, i, h, rest),
         NEW more \in Seq(Int), \A j \in 1..Len(more) : more[j] = text[i + j]
  PROVE  /\ rest \o more \in Seq(Int) /\ Len(rest \o more) = Len(rest) + Len(more)
         /\ i + Len(more) = Block * Len(h) + Len(rest \o more)
         /\ \A j \in 1..Len(rest \o more) : (rest \o more)[j] = text[Block * Len(h) + j]
<1> DEFINE a == Block * Len(h)
           l == Len(rest)
           n == Len(more)
           all == rest \o more
<1>1. l \in Nat /\ n \in Nat
  OBVIOUS
<1>2. a \in Nat
  <2>1. Block \in Nat /\ Len(h) \in Nat
    BY HashAssumption
  <2> QED
    BY <2>1, OneMore
<1>3. i = a + l /\ \A j \in 1..l : rest[j] = text[a + j]
  BY DEF CutTo
<1>4. /\ all \in Seq(Int) /\ Len(all) = l + n
      /\ \A j \in 1..l + n : all[j] = IF j <= l THEN rest[j] ELSE more[j - l]
  BY ConcatProperties
<1>5. \A j \in 1..n : more[j] = text[i + j]
  OBVIOUS
<1> HIDE DEF a, l, n, all
<1>6. ASSUME NEW j \in 1..l + n PROVE all[j] = text[a + j]
  <2>1. CASE j <= l
    <3>1. j \in 1..l
      BY <1>1, <2>1
    <3>2. all[j] = rest[j]
      BY <1>4, <2>1
    <3> QED
      BY <1>3, <3>1, <3>2, Zenon
  <2>2. CASE ~(j <= l)
    <3>1. j - l \in 1..n /\ i + (j - l) = a + j
      BY <1>1, <1>2, <1>3, <2>2
    <3>2. all[j] = more[j - l]
      BY <1>4, <2>2
    <3>3. more[j - l] = text[i + (j - l)]
      BY <1>5, <3>1, Zenon
    <3> QED
      BY <3>1, <3>2, <3>3, Zenon
  <2> QED
    BY <2>1, <2>2
<1>7. i + n = a + (l + n)
  BY <1>1, <1>2, <1>3
<1> QED
  BY <1>4, <1>6, <1>7 DEF a, l, n, all

\* They do not complete a block.
LEMMA CutGrows ==
  ASSUME NEW text \in Seq(Int), NEW h \in Seq(Seq(Int)), NEW rest \in Seq(Int),
         NEW i \in Nat,
         CutTo(text, i, h, rest),
         NEW more \in Seq(Int), \A j \in 1..Len(more) : more[j] = text[i + j],
         Len(rest) + Len(more) < Block
  PROVE  CutTo(text, i + Len(more), h, rest \o more)
<1> DEFINE all == rest \o more
<1>1. /\ Len(all) = Len(rest) + Len(more) /\ i + Len(more) = Block * Len(h) + Len(all)
      /\ \A j \in 1..Len(all) : all[j] = text[Block * Len(h) + j]
  BY RestGrows
<1>2. BlocksOf(text, h)
  BY DEF CutTo
<1> HIDE DEF all
<1>3. CutTo(text, i + Len(more), h, all)
  BY <1>1, <1>2 DEF CutTo
<1> QED
  BY <1>3 DEF all

\* They complete one.
LEMMA CutEnds ==
  ASSUME NEW text \in Seq(Int), NEW h \in Seq(Seq(Int)), NEW rest \in Seq(Int),
         NEW i \in Nat,
         CutTo(text, i, h, rest),
         NEW more \in Seq(Int), \A j \in 1..Len(more) : more[j] = text[i + j],
         Len(rest) + Len(more) = Block, i + Len(more) <= Len(text)
  PROVE  /\ CutTo(text, i + Len(more), Append(h, rest \o more), << >>)
         /\ Append(h, rest \o more) \in Seq(Seq(Int))
<1> DEFINE all == rest \o more
           g == Append(h, all)
           none == << >>
<1>1. /\ all \in Seq(Int) /\ Len(all) = Len(rest) + Len(more)
      /\ i + Len(more) = Block * Len(h) + Len(all)
      /\ \A j \in 1..Len(all) : all[j] = text[Block * Len(h) + j]
  BY RestGrows, SMTT(20)
<1>2. BlocksOf(text, h)
  BY DEF CutTo
<1> HIDE DEF all
<1>3. Len(all) = Block /\ Block * Len(h) + Block = i + Len(more)
  BY <1>1
<1>4. /\ BlocksOf(text, g) /\ g \in Seq(Seq(Int)) /\ Len(g) = Len(h) + 1
      /\ Block * Len(g) = Block * Len(h) + Block
  <2>1. \A j \in 1..Block : all[j] = text[Block * Len(h) + j]
    BY <1>1, <1>3
  <2>2. Block * Len(h) + Block <= Len(text)
    BY <1>3
  <2> QED
    BY <1>1, <1>2, <1>3, <2>1, <2>2, CutBlock
<1> HIDE DEF g
<1>5. Len(none) = 0 /\ 1..Len(none) = {} /\ 0 < Block
  BY HashAssumption
<1>6. i + Len(more) = Block * Len(g) + Len(none)
  <2>1. i + Len(more) \in Int
    OBVIOUS
  <2> QED
    BY <1>3, <1>4, <1>5, <2>1
<1> HIDE DEF none
<1>7. CutTo(text, i + Len(more), g, none)
  BY <1>4, <1>5, <1>6 DEF CutTo
<1> QED
  BY <1>4, <1>7 DEF g, all, none

\* A word of the length counts whole bytes, and whole blocks.
LEMMA WordIs ==
  \E v \in Nat : v > 0 /\ Word = 8 * v /\ \E w \in Nat : v = Block * w
<1>1. Block \in Nat /\ Block > 2 /\ Word \in Nat /\ Word > 0 /\ Word % (8 * Block) = 0
  BY HashAssumption
<1> DEFINE m == 8 * Block
           w == Word \div m
<1>2. m \in Nat /\ m > 0
  BY <1>1
<1> HIDE DEF m
<1>3. w \in Nat /\ Word = m * w
  <2>1. Word = m * w + (Word % m)
    BY <1>1, <1>2
  <2>2. Word % m = 0
    BY <1>1 DEF m
  <2>3. w \in Int
    BY <1>1, <1>2
  <2> HIDE DEF w
  <2>4. Word = m * w
    BY <1>1, <1>2, <2>1, <2>2, <2>3
  <2>5. w >= 0
    <3>1. CASE w <= -1
      <4>1. m * w <= -m
        BY <1>2, <2>3, <3>1
      <4> QED
        BY <1>1, <1>2, <2>4, <4>1
    <3> QED
      BY <2>3, <3>1
  <2> QED
    BY <2>3, <2>4, <2>5
<1> HIDE DEF w
<1> DEFINE v == Block * w
<1>4. v \in Nat
  BY <1>1, <1>3
<1>5. Word = 8 * v
  BY <1>1, <1>3 DEF m
<1> HIDE DEF v
<1>6. v > 0
  BY <1>1, <1>4, <1>5
<1> QED
  BY <1>3, <1>4, <1>5, <1>6 DEF v

\* The two words count the bits, until both come round.
LEMMA CountUp ==
  ASSUME NEW n \in Nat, NEW low \in Nat, NEW high \in Nat, low < Word, high < Word,
         low + Word * high = 8 * n,
         NEW l, l = (low + 8) % Word,
         NEW k, k = IF l = 0 THEN (high + 1) % Word ELSE high
  PROVE  /\ l \in Nat /\ l < Word /\ k \in Nat /\ k < Word
         /\ 8 * (n + 1) >= Word * Word <=> l = 0 /\ k = 0
         /\ 8 * (n + 1) < Word * Word => l + Word * k = 8 * (n + 1)
<1>1. Word \in Nat /\ Word > 0
  BY HashAssumption
<1>2. PICK v \in Nat : v > 0 /\ Word = 8 * v
  BY WordIs
<1> DEFINE i == n - v * high
<1>3. i \in Int /\ low = 8 * i /\ i < v
  <2>1. Word * high = 8 * (v * high)
    BY <1>2
  <2> DEFINE vh == v * high
  <2>2. vh \in Int
    OBVIOUS
  <2> HIDE DEF vh
  <2>3. low = 8 * (n - vh)
    BY <2>1, <2>2 DEF vh
  <2> QED
    BY <1>2, <2>2, <2>3 DEF vh
<1> HIDE DEF i
<1>4. Word * (high + 1) = Word * high + Word /\ Word * high \in Nat
  BY <1>1, OneMore
<1>5. Word * (high + 1) <= Word * Word
  <2>1. Word - (high + 1) \in Nat
    BY <1>1
  <2>2. Word * (Word - (high + 1)) \in Nat
    BY <1>1, <2>1
  <2>3. Word * Word = Word * (high + 1) + Word * (Word - (high + 1))
    BY <1>1
  <2>4. Word * (high + 1) \in Nat
    BY <1>1
  <2> QED
    BY <2>2, <2>3, <2>4
<1>6. Word * Word \in Nat
  BY <1>1
<1> DEFINE wh == Word * high
           ww == Word * Word
<1>7. CASE i + 1 < v
  <2>1. low + 8 < Word /\ l = low + 8
    <3>1. low + 8 < Word
      BY <1>2, <1>3, <1>7
    <3> QED
      BY <1>1, <3>1
  <2>2. k = high /\ l # 0
    BY <2>1
  <2>3. wh \in Nat /\ wh + Word <= ww /\ ww \in Nat /\ low + wh = 8 * n
    BY <1>4, <1>5, <1>6
  <2>4. Word * k = wh
    BY <2>2
  <2> HIDE DEF wh, ww
  <2>5. l + wh = 8 * (n + 1) /\ 8 * (n + 1) < ww
    BY <1>1, <2>1, <2>3
  <2> QED
    BY <1>1, <2>1, <2>2, <2>4, <2>5 DEF ww
<1>8. CASE i + 1 = v
  <2>1. low + 8 = Word /\ l = 0
    <3>1. low + 8 = Word
      BY <1>2, <1>3, <1>8
    <3> QED
      BY <1>1, <3>1
  <2>2. 8 * (n + 1) = Word * (high + 1)
    BY <1>4, <2>1
  <2>3. CASE high + 1 < Word
    <3>1. k = high + 1
      BY <1>1, <2>1, <2>3
    <3>2. Word * (high + 1) < Word * Word
      <4>1. Word - (high + 1) \in Nat /\ Word - (high + 1) > 0
        BY <1>1, <2>3
      <4>2. Word * (Word - (high + 1)) > 0
        BY <1>1, <4>1
      <4>3. Word * Word = Word * (high + 1) + Word * (Word - (high + 1))
        BY <1>1
      <4>4. Word * (high + 1) \in Nat /\ Word * (Word - (high + 1)) \in Nat
        BY <1>1, <4>1
      <4> QED
        BY <4>2, <4>3, <4>4
    <3> DEFINE x == Word * (high + 1)
    <3>3. Word * k = x /\ x \in Nat /\ 8 * (n + 1) = x
      BY <1>1, <2>2, <3>1
    <3>4. x < ww /\ ww \in Nat
      BY <1>6, <3>2
    <3> HIDE DEF x, ww
    <3>5. 0 + x = 8 * (n + 1) /\ ~(8 * (n + 1) >= ww)
      BY <3>3, <3>4
    <3> QED
      BY <1>1, <2>1, <2>3, <3>1, <3>3, <3>5 DEF ww
  <2>4. CASE high + 1 = Word
    <3>1. k = 0
      BY <1>1, <2>1, <2>4
    <3>2. 8 * (n + 1) = ww /\ ww \in Nat
      BY <1>6, <2>2, <2>4
    <3> HIDE DEF ww
    <3>3. 8 * (n + 1) >= ww /\ ~(8 * (n + 1) < ww)
      BY <3>2
    <3> QED
      BY <1>1, <2>1, <3>1, <3>3 DEF ww
  <2> QED
    BY <1>1, <2>3, <2>4
<1> QED
  BY <1>2, <1>3, <1>7, <1>8

Sha1States ==
  [low : Nat, high : Nat, block : Seq(Int), h : Seq(Seq(Int)), computed : BOOLEAN,
   corrupted : BOOLEAN]

\* An object that has been given the first n bytes of the text.
Sha1At(c, n, text) ==
  /\ c \in Sha1States /\ ~c.computed
  /\ 8 * n >= Word * Word => c.corrupted
  /\ 8 * n < Word * Word =>
       /\ ~c.corrupted /\ c.low < Word /\ c.high < Word /\ c.low + Word * c.high = 8 * n
       /\ CutTo(text, n, c.h, c.block)


\* What a block does to an object.
LEMMA ProcessIs ==
  ASSUME NEW c \in Sha1States, NEW d, d = ProcessMessageBlock(c)
  PROVE  /\ d \in Sha1States /\ d.h = Append(c.h, c.block) /\ d.block = << >>
         /\ d.low = c.low /\ d.high = c.high /\ d.computed = c.computed
         /\ d.corrupted = c.corrupted
<1> DEFINE a == Append(c.h, c.block)
           none == << >>
<1>1. a \in Seq(Seq(Int))
  <2>1. c.h \in Seq(Seq(Int)) /\ c.block \in Seq(Int)
    BY DEF Sha1States
  <2> QED
    BY <2>1, AppendProperties
<1>2. none \in Seq(Int)
  OBVIOUS
<1>3. d = [c EXCEPT !.h = a, !.block = none]
  BY DEF ProcessMessageBlock
<1> HIDE DEF a, none
<1>4. d \in Sha1States
  BY <1>1, <1>2, <1>3, Zenon DEF Sha1States
<1>5. /\ d.h = a /\ d.block = none /\ d.low = c.low /\ d.high = c.high
      /\ d.computed = c.computed /\ d.corrupted = c.corrupted
  BY <1>3, Zenon DEF Sha1States
<1> QED
  BY <1>4, <1>5, Zenon DEF a, none

\* One more byte.
LEMMA Sha1Byte ==
  ASSUME NEW text \in Seq(Int), NEW n \in Nat, n < Len(text), NEW c, Sha1At(c, n, text),
         NEW d, d = InputByte(c, text[n + 1])
  PROVE  Sha1At(d, n + 1, text)
<1> DEFINE b == text[n + 1]
           low == (c.low + 8) % Word
           high == IF low = 0 THEN (c.high + 1) % Word ELSE c.high
           block == Append(c.block, b)
           full == low = 0 /\ high = 0
           e == [c EXCEPT !.low = low, !.high = high, !.block = block, !.corrupted = full]
           ww == Word * Word
<1>0. /\ c \in Sha1States /\ ~c.computed
      /\ 8 * n >= ww => c.corrupted
      /\ 8 * n < ww =>
           /\ ~c.corrupted /\ c.low < Word /\ c.high < Word /\ c.low + Word * c.high = 8 * n
           /\ CutTo(text, n, c.h, c.block)
  BY Zenon DEF Sha1At
<1>1. /\ c.low \in Nat /\ c.high \in Nat /\ c.block \in Seq(Int) /\ c.h \in Seq(Seq(Int))
      /\ c.computed \in BOOLEAN /\ c.corrupted \in BOOLEAN
  BY <1>0, Zenon DEF Sha1States
<1>2. ww \in Nat /\ Word \in Nat /\ Word > 0 /\ b \in Int
  <2>1. n + 1 \in 1..Len(text)
    OBVIOUS
  <2> QED
    BY <2>1, HashAssumption, ElementOfSeq
<1>3. d = IF c.corrupted THEN c
          ELSE IF Len(e.block) = Block THEN ProcessMessageBlock(e) ELSE e
  BY DEF InputByte
<1> HIDE DEF ww
<1>4. CASE c.corrupted
  <2>1. 8 * (n + 1) >= ww
    <3>1. ~(8 * n < ww)
      BY <1>0, <1>4
    <3> QED
      BY <1>2, <3>1
  <2>2. d = c /\ ~(8 * (n + 1) < ww)
    BY <1>2, <1>3, <1>4, <2>1
  <2> QED
    BY <1>0, <1>4, <2>1, <2>2, Zenon DEF Sha1At, ww
<1>5. CASE ~c.corrupted
  <2>0. 8 * n < ww
    <3>1. ~(8 * n >= ww)
      BY <1>0, <1>5
    <3> QED
      BY <1>2, <3>1
  <2>1. /\ c.low < Word /\ c.high < Word /\ c.low + Word * c.high = 8 * n
        /\ CutTo(text, n, c.h, c.block)
    BY <1>0, <2>0
  <2>2. /\ low \in Nat /\ low < Word /\ high \in Nat /\ high < Word
        /\ 8 * (n + 1) >= ww <=> low = 0 /\ high = 0
        /\ 8 * (n + 1) < ww => low + Word * high = 8 * (n + 1)
    <3> DEFINE lo == c.low
               hi == c.high
               l == (lo + 8) % Word
               k == IF l = 0 THEN (hi + 1) % Word ELSE hi
    <3>1. lo \in Nat /\ hi \in Nat /\ lo < Word /\ hi < Word /\ lo + Word * hi = 8 * n
      BY <1>1, <2>1
    <3>2. l = (lo + 8) % Word /\ k = IF l = 0 THEN (hi + 1) % Word ELSE hi
      OBVIOUS
    <3>3. low = l /\ high = k
      OBVIOUS
    <3> HIDE DEF lo, hi, l, k, low, high
    <3>4. /\ l \in Nat /\ l < Word /\ k \in Nat /\ k < Word
          /\ 8 * (n + 1) >= Word * Word <=> l = 0 /\ k = 0
          /\ 8 * (n + 1) < Word * Word => l + Word * k = 8 * (n + 1)
      BY ONLY n \in Nat, <3>1, <3>2, CountUp
    <3> QED
      BY <3>3, <3>4, Zenon DEF ww
  <2> HIDE DEF low, high
  <2>3. full \in BOOLEAN
    OBVIOUS
  <2>4. block \in Seq(Int) /\ Len(block) = Len(c.block) + 1
    BY <1>1, <1>2, AppendProperties
  <2>5. block = c.block \o <<b>>
    BY <1>1, <1>2, AppendIsConcat
  <2> HIDE DEF block, full
  <2>6. e \in Sha1States
    BY <1>0, <2>2, <2>3, <2>4, Zenon DEF Sha1States
  <2>7. /\ e.low = low /\ e.high = high /\ e.block = block /\ e.corrupted = full
        /\ e.h = c.h /\ e.computed = c.computed
    BY <1>0, Zenon DEF Sha1States
  <2> HIDE DEF e
  <2> DEFINE more == <<b>>
  <2>8. more \in Seq(Int) /\ Len(more) = 1 /\ \A j \in 1..Len(more) : more[j] = text[n + j]
    BY <1>2
  <2> HIDE DEF more
  <2>9. CASE Len(block) = Block
    <3>1. d = ProcessMessageBlock(e)
      BY <1>3, <1>5, <2>7, <2>9, Zenon
    <3>2. /\ d \in Sha1States /\ d.h = Append(c.h, block) /\ d.block = << >>
          /\ d.low = low /\ d.high = high /\ d.computed = c.computed
          /\ d.corrupted = full
      BY <2>6, <2>7, <3>1, ProcessIs
    <3>3. CutTo(text, n + 1, d.h, d.block)
      <4>1. CutTo(text, n + Len(more), Append(c.h, c.block \o more), << >>)
        <5>1. Len(c.block) + Len(more) = Block /\ n + Len(more) <= Len(text)
          BY <2>4, <2>8, <2>9
        <5> QED
          BY <1>1, <2>1, <2>8, <5>1, CutEnds
      <4> QED
        BY <2>5, <2>8, <3>2, <4>1, Zenon DEF more
    <3>4. 8 * (n + 1) >= ww <=> full
      BY <2>2 DEF full
    <3> QED
      BY <1>0, <1>2, <2>2, <3>2, <3>3, <3>4 DEF Sha1At, ww
  <2>10. CASE Len(block) # Block
    <3>1. d = e
      BY <1>3, <1>5, <2>7, <2>10, Zenon
    <3>2. CutTo(text, n + 1, c.h, block)
      <4>1. CutTo(text, n + Len(more), c.h, c.block \o more)
        <5>1. Len(c.block) < Block
          BY <2>1 DEF CutTo
        <5>2. Len(c.block) \in Nat
          BY <1>1
        <5>3. Len(c.block) + Len(more) < Block
          BY <2>4, <2>8, <2>10, <5>1, <5>2, HashAssumption
        <5> QED
          BY <1>1, <2>1, <2>8, <5>3, CutGrows
      <4> QED
        BY <2>5, <2>8, <4>1, Zenon DEF more
    <3>3. 8 * (n + 1) >= ww <=> full
      BY <2>2 DEF full
    <3>4. 8 * (n + 1) < ww => ~full
      BY <1>2, <3>3
    <3> QED
      BY <1>0, <2>2, <2>6, <2>7, <3>1, <3>2, <3>3, <3>4, Zenon DEF Sha1At, ww
  <2> QED
    BY <2>9, <2>10
<1> QED
  BY <1>4, <1>5

\* An object stays one.
LEMMA InputByteKeeps ==
  ASSUME NEW c \in Sha1States, NEW b \in Int
  PROVE  InputByte(c, b) \in Sha1States
<1> DEFINE low == (c.low + 8) % Word
           high == IF low = 0 THEN (c.high + 1) % Word ELSE c.high
           block == Append(c.block, b)
           full == low = 0 /\ high = 0
           e == [c EXCEPT !.low = low, !.high = high, !.block = block, !.corrupted = full]
<1>1. InputByte(c, b) = IF c.corrupted THEN c
                        ELSE IF Len(e.block) = Block THEN ProcessMessageBlock(e) ELSE e
  BY DEF InputByte
<1>2. c.low \in Nat /\ c.high \in Nat /\ c.block \in Seq(Int)
  BY Zenon DEF Sha1States
<1>3. low \in Nat /\ high \in Nat
  <2>1. Word \in Nat /\ Word > 0
    BY HashAssumption
  <2>2. low \in Nat
    BY <1>2, <2>1
  <2>3. (c.high + 1) % Word \in Nat
    BY <1>2, <2>1
  <2> HIDE DEF low
  <2> QED
    BY <1>2, <2>2, <2>3
<1>4. block \in Seq(Int)
  BY <1>2, AppendProperties
<1>5. full \in BOOLEAN
  OBVIOUS
<1> HIDE DEF low, high, block, full
<1>6. e \in Sha1States
  BY <1>3, <1>4, <1>5, Zenon DEF Sha1States
<1> HIDE DEF e
<1>7. ProcessMessageBlock(e) \in Sha1States
  BY <1>6, ProcessIs
<1> QED
  BY <1>1, <1>6, <1>7, Zenon

\* The loop over the bytes has a state after each of them.
LEMMA Sha1Rounds ==
  ASSUME NEW c \in Sha1States, NEW bytes \in Seq(Int)
  PROVE  \E g : g = [i \in 0..Len(bytes) |->
                       IF i = 0 THEN c ELSE InputByte(g[i - 1], bytes[i])]
<1> DEFINE m == Len(bytes)
           W == Sha1States
           F == [i \in 1..m |-> [s \in W |-> InputByte(s, bytes[i])]]
<1>1. m \in Nat /\ \A i \in 1..m : bytes[i] \in Int
  OBVIOUS
<1>2. F \in [1..m -> [W -> W]] /\ c \in W
  BY <1>1, InputByteKeeps
<1>3. \A i \in 1..m : \A s \in W : F[i][s] = InputByte(s, bytes[i])
  OBVIOUS
<1> HIDE DEF F, W
<1>4. PICK g \in [0..m -> W] : g[0] = c /\ \A i \in 1..m : g[i] = F[i][g[i - 1]]
  <2>1. m \in Nat
    BY <1>1
  <2> HIDE DEF m
  <2> QED
    <3>1. PICK g : RunOf(g, W, c, m, F)
      BY <1>2, <2>1, RunExists, Zenon
    <3> QED
      BY <3>1, Zenon DEF RunOf
<1> HIDE DEF m
<1>5. ASSUME NEW i \in 1..m PROVE g[i] = InputByte(g[i - 1], bytes[i])
  <2>1. i - 1 \in 0..m
    BY <1>1
  <2>2. g[i - 1] \in W
    BY <1>4, <2>1
  <2> QED
    BY <1>3, <1>4, <2>2, Zenon
<1>6. g = [i \in 0..m |-> IF i = 0 THEN c ELSE InputByte(g[i - 1], bytes[i])]
  <2>1. \A i \in 0..m : i = 0 \/ i \in 1..m
    BY <1>1
  <2> QED
    BY <1>4, <1>5, <2>1
<1> QED
  BY <1>6 DEF m

\* A piece of the message.
LEMMA Sha1Piece ==
  ASSUME NEW text \in Seq(Int), NEW n \in Nat, NEW c, Sha1At(c, n, text),
         NEW bytes \in Seq(Int), n + Len(bytes) <= Len(text),
         \A j \in 1..Len(bytes) : bytes[j] = text[n + j]
  PROVE  Sha1At(Sha1Input(c, bytes), n + Len(bytes), text)
<1> DEFINE m == Len(bytes)
           In[i \in 0..Len(bytes)] == IF i = 0 THEN c ELSE InputByte(In[i - 1], bytes[i])
<1>0. m \in Nat /\ \A i \in 1..m : bytes[i] \in Int
  OBVIOUS
<1>1. c \in Sha1States /\ ~c.computed
  BY Zenon DEF Sha1At
<1>2. CASE bytes = << >>
  <2>1. Sha1Input(c, bytes) = c
    BY <1>2 DEF Sha1Input
  <2>2. n + m = n
    BY <1>2
  <2> QED
    BY <2>1, <2>2
<1>3. CASE bytes # << >> /\ c.corrupted
  <2> DEFINE d == [c EXCEPT !.corrupted = TRUE]
  <2>1. Sha1Input(c, bytes) = d
    BY <1>3 DEF Sha1Input
  <2>2. d \in Sha1States
    BY <1>1, Zenon DEF Sha1States
  <2>3. d.computed = c.computed /\ d.corrupted
    BY <1>1, Zenon DEF Sha1States
  <2> HIDE DEF d
  <2>4. ~(8 * n < Word * Word)
    BY <1>3, Zenon DEF Sha1At
  <2>5. ~(8 * (n + m) < Word * Word)
    <3> DEFINE ww == Word * Word
    <3>1. ww \in Nat
      BY HashAssumption
    <3> HIDE DEF ww
    <3>2. ~(8 * n < ww)
      BY <2>4 DEF ww
    <3>3. ~(8 * (n + m) < ww)
      BY <1>0, <3>1, <3>2
    <3> QED
      BY <3>3 DEF ww
  <2> QED
    BY <1>1, <2>1, <2>2, <2>3, <2>5, Zenon DEF Sha1At
<1>4. CASE bytes # << >> /\ ~c.corrupted
  <2>1. Sha1Input(c, bytes) = In[m]
    <3>1. ~(bytes = << >>) /\ ~(bytes # << >> /\ (c.computed \/ c.corrupted))
      BY <1>1, <1>4
    <3> QED
      BY <3>1 DEF Sha1Input
  <2>2. PICK g : g = [i \in 0..m |-> IF i = 0 THEN c ELSE InputByte(g[i - 1], bytes[i])]
    BY <1>1, Sha1Rounds
  <2>4. In = [i \in 0..m |-> IF i = 0 THEN c ELSE InputByte(In[i - 1], bytes[i])]
    BY <2>2 DEF In
  <2> HIDE DEF In
  <2> DEFINE T == {i \in 0..m : Sha1At(In[i], n + i, text)}
  <2>5. 0 \in T
    <3>1. In[0] = c /\ n + 0 = n
      BY <1>0, <2>4
    <3> QED
      BY <1>0, <3>1
  <2>6. ASSUME NEW i \in 1..m, i - 1 \in T PROVE i \in T
    <3> DEFINE k == n + (i - 1)
    <3>1. In[i] = InputByte(In[i - 1], bytes[i]) /\ i \in 0..m
      <4>1. i \in 0..m /\ i # 0
        BY <1>0
      <4> HIDE DEF m
      <4> QED
        BY <2>4, <4>1, Zenon
    <3>2. k \in Nat /\ k < Len(text) /\ k + 1 = n + i
      BY <1>0
    <3>3. bytes[i] = text[k + 1]
      BY <3>2
    <3>4. Sha1At(In[i - 1], k, text)
      BY <2>6
    <3> HIDE DEF k
    <3>5. Sha1At(In[i], k + 1, text)
      BY <3>1, <3>2, <3>3, <3>4, Sha1Byte
    <3> QED
      BY <3>1, <3>2, <3>5
  <2>7. m \in T
    <3> HIDE DEF T, m
    <3>1. \A i \in 0..m : i \in T
      BY <1>0, <2>5, <2>6, UpTo
    <3> QED
      BY <1>0, <3>1
  <2> QED
    BY <2>1, <2>7
<1> QED
  BY <1>2, <1>3, <1>4

\* What is in front of each piece, up to the whole.
FrontsOf(L, pieces, S) ==
  /\ L \in [0..Len(pieces) -> Seq(S)] /\ L[0] = << >>
  /\ \A i \in 1..Len(pieces) : L[i] = L[i - 1] \o pieces[i]
  /\ L[Len(pieces)] = FlattenSeq(pieces)

\* The pieces are put together one after the other (FlattenSeq).
LEMMA FlattenIs ==
  ASSUME NEW S, NEW pieces \in Seq(Seq(S))
  PROVE  \E L : FrontsOf(L, pieces, S)
<1> DEFINE n == Len(pieces)
           W == Seq(S)
           none == << >>
           F == [i \in 1..n |-> [s \in W |-> s \o pieces[i]]]
           f[i \in 1..Len(pieces)] == IF i = 1 THEN pieces[i] ELSE f[i - 1] \o pieces[i]
<1>1. n \in Nat /\ \A i \in 1..n : pieces[i] \in W
  OBVIOUS
<1>2. F \in [1..n -> [W -> W]]
  <2>1. \A i \in 1..n : \A s \in W : s \o pieces[i] \in W
    BY <1>1, ConcatProperties
  <2> QED
    BY <2>1
<1>3. \A i \in 1..n : \A s \in W : F[i][s] = s \o pieces[i]
  OBVIOUS
<1>4. none \in W
  OBVIOUS
<1> HIDE DEF F
<1>5. PICK g \in [0..n -> W] : g[0] = none /\ \A i \in 1..n : g[i] = F[i][g[i - 1]]
  <2>1. n \in Nat
    BY <1>1
  <2> HIDE DEF n, W, none
  <2> QED
    <3>1. PICK g : RunOf(g, W, none, n, F)
      BY <1>2, <1>4, <2>1, RunExists, Zenon
    <3> QED
      BY <3>1, Zenon DEF RunOf
<1>6. ASSUME NEW i \in 1..n PROVE g[i] = g[i - 1] \o pieces[i]
  <2>1. i - 1 \in 0..n
    BY <1>1
  <2> HIDE DEF n, W
  <2>2. g[i - 1] \in W
    BY <1>5, <2>1
  <2> QED
    BY <1>3, <1>5, <2>2, Zenon
<1>7. CASE n = 0
  <2>1. FlattenSeq(pieces) = none
    <3>1. pieces = none
      BY <1>7
    <3> QED
      BY <1>7, <3>1 DEF FlattenSeq
  <2>2. FrontsOf(g, pieces, S)
    BY <1>5, <1>6, <1>7, <2>1 DEF FrontsOf
  <2> QED
    BY <2>2
<1>8. CASE n # 0
  <2>1. FlattenSeq(pieces) = f[n]
    BY <1>8 DEF FlattenSeq
  <2> DEFINE r == [i \in 1..n |-> g[i]]
  <2>2. r = [i \in 1..n |-> IF i = 1 THEN pieces[i] ELSE r[i - 1] \o pieces[i]]
    <3>1. ASSUME NEW i \in 1..n, i = 1 PROVE r[i] = pieces[i]
      <4>1. i - 1 = 0 /\ r[i] = g[i]
        BY <3>1
      <4>2. g[i] = none \o pieces[i]
        BY <1>5, <1>6, <4>1
      <4> QED
        BY <1>1, <4>1, <4>2, ConcatEmptySeq
    <3>2. ASSUME NEW i \in 1..n, i # 1 PROVE r[i] = r[i - 1] \o pieces[i]
      <4>1. i - 1 \in 1..n
        BY <1>1, <3>2
      <4>2. r[i] = g[i] /\ r[i - 1] = g[i - 1]
        BY <4>1
      <4> QED
        BY <1>6, <4>2
    <3> HIDE DEF n
    <3>3. r = [i \in 1..n |-> r[i]]
      OBVIOUS
    <3> HIDE DEF r
    <3> QED
      BY <3>1, <3>2, <3>3
  <2>3. f = [i \in 1..n |-> IF i = 1 THEN pieces[i] ELSE f[i - 1] \o pieces[i]]
    <3> HIDE DEF r
    <3> QED
      BY <2>2 DEF f
  <2> HIDE DEF f, r
  <2> DEFINE T == {i \in 0..n : i = 0 \/ f[i] = g[i]}
  <2>4. 0 \in T
    BY <1>1
  <2>5. ASSUME NEW i \in 1..n, i - 1 \in T PROVE i \in T
    <3>1. i \in 0..n /\ pieces[i] \in W
      BY <1>1
    <3>2. CASE i = 1
      <4>1. f[i] = pieces[i]
        BY <2>3, <3>2
      <4>2. i - 1 = 0
        BY <3>2
      <4>3. g[i] = none \o pieces[i]
        BY <1>5, <1>6, <4>2
      <4>4. f[i] = g[i]
        BY <3>1, <4>1, <4>3, ConcatEmptySeq
      <4> QED
        BY <3>1, <4>4
    <3>3. CASE i # 1
      <4>1. f[i] = f[i - 1] \o pieces[i]
        BY <2>3, <3>3
      <4>2. i - 1 # 0
        BY <3>3
      <4>3. f[i - 1] = g[i - 1]
        BY <2>5, <4>2
      <4>4. f[i] = g[i]
        BY <1>6, <4>1, <4>3
      <4> QED
        BY <3>1, <4>4
    <3> QED
      BY <3>2, <3>3
  <2>6. n \in T
    <3> HIDE DEF T, n
    <3>1. \A i \in 0..n : i \in T
      BY <1>1, <2>4, <2>5, UpTo
    <3> QED
      BY <1>1, <3>1
  <2>7. FlattenSeq(pieces) = g[n]
    BY <1>8, <2>1, <2>6
  <2>8. FrontsOf(g, pieces, S)
    BY <1>5, <1>6, <2>7 DEF FrontsOf
  <2> QED
    BY <2>8
<1> QED
  BY <1>7, <1>8

\* Each of them is in front of the whole.
LEMMA FrontsAre ==
  ASSUME NEW S, NEW pieces \in Seq(Seq(S)), NEW L, FrontsOf(L, pieces, S),
         NEW k \in 0..Len(pieces)
  PROVE  /\ Len(L[k]) <= Len(FlattenSeq(pieces))
         /\ \A j \in 1..Len(L[k]) : FlattenSeq(pieces)[j] = L[k][j]
<1> DEFINE n == Len(pieces)
           InFront(i) == Len(L[k]) <= Len(L[i]) /\ \A j \in 1..Len(L[k]) : L[i][j] = L[k][j]
           T == {i \in 0..n : k <= i => InFront(i)}
<1>1. n \in Nat /\ k \in Nat /\ \A i \in 1..n : pieces[i] \in Seq(S)
  OBVIOUS
<1>2. /\ \A i \in 0..n : L[i] \in Seq(S)
      /\ \A i \in 1..n : L[i] = L[i - 1] \o pieces[i]
      /\ L[n] = FlattenSeq(pieces)
  BY DEF FrontsOf
<1>3. L[k] \in Seq(S)
  BY <1>2
<1>4. InFront(k)
  BY <1>3
<1>5. 0 \in T
  <2>1. 0 \in 0..n
    BY <1>1
  <2>2. k <= 0 => k = 0
    BY <1>1
  <2> HIDE DEF InFront
  <2> QED
    BY <1>4, <2>1, <2>2
<1>6. ASSUME NEW i \in 1..n, i - 1 \in T PROVE i \in T
  <2>1. i \in 0..n /\ i - 1 \in 0..n
    BY <1>1
  <2>2. CASE k <= i - 1
    <3>1. InFront(i - 1)
      BY <1>6, <2>2
    <3> DEFINE a == L[i - 1]
               b == pieces[i]
               l == Len(L[k])
    <3>2. a \in Seq(S) /\ b \in Seq(S) /\ L[i] = a \o b /\ l \in Nat
      <4>1. a \in Seq(S)
        BY <1>2, <2>1
      <4>2. b \in Seq(S)
        BY <1>1
      <4>3. l \in Nat
        BY <1>3
      <4> HIDE DEF n
      <4>4. L[i] = a \o b
        BY <1>2
      <4> QED
        BY <4>1, <4>2, <4>3, <4>4
    <3>3. l <= Len(a) /\ \A j \in 1..l : a[j] = L[k][j]
      BY <3>1
    <3> HIDE DEF a, b, l
    <3>4. /\ Len(a \o b) = Len(a) + Len(b) /\ Len(a) \in Nat /\ Len(b) \in Nat
          /\ \A j \in 1..Len(a) + Len(b) : (a \o b)[j] =
               IF j <= Len(a) THEN a[j] ELSE b[j - Len(a)]
      BY <3>2, ConcatProperties
    <3> DEFINE c == a \o b
    <3>5. /\ Len(c) = Len(a) + Len(b)
          /\ \A j \in 1..Len(a) + Len(b) : c[j] =
               IF j <= Len(a) THEN a[j] ELSE b[j - Len(a)]
      BY <3>4
    <3> HIDE DEF c
    <3>6. l <= Len(c) /\ \A j \in 1..l : c[j] = L[k][j]
      <4>1. \A j \in 1..l : j \in 1..Len(a) + Len(b) /\ j <= Len(a)
        BY <3>2, <3>3, <3>4
      <4>2. Len(a) \in Nat /\ Len(b) \in Nat
        BY <3>4
      <4>3. l <= Len(c)
        BY <3>2, <3>3, <3>5, <4>2
      <4>4. \A j \in 1..l : c[j] = a[j]
        BY <3>5, <4>1
      <4> QED
        BY <3>3, <4>3, <4>4
    <3>7. InFront(i)
      BY <3>2, <3>6 DEF c, l
    <3> HIDE DEF InFront
    <3> QED
      BY <2>1, <3>7
  <2>3. CASE k = i
    <3> HIDE DEF InFront
    <3> QED
      BY <1>4, <2>1, <2>3
  <2>4. CASE k > i
    <3>1. ~(k <= i)
      BY <1>1, <2>4
    <3> HIDE DEF InFront
    <3> QED
      BY <2>1, <3>1
  <2> QED
    BY <1>1, <2>2, <2>3, <2>4
<1>7. n \in T
  <2> HIDE DEF T, n
  <2>1. \A i \in 0..n : i \in T
    BY <1>1, <1>5, <1>6, UpTo
  <2> QED
    BY <1>1, <2>1
<1> QED
  BY <1>1, <1>2, <1>7

\* s is three sequences, one after the other.
Joined(s, S, a, b, c) ==
  /\ s \in Seq(S) /\ Len(s) = Len(a) + Len(b) + Len(c)
  /\ \A i \in 1..Len(a) : s[i] = a[i]
  /\ \A i \in 1..Len(b) : s[Len(a) + i] = b[i]
  /\ \A i \in 1..Len(c) : s[Len(a) + Len(b) + i] = c[i]

\* So is what \o makes of them.
LEMMA ThreeParts ==
  ASSUME NEW S, NEW a \in Seq(S), NEW b \in Seq(S), NEW c \in Seq(S)
  PROVE  Joined(a \o b \o c, S, a, b, c)
<1> DEFINE d == a \o b
           s == d \o c
           k == Len(a)
           l == Len(b)
           m == Len(c)
<1>1. k \in Nat /\ l \in Nat /\ m \in Nat
  OBVIOUS
<1>2. /\ d \in Seq(S) /\ Len(d) = k + l
      /\ \A i \in 1..k + l : d[i] = IF i <= k THEN a[i] ELSE b[i - k]
  BY ConcatProperties
<1> HIDE DEF d
<1>3. /\ s \in Seq(S) /\ Len(s) = k + l + m
      /\ \A i \in 1..k + l + m : s[i] = IF i <= k + l THEN d[i] ELSE c[i - (k + l)]
  <2>1. /\ s \in Seq(S) /\ Len(s) = Len(d) + Len(c)
        /\ \A i \in 1..Len(d) + Len(c) : s[i] = IF i <= Len(d) THEN d[i] ELSE c[i - Len(d)]
    <3>1. d \in Seq(S)
      BY <1>2
    <3> QED
      BY <3>1, ConcatProperties
  <2> HIDE DEF s
  <2> QED
    BY <1>2, <2>1
<1> HIDE DEF s, k, l, m
<1>4. \A i \in 1..k : s[i] = a[i]
  BY <1>1, <1>2, <1>3
<1>5. ASSUME NEW i \in 1..l PROVE s[k + i] = b[i]
  <2>1. k + i \in 1..k + l + m /\ k + i \in 1..k + l /\ k + i <= k + l /\ ~(k + i <= k)
        /\ (k + i) - k = i
    BY <1>1
  <2> QED
    BY <1>2, <1>3, <2>1
<1>6. ASSUME NEW i \in 1..m PROVE s[k + l + i] = c[i]
  <2>1. k + l + i \in 1..k + l + m /\ ~(k + l + i <= k + l) /\ (k + l + i) - (k + l) = i
    BY <1>1
  <2> QED
    BY <1>3, <2>1
<1>7. Joined(s, S, a, b, c)
  BY <1>3, <1>4, <1>5, <1>6 DEF Joined, k, l, m
<1> QED
  BY <1>7 DEF s, d

\* A number of zeros.
LEMMA ZerosAre ==
  ASSUME NEW k \in Nat
  PROVE  Zeros(k) \in Seq(Int) /\ Len(Zeros(k)) = k /\ \A i \in 1..k : Zeros(k)[i] = Zero
  BY DEF Zeros, Zero

\* The text is the message, a one, k zeros and the length.
PaddedTo(text, bytes, k, length) ==
  /\ text \in Seq(Int) /\ Len(text) = Len(bytes) + k + 3
  /\ \A i \in 1..Len(bytes) : text[i] = bytes[i]
  /\ text[Len(bytes) + 1] = Pad
  /\ \A i \in 1..k : text[Len(bytes) + 1 + i] = Zero
  /\ \A i \in 1..2 : text[Len(bytes) + 1 + k + i] = length[i]

\* There is such a text.
LEMMA PaddedText ==
  ASSUME NEW bytes \in Seq(Int), NEW length \in Seq(Int), Len(length) = 2, NEW k \in Nat
  PROVE  PaddedTo(bytes \o <<Pad>> \o Zeros(k) \o length, bytes, k, length)
<1> DEFINE z == Zeros(k)
           o == <<Pad>>
           a == bytes \o o
           n == Len(bytes)
           s == a \o z \o length
<1>1. n \in Nat /\ o \in Seq(Int) /\ Len(o) = 1 /\ o[1] = Pad
  BY DEF Pad
<1>2. z \in Seq(Int) /\ Len(z) = k /\ \A i \in 1..k : z[i] = Zero
  BY ZerosAre
<1> HIDE DEF o, z
<1>3. a \in Seq(Int) /\ Len(a) = n + 1 /\ (\A i \in 1..n : a[i] = bytes[i])
        /\ a[n + 1] = Pad
  <2>1. /\ a \in Seq(Int) /\ Len(a) = n + Len(o)
        /\ \A i \in 1..n + Len(o) : a[i] = IF i <= n THEN bytes[i] ELSE o[i - n]
    BY <1>1, ConcatProperties
  <2> HIDE DEF a, n
  <2>2. n + 1 \in 1..n + 1 /\ ~(n + 1 <= n) /\ (n + 1) - n = 1
    BY <1>1
  <2> QED
    BY <1>1, <2>1, <2>2
<1> HIDE DEF a
<1>4. /\ s \in Seq(Int) /\ Len(s) = Len(a) + Len(z) + Len(length)
      /\ \A i \in 1..Len(a) : s[i] = a[i]
      /\ \A i \in 1..Len(z) : s[Len(a) + i] = z[i]
      /\ \A i \in 1..Len(length) : s[Len(a) + Len(z) + i] = length[i]
  <2>1. a \in Seq(Int)
    BY <1>3
  <2>2. z \in Seq(Int)
    BY <1>2
  <2>3. length \in Seq(Int)
    OBVIOUS
  <2>4. Joined(s, Int, a, z, length)
    BY ONLY <2>1, <2>2, <2>3, ThreeParts, Zenon
  <2> HIDE DEF s
  <2> QED
    BY <2>4 DEF Joined
<1> HIDE DEF s, n
<1>5. /\ s \in Seq(Int) /\ Len(s) = n + 1 + k + 2
      /\ \A i \in 1..n + 1 : s[i] = a[i]
      /\ \A i \in 1..k : s[n + 1 + i] = z[i]
      /\ \A i \in 1..2 : s[n + 1 + k + i] = length[i]
  BY <1>2, <1>3, <1>4
<1>6. n + 1 + k + 2 = n + k + 3 /\ n + 1 \in 1..n + 1 /\ \A i \in 1..n : i \in 1..n + 1
  BY <1>1
<1>7. PaddedTo(s, bytes, k, length)
  BY <1>2, <1>3, <1>5, <1>6 DEF PaddedTo, n
<1> QED
  BY <1>7 DEF s, a, o, z

\* The number of zeros is the only one that makes the length fit.
LEMMA ZerosFit ==
  ASSUME NEW n \in Nat, NEW k \in 0..Block - 1, (n + 1 + k + 2) % Block = 0
  PROVE  k = CHOOSE i \in 0..(Block - 1) : (n + 1 + i + 2) % Block = 0
<1>0. Block \in Nat /\ Block > 2
  BY HashAssumption
<1>1. ASSUME NEW i \in 0..Block - 1, (n + 1 + i + 2) % Block = 0 PROVE i = k
  <2> DEFINE p == (n + 1 + k + 2) \div Block
             q == (n + 1 + i + 2) \div Block
  <2>1. p \in Int /\ q \in Int /\ k \in Int /\ i \in Int
    BY <1>0
  <2>2. n + 1 + k + 2 = Block * p + ((n + 1 + k + 2) % Block)
    BY <1>0
  <2>3. n + 1 + i + 2 = Block * q + ((n + 1 + i + 2) % Block)
    BY <1>0
  <2> HIDE DEF p, q
  <2>4. Block * (p - q) = k - i
    BY <1>0, <1>1, <2>1, <2>2, <2>3
  <2>5. CASE p - q >= 1
    <3>1. Block * (p - q) >= Block
      BY <1>0, <2>1, <2>5
    <3> QED
      BY <1>0, <2>1, <2>4, <3>1
  <2>6. CASE p - q <= -1
    <3>1. Block * (p - q) <= -Block
      BY <1>0, <2>1, <2>6
    <3> QED
      BY <1>0, <2>1, <2>4, <3>1
  <2>7. CASE p - q = 0
    BY <1>0, <2>1, <2>4, <2>7
  <2> QED
    BY <2>1, <2>5, <2>6, <2>7
<1> QED
  BY <1>1

\* The blocks of a text that has been cut to its end.
LEMMA BlocksAre ==
  ASSUME NEW text \in Seq(Int), NEW h \in Seq(Seq(Int)), BlocksOf(text, h),
         Len(text) = Block * Len(h)
  PROVE  h = [i \in 1..(Len(text) \div Block) |->
                SubSeq(text, (i - 1) * Block + 1, i * Block)]
<1>0. Block \in Nat /\ Block > 2
  BY HashAssumption
<1> DEFINE q == Len(h)
<1>1. q \in Nat
  OBVIOUS
<1>2. Len(text) \div Block = q
  <2>1. Len(text) = q * Block + 0
    BY <1>0, <1>1
  <2> HIDE DEF q
  <2>2. (q * Block + 0) \div Block = q
    BY <1>0, <1>1, DivIs
  <2> QED
    BY <2>1, <2>2
<1>3. h = [i \in 1..q |-> h[i]]
  BY LenProperties
<1>4. \A i \in 1..q : h[i] = SubSeq(text, (i - 1) * Block + 1, i * Block)
  BY DEF BlocksOf
<1> HIDE DEF q
<1> QED
  BY <1>2, <1>3, <1>4, Zenon

\* What the standards ask for.
LEMMA PaddedBlocksAre ==
  ASSUME NEW bytes \in Seq(Int), NEW length \in Seq(Int), Len(length) = 2,
         NEW k \in 0..Block - 1, (Len(bytes) + 1 + k + 2) % Block = 0,
         NEW h \in Seq(Seq(Int)),
         NEW text, text = bytes \o <<Pad>> \o Zeros(k) \o length,
         BlocksOf(text, h), Len(text) = Block * Len(h)
  PROVE  PaddedBlocks(bytes, length) = h
<1>1. k = CHOOSE i \in 0..(Block - 1) : (Len(bytes) + 1 + i + 2) % Block = 0
  <2> DEFINE n == Len(bytes)
  <2>1. n \in Nat /\ (n + 1 + k + 2) % Block = 0
    OBVIOUS
  <2> HIDE DEF n
  <2>2. k = CHOOSE i \in 0..(Block - 1) : (n + 1 + i + 2) % Block = 0
    BY <2>1, ZerosFit
  <2> QED
    BY <2>2 DEF n
<1>2. PaddedBlocks(bytes, length) =
        [i \in 1..(Len(text) \div Block) |-> SubSeq(text, (i - 1) * Block + 1, i * Block)]
  BY <1>1, Zenon DEF PaddedBlocks
<1>3. text \in Seq(Int)
  <2>1. k \in Nat
    BY HashAssumption
  <2>2. PaddedTo(text, bytes, k, length)
    BY <2>1, PaddedText
  <2> QED
    BY <2>2 DEF PaddedTo
<1> QED
  BY <1>2, <1>3, BlocksAre

\* The bytes of a block are those of the text from a on.
BlockFrom(text, a, block) ==
  /\ block \in Seq(Int) /\ Len(block) = Block /\ a + Block <= Len(text)
  /\ \A j \in 1..Block : block[j] = text[a + j]

\* The last block when the length fits behind the rest.
LEMMA LastBlock ==
  ASSUME NEW bytes \in Seq(Int), NEW text, NEW k \in Nat, NEW length \in Seq(Int),
         Len(length) = 2, PaddedTo(text, bytes, k, length),
         NEW a \in Nat, NEW rest \in Seq(Int), Len(bytes) = a + Len(rest),
         \A j \in 1..Len(rest) : rest[j] = text[a + j],
         Len(rest) + k + 3 = Block
  PROVE  /\ BlockFrom(text, a, Append(rest, Pad) \o Zeros(k) \o length)
         /\ a + Block = Len(text)
<1> DEFINE o == Append(rest, Pad)
           z == Zeros(k)
           s == o \o z \o length
           n == Len(bytes)
           r == Len(rest)
<1>1. n \in Nat /\ r \in Nat /\ Pad \in Int /\ Block \in Nat
  BY HashAssumption DEF Pad
<1>2. /\ o \in Seq(Int) /\ Len(o) = r + 1 /\ o[r + 1] = Pad
      /\ \A i \in 1..r : o[i] = rest[i]
  BY <1>1, AppendProperties
<1>3. z \in Seq(Int) /\ Len(z) = k /\ \A i \in 1..k : z[i] = Zero
  BY ZerosAre
<1>4. /\ Len(text) = n + k + 3 /\ text[n + 1] = Pad
      /\ \A i \in 1..k : text[n + 1 + i] = Zero
      /\ \A i \in 1..2 : text[n + 1 + k + i] = length[i]
  BY DEF PaddedTo
<1>5. n = a + r /\ r + k + 3 = Block /\ \A j \in 1..r : rest[j] = text[a + j]
  OBVIOUS
<1> HIDE DEF o, z, n, r
<1>6. Joined(s, Int, o, z, length)
  <2>1. o \in Seq(Int)
    BY <1>2
  <2>2. z \in Seq(Int)
    BY <1>3
  <2>3. length \in Seq(Int)
    OBVIOUS
  <2> QED
    BY ONLY <2>1, <2>2, <2>3, ThreeParts, Zenon
<1> HIDE DEF s
<1>7. /\ s \in Seq(Int) /\ Len(s) = r + 1 + k + 2
      /\ \A i \in 1..r + 1 : s[i] = o[i]
      /\ \A i \in 1..k : s[r + 1 + i] = z[i]
      /\ \A i \in 1..2 : s[r + 1 + k + i] = length[i]
  BY <1>2, <1>3, <1>6 DEF Joined
<1>8. Len(s) = Block /\ a + Block = Len(text)
  BY <1>1, <1>4, <1>5, <1>7
<1>9. ASSUME NEW j \in 1..Block PROVE s[j] = text[a + j]
  <2>1. CASE j <= r
    <3>1. j \in 1..r /\ j \in 1..r + 1
      BY <1>1, <2>1
    <3> QED
      BY <1>2, <1>5, <1>7, <3>1
  <2>2. CASE j = r + 1
    <3>1. j \in 1..r + 1 /\ a + j = n + 1
      BY <1>1, <1>5, <2>2
    <3> QED
      BY <1>2, <1>4, <1>7, <2>2, <3>1
  <2>3. CASE r + 1 < j /\ j <= r + 1 + k
    <3> DEFINE i == j - (r + 1)
    <3>1. i \in 1..k /\ r + 1 + i = j /\ n + 1 + i = a + j
      BY <1>1, <1>5, <2>3
    <3> HIDE DEF i
    <3>2. s[r + 1 + i] = z[i] /\ z[i] = Zero /\ text[n + 1 + i] = Zero
      BY <1>3, <1>4, <1>7, <3>1
    <3> QED
      BY <3>1, <3>2
  <2>4. CASE r + 1 + k < j
    <3> DEFINE i == j - (r + 1 + k)
    <3>1. i \in 1..2 /\ r + 1 + k + i = j /\ n + 1 + k + i = a + j
      BY <1>1, <1>5, <2>4
    <3> HIDE DEF i
    <3>2. s[r + 1 + k + i] = length[i] /\ text[n + 1 + k + i] = length[i]
      BY <1>4, <1>7, <3>1
    <3> QED
      BY <3>1, <3>2
  <2>5. j <= r \/ j = r + 1 \/ (r + 1 < j /\ j <= r + 1 + k) \/ r + 1 + k < j
    BY <1>1
  <2> QED
    BY <2>1, <2>2, <2>3, <2>4, <2>5, Zenon
<1>10. BlockFrom(text, a, s)
  <2>1. a + Block <= Len(text)
    BY <1>1, <1>8
  <2>2. s \in Seq(Int)
    BY <1>7
  <2> QED
    BY <1>8, <1>9, <2>1, <2>2, Zenon DEF BlockFrom
<1> QED
  BY <1>8, <1>10 DEF s, o, z

\* The last two blocks when it does not.
LEMMA LastBlocks ==
  ASSUME NEW bytes \in Seq(Int), NEW text, NEW k \in Nat, NEW length \in Seq(Int),
         Len(length) = 2, PaddedTo(text, bytes, k, length),
         NEW a \in Nat, NEW rest \in Seq(Int), Len(bytes) = a + Len(rest),
         \A j \in 1..Len(rest) : rest[j] = text[a + j],
         Len(rest) < Block, Len(rest) + k + 3 = 2 * Block
  PROVE  /\ BlockFrom(text, a, Append(rest, Pad) \o Zeros(Block - (Len(rest) + 1)))
         /\ BlockFrom(text, a + Block, << >> \o Zeros(Block - 2) \o length)
         /\ a + Block + Block = Len(text)
<1> DEFINE o == Append(rest, Pad)
           n == Len(bytes)
           r == Len(rest)
           l == Block - (r + 1)
           z == Zeros(l)
           s == o \o z
           m == Block - 2
           y == Zeros(m)
           none == << >>
           t == none \o y \o length
<1>1. /\ n \in Nat /\ r \in Nat /\ Pad \in Int /\ Block \in Nat /\ l \in Nat /\ m \in Nat
      /\ Block > 2
  BY HashAssumption DEF Pad
<1>2. /\ o \in Seq(Int) /\ Len(o) = r + 1 /\ o[r + 1] = Pad
      /\ \A i \in 1..r : o[i] = rest[i]
  BY <1>1, AppendProperties
<1>3. /\ Len(text) = n + k + 3 /\ text[n + 1] = Pad
      /\ \A i \in 1..k : text[n + 1 + i] = Zero
      /\ \A i \in 1..2 : text[n + 1 + k + i] = length[i]
  BY DEF PaddedTo
<1>4. /\ n = a + r /\ r < Block /\ r + k + 3 = 2 * Block
      /\ \A j \in 1..r : rest[j] = text[a + j]
  OBVIOUS
<1>5. r + 1 + l = Block /\ m + 2 = Block
  BY <1>1
<1> HIDE DEF l, m
<1>6. /\ z \in Seq(Int) /\ Len(z) = l /\ \A i \in 1..l : z[i] = Zero
      /\ y \in Seq(Int) /\ Len(y) = m /\ \A i \in 1..m : y[i] = Zero
  BY <1>1, ZerosAre
<1>7. none \in Seq(Int) /\ Len(none) = 0
  OBVIOUS
<1> HIDE DEF o, z, y, none, n, r
<1>8. /\ s \in Seq(Int) /\ Len(s) = r + 1 + l
      /\ \A i \in 1..r + 1 + l : s[i] = IF i <= r + 1 THEN o[i] ELSE z[i - (r + 1)]
  <2>1. /\ s \in Seq(Int) /\ Len(s) = Len(o) + Len(z)
        /\ \A i \in 1..Len(o) + Len(z) : s[i] = IF i <= Len(o) THEN o[i] ELSE z[i - Len(o)]
    <3>1. o \in Seq(Int)
      BY <1>2
    <3>2. z \in Seq(Int)
      BY <1>6
    <3> QED
      BY ONLY <3>1, <3>2, ConcatProperties
  <2> HIDE DEF s
  <2> QED
    BY <1>2, <1>6, <2>1
<1>9. Joined(t, Int, none, y, length)
  <2>1. none \in Seq(Int)
    BY <1>7
  <2>2. y \in Seq(Int)
    BY <1>6
  <2>3. length \in Seq(Int)
    OBVIOUS
  <2> QED
    BY ONLY <2>1, <2>2, <2>3, ThreeParts, Zenon
<1> HIDE DEF s, t
<1>10. /\ t \in Seq(Int) /\ Len(t) = 0 + m + 2
       /\ \A i \in 1..m : t[0 + i] = y[i]
       /\ \A i \in 1..2 : t[0 + m + i] = length[i]
  BY <1>6, <1>7, <1>9 DEF Joined
<1>11. Len(s) = Block /\ Len(t) = Block /\ a + Block + Block = Len(text)
       /\ a + Block <= Len(text)
  BY <1>1, <1>3, <1>4, <1>5, <1>8, <1>10
<1>12. ASSUME NEW j \in 1..Block PROVE s[j] = text[a + j]
  <2>0. j \in 1..r + 1 + l
    BY <1>5
  <2>1. CASE j <= r
    <3>1. j \in 1..r /\ j <= r + 1
      BY <1>1, <2>1
    <3> QED
      BY <1>2, <1>4, <1>8, <2>0, <3>1
  <2>2. CASE j = r + 1
    <3>1. n \in Nat /\ r \in Nat /\ a \in Nat /\ n = a + r
      BY <1>1, <1>4
    <3>2. j <= r + 1 /\ a + j = n + 1
      BY ONLY <3>1, <2>2
    <3>3. s[j] = o[j]
      BY ONLY <1>8, <2>0, <3>2
    <3>4. o[j] = Pad /\ text[a + j] = Pad
      BY ONLY <1>2, <1>3, <2>2, <3>2
    <3> QED
      BY ONLY <3>3, <3>4
  <2>3. CASE r + 1 < j
    <3> DEFINE i == j - (r + 1)
    <3>1. i \in 1..l /\ i \in 1..k /\ ~(j <= r + 1) /\ n + 1 + i = a + j
      BY <1>1, <1>4, <1>5, <2>3
    <3>2. s[j] = z[i]
      BY <1>8, <2>0, <3>1
    <3> HIDE DEF i
    <3>3. z[i] = Zero /\ text[n + 1 + i] = Zero
      BY <1>3, <1>6, <3>1
    <3> QED
      BY <3>1, <3>2, <3>3
  <2> QED
    BY <1>1, <2>1, <2>2, <2>3
<1>13. ASSUME NEW j \in 1..Block PROVE t[j] = text[a + Block + j]
  <2>1. CASE j <= m
    <3> DEFINE i == l + j
    <3>1. j \in 1..m /\ 0 + j = j /\ i \in 1..k /\ n + 1 + i = a + Block + j
      BY <1>1, <1>4, <1>5, <2>1
    <3> HIDE DEF i
    <3>2. t[0 + j] = y[j] /\ y[j] = Zero /\ text[n + 1 + i] = Zero
      BY <1>3, <1>6, <1>10, <3>1
    <3> QED
      BY <3>1, <3>2
  <2>2. CASE m < j
    <3> DEFINE i == j - m
    <3>0. /\ n \in Nat /\ r \in Nat /\ m \in Nat /\ Block \in Nat
          /\ n = a + r /\ r + k + 3 = 2 * Block /\ m + 2 = Block
          /\ j \in Int /\ j <= Block
      BY <1>1, <1>4, <1>5
    <3>1. i \in 1..2 /\ 0 + m + i = j /\ n + 1 + k + i = a + Block + j
      BY ONLY <2>2, <3>0, k \in Nat, a \in Nat
    <3> HIDE DEF i
    <3>2. t[0 + m + i] = length[i] /\ text[n + 1 + k + i] = length[i]
      BY <1>3, <1>10, <3>1
    <3> QED
      BY <3>1, <3>2
  <2> QED
    BY <1>1, <2>1, <2>2
<1>14. BlockFrom(text, a, s)
  BY <1>8, <1>11, <1>12 DEF BlockFrom
<1>15. BlockFrom(text, a + Block, t)
  <2>1. a + Block + Block <= Len(text)
    BY <1>1, <1>11
  <2> QED
    BY <1>10, <1>11, <1>13, <2>1 DEF BlockFrom
<1> QED
  BY <1>11, <1>14, <1>15 DEF s, t, o, z, y, none, l, m, r

\* One more block of the text.
LEMMA CutMore ==
  ASSUME NEW text \in Seq(Int), NEW h \in Seq(Seq(Int)), BlocksOf(text, h), NEW a,
         a = Block * Len(h), NEW block, BlockFrom(text, a, block)
  PROVE  /\ BlocksOf(text, Append(h, block)) /\ Append(h, block) \in Seq(Seq(Int))
         /\ Block * Len(Append(h, block)) = a + Block
<1>1. /\ block \in Seq(Int) /\ Len(block) = Block /\ Block * Len(h) + Block <= Len(text)
      /\ \A j \in 1..Block : block[j] = text[Block * Len(h) + j]
  BY DEF BlockFrom
<1> QED
  BY <1>1, CutBlock

\* As many zeros as it takes, when the last bytes are the rest.
ZerosFor(r) == IF r <= Block - 3 THEN (Block - 3) - r ELSE (2 * Block - 3) - r

\* They leave room for a one and the length.
LEMMA ZerosForIs ==
  ASSUME NEW r \in Nat, r < Block
  PROVE  /\ ZerosFor(r) \in 0..Block - 1
         /\ r <= Block - 3 => r + ZerosFor(r) + 3 = Block
              /\ (Block - 2) - (r + 1) = ZerosFor(r)
         /\ ~(r <= Block - 3) => r + ZerosFor(r) + 3 = 2 * Block
  BY HashAssumption DEF ZerosFor

\* They make the length fit.
LEMMA ZerosForFit ==
  ASSUME NEW r \in 0..Block - 1, NEW q \in Nat, NEW n, n = Block * q + r
  PROVE  ZerosFor(r) \in 0..Block - 1 /\ (n + 1 + ZerosFor(r) + 2) % Block = 0
<1>0. Block \in Nat /\ Block > 2
  BY HashAssumption
<1>1. /\ Block * q \in Nat /\ Block * (q + 1) = Block * q + Block
      /\ Block * (q + 2) = Block * q + 2 * Block
  BY <1>0
<1> DEFINE k == ZerosFor(r)
           a == Block * q
           s == n + 1 + k + 2
<1>2. k \in 0..Block - 1
  BY <1>0 DEF ZerosFor
<1>3. PICK p \in {q + 1, q + 2} : s = p * Block + 0
  <2>1. s = Block * (q + 1) \/ s = Block * (q + 2)
    <3> HIDE DEF a
    <3>1. a \in Nat /\ n = a + r
      BY <1>1 DEF a
    <3>2. s = a + Block \/ s = a + 2 * Block
      BY <1>0, <1>2, <3>1 DEF ZerosFor
    <3> HIDE DEF s
    <3> QED
      BY <1>1, <3>2 DEF a
  <2> HIDE DEF s
  <2>2. Block * (q + 1) = (q + 1) * Block + 0 /\ Block * (q + 2) = (q + 2) * Block + 0
    BY <1>0
  <2> QED
    BY <2>1, <2>2
<1> HIDE DEF s
<1>4. (p * Block + 0) % Block = 0
  <2>1. p \in Int
    OBVIOUS
  <2> QED
    BY <1>0, <2>1, DivIs
<1> QED
  BY <1>2, <1>3, <1>4 DEF s

\* What the end of the message does to an object.
LEMMA PadIs ==
  ASSUME NEW c \in Sha1States, NEW bytes \in Seq(Int), NEW k, k = ZerosFor(Len(c.block)),
         NEW length \in Seq(Int), length = <<c.high, c.low>>,
         NEW text \in Seq(Int), PaddedTo(text, bytes, k, length),
         CutTo(text, Len(bytes), c.h, c.block),
         NEW d, d = PadMessage(c)
  PROVE  /\ d \in Sha1States /\ d.corrupted = c.corrupted
         /\ BlocksOf(text, d.h) /\ Len(text) = Block * Len(d.h)
<1>0. Block \in Nat /\ Block > 2
  BY HashAssumption
<1> DEFINE rest == c.block
           r == Len(rest)
           h == c.h
           a == Block * Len(h)
           one == Append(rest, Pad)
           z == Zeros(Block - Len(one))
<1>1. /\ rest \in Seq(Int) /\ h \in Seq(Seq(Int)) /\ c.low \in Nat /\ c.high \in Nat
  BY Zenon DEF Sha1States
<1>2. /\ BlocksOf(text, h) /\ r < Block /\ Len(bytes) = a + r
      /\ \A j \in 1..r : rest[j] = text[a + j]
  BY DEF CutTo
<1>3. r \in Nat
  BY <1>1
<1>4. a \in Nat
  <2>1. Len(h) \in Nat
    BY <1>1
  <2> QED
    BY <1>0, <2>1
<1>5. one \in Seq(Int) /\ Len(one) = r + 1
  <2>1. Pad \in Int
    BY DEF Pad
  <2> QED
    BY <1>1, <2>1, AppendProperties
<1>6. Len(length) = 2
  OBVIOUS
<1>7. CASE r <= Block - 3
  <2>1. k \in Nat /\ r + k + 3 = Block /\ ~(r > Block - 3)
        /\ Block - 2 - Len(one) = k
    <3>1. k = ZerosFor(r) /\ r < Block
      BY <1>2
    <3> HIDE DEF one, r
    <3>2. /\ ZerosFor(r) \in 0..Block - 1
          /\ r + ZerosFor(r) + 3 = Block /\ (Block - 2) - (r + 1) = ZerosFor(r)
      BY <1>3, <1>7, <3>1, ZerosForIs
    <3>3. ~(r > Block - 3)
      BY <1>0, <1>3, <1>7
    <3>4. k \in Nat /\ r + k + 3 = Block
      BY <1>0, <3>1, <3>2
    <3> QED
      BY <1>5, <3>1, <3>2, <3>3, <3>4
  <2> DEFINE final == one \o Zeros(k) \o length
             e == [c EXCEPT !.block = one]
             f == [e EXCEPT !.block = final]
  <2> HIDE DEF one
  <2>2. e \in Sha1States /\ e.block = one /\ e.high = c.high /\ e.low = c.low /\ e.h = h
        /\ e.corrupted = c.corrupted
    BY <1>5, Zenon DEF Sha1States
  <2> HIDE DEF rest, r, h, a
  <2>3. BlockFrom(text, a, final) /\ a + Block = Len(text)
    <3>1. PaddedTo(text, bytes, k, length) /\ bytes \in Seq(Int) /\ length \in Seq(Int)
      OBVIOUS
    <3>2. rest \in Seq(Int) /\ k \in Nat /\ Len(bytes) = a + Len(rest)
          /\ Len(rest) + k + 3 = Block
      BY <1>1, <1>2, <2>1 DEF r
    <3>3. \A j \in 1..Len(rest) : rest[j] = text[a + j]
      BY <1>2 DEF r
    <3>4. a \in Nat
      BY <1>4
    <3>5. /\ BlockFrom(text, a, Append(rest, Pad) \o Zeros(k) \o length)
          /\ a + Block = Len(text)
      <4>1. bytes \in Seq(Int)
        OBVIOUS
      <4>2. length \in Seq(Int)
        OBVIOUS
      <4>3. rest \in Seq(Int)
        BY <3>2
      <4>4. k \in Nat
        BY <3>2
      <4> QED
        BY ONLY <1>6, <3>1, <3>2, <3>3, <3>4, <4>1, <4>2, <4>3, <4>4, LastBlock, SMT
    <3> QED
      BY <3>5 DEF one
  <2>4. final \in Seq(Int)
    BY <2>3 DEF BlockFrom
  <2>5. d = ProcessMessageBlock(
              [e EXCEPT !.block = @ \o Zeros(Block - 2 - Len(@)) \o <<e.high, e.low>>])
    BY <2>1, Zenon DEF PadMessage, rest, r, one
  <2>6. [e EXCEPT !.block = @ \o Zeros(Block - 2 - Len(@)) \o <<e.high, e.low>>] = f
    BY <2>1, <2>2, Zenon
  <2> HIDE DEF final, e
  <2>7. f \in Sha1States /\ f.block = final /\ f.h = h /\ f.corrupted = c.corrupted
    BY <2>2, <2>4, Zenon DEF Sha1States
  <2> HIDE DEF f
  <2>8. d \in Sha1States /\ d.h = Append(h, final) /\ d.corrupted = c.corrupted
    BY <2>5, <2>6, <2>7, ProcessIs
  <2>9. BlocksOf(text, Append(h, final)) /\ Block * Len(Append(h, final)) = a + Block
    BY <1>1, <1>2, <2>3, CutMore DEF a
  <2> QED
    BY <2>3, <2>8, <2>9, Zenon
<1>8. CASE ~(r <= Block - 3)
  <2>1. k \in Nat /\ r + k + 3 = 2 * Block /\ r > Block - 3
        /\ Block - Len(one) = Block - (r + 1)
    <3>1. k = ZerosFor(r) /\ r < Block
      BY <1>2
    <3> HIDE DEF one, r
    <3>2. ZerosFor(r) \in 0..Block - 1 /\ r + ZerosFor(r) + 3 = 2 * Block
      BY <1>3, <1>8, <3>1, ZerosForIs
    <3>3. r > Block - 3
      BY <1>0, <1>3, <1>8
    <3>4. k \in Nat /\ r + k + 3 = 2 * Block
      BY <1>0, <3>1, <3>2
    <3> QED
      BY <1>5, <3>3, <3>4
  <2> DEFINE first == one \o z
             none == << >>
             final == none \o Zeros(Block - 2) \o length
             e == [c EXCEPT !.block = first]
             g == ProcessMessageBlock(e)
             f == [g EXCEPT !.block = final]
             m == Append(h, first)
  <2> HIDE DEF one
  <2>3. /\ BlockFrom(text, a, one \o Zeros(Block - (r + 1)))
        /\ BlockFrom(text, a + Block, final) /\ a + Block + Block = Len(text)
    <3> HIDE DEF rest, r, h, a
    <3>1. PaddedTo(text, bytes, k, length) /\ bytes \in Seq(Int) /\ length \in Seq(Int)
      OBVIOUS
    <3>2. rest \in Seq(Int) /\ k \in Nat /\ Len(bytes) = a + Len(rest) /\ Len(rest) < Block
          /\ Len(rest) + k + 3 = 2 * Block
      BY <1>1, <1>2, <2>1 DEF r
    <3>3. \A j \in 1..Len(rest) : rest[j] = text[a + j]
      BY <1>2 DEF r
    <3>4. a \in Nat
      BY <1>4
    <3>5. /\ BlockFrom(text, a, Append(rest, Pad) \o Zeros(Block - (Len(rest) + 1)))
          /\ BlockFrom(text, a + Block, << >> \o Zeros(Block - 2) \o length)
          /\ a + Block + Block = Len(text)
      BY ONLY <1>6, <3>1, <3>2, <3>3, <3>4, LastBlocks
    <3> QED
      BY <3>5, Zenon DEF one, r
  <2>4. BlockFrom(text, a, first)
    BY <2>1, <2>3, Zenon
  <2>5. first \in Seq(Int) /\ final \in Seq(Int)
    BY <2>3, <2>4 DEF BlockFrom
  <2>6. d = ProcessMessageBlock(
              [g EXCEPT !.block = @ \o Zeros(Block - 2 - Len(@)) \o <<g.high, g.low>>])
    BY <2>1, Zenon DEF PadMessage, one
  <2> HIDE DEF first
  <2>7. e \in Sha1States /\ e.block = first /\ e.high = c.high /\ e.low = c.low /\ e.h = h
        /\ e.corrupted = c.corrupted
    BY <2>5, Zenon DEF Sha1States
  <2> HIDE DEF e
  <2>8. /\ g \in Sha1States /\ g.h = m /\ g.block = none /\ g.low = c.low /\ g.high = c.high
        /\ g.corrupted = c.corrupted
    <3>1. /\ g \in Sha1States /\ g.h = Append(e.h, e.block) /\ g.block = << >>
          /\ g.low = e.low /\ g.high = e.high /\ g.corrupted = e.corrupted
      BY <2>7, ProcessIs
    <3> HIDE DEF g
    <3> QED
      BY <2>7, <3>1, Zenon
  <2> HIDE DEF g
  <2>9. [g EXCEPT !.block = @ \o Zeros(Block - 2 - Len(@)) \o <<g.high, g.low>>] = f
    <3>1. Block - 2 - Len(none) = Block - 2
      BY <1>0
    <3> HIDE DEF none
    <3> QED
      BY <2>8, <3>1, Zenon
  <2> HIDE DEF final
  <2>10. f \in Sha1States /\ f.block = final /\ f.h = m /\ f.corrupted = c.corrupted
    BY <2>5, <2>8, Zenon DEF Sha1States
  <2> HIDE DEF f
  <2>11. d \in Sha1States /\ d.h = Append(m, final) /\ d.corrupted = c.corrupted
    BY <2>6, <2>9, <2>10, ProcessIs
  <2>12. BlocksOf(text, m) /\ m \in Seq(Seq(Int)) /\ Block * Len(m) = a + Block
    BY ONLY <1>1, <1>2, <2>4, CutMore
  <2> HIDE DEF m, a
  <2>13. /\ BlocksOf(text, Append(m, final))
         /\ Block * Len(Append(m, final)) = (a + Block) + Block
    BY <2>3, <2>12, CutMore
  <2> QED
    BY <2>3, <2>11, <2>13, Zenon
<1> QED
  BY <1>7, <1>8

\* An object stays one, whatever it is given.
LEMMA Sha1InputKeeps ==
  ASSUME NEW c \in Sha1States, NEW bytes \in Seq(Int)
  PROVE  Sha1Input(c, bytes) \in Sha1States
<1> DEFINE m == Len(bytes)
           In[i \in 0..Len(bytes)] == IF i = 0 THEN c ELSE InputByte(In[i - 1], bytes[i])
           d == [c EXCEPT !.corrupted = TRUE]
<1>1. m \in Nat /\ \A i \in 1..m : bytes[i] \in Int
  OBVIOUS
<1>2. Sha1Input(c, bytes) \in {c, d, In[m]}
  BY DEF Sha1Input
<1>3. d \in Sha1States
  BY Zenon DEF Sha1States
<1> HIDE DEF d
<1>4. PICK g : g = [i \in 0..m |-> IF i = 0 THEN c ELSE InputByte(g[i - 1], bytes[i])]
  BY Sha1Rounds
<1>5. In = [i \in 0..m |-> IF i = 0 THEN c ELSE InputByte(In[i - 1], bytes[i])]
  BY <1>4 DEF In
<1> HIDE DEF In
<1> DEFINE T == {i \in 0..m : In[i] \in Sha1States}
<1>6. 0 \in T
  BY <1>1, <1>5
<1>7. ASSUME NEW i \in 1..m, i - 1 \in T PROVE i \in T
  <2>1. i \in 0..m /\ i # 0 /\ bytes[i] \in Int
    BY <1>1
  <2> HIDE DEF m
  <2>2. In[i] = InputByte(In[i - 1], bytes[i])
    BY <1>5, <2>1, Zenon
  <2>3. In[i] \in Sha1States
    BY <1>7, <2>1, <2>2, InputByteKeeps
  <2> QED
    BY <2>1, <2>3
<1>8. m \in T
  <2> HIDE DEF T, m
  <2>1. \A i \in 0..m : i \in T
    BY <1>1, <1>6, <1>7, UpTo
  <2> QED
    BY <1>1, <2>1
<1> QED
  BY <1>2, <1>3, <1>8

\* An object that has been given nothing.
LEMMA Sha1Starts ==
  ASSUME NEW text \in Seq(Int)
  PROVE  Sha1At(Sha1Reset, 0, text)
<1> DEFINE none == << >>
           zero == 0
<1>1. none \in Seq(Int) /\ none \in Seq(Seq(Int)) /\ Len(none) = 0 /\ zero \in Nat
  OBVIOUS
<1>2. /\ Sha1Reset = [low |-> zero, high |-> zero, block |-> none, h |-> none,
                      computed |-> FALSE, corrupted |-> FALSE]
  BY DEF Sha1Reset
<1>3. Block \in Nat /\ Block > 2 /\ Word \in Nat /\ Word > 0
  BY HashAssumption
<1>4. 0 < Word * Word /\ 8 * 0 = 0 /\ Block * 0 + 0 = 0 /\ 0 + Word * 0 = 0
        /\ ~(0 >= Word * Word)
  BY <1>3
<1>5. CutTo(text, 0, none, none)
  BY <1>1, <1>3, <1>4 DEF CutTo, BlocksOf
<1> HIDE DEF none
<1>6. /\ Sha1Reset.low = 0 /\ Sha1Reset.high = 0 /\ ~Sha1Reset.computed
           /\ ~Sha1Reset.corrupted
      /\ Sha1Reset.h = none /\ Sha1Reset.block = none
  BY <1>2
<1> HIDE DEF zero
<1>7. Sha1Reset \in Sha1States
  BY <1>1, <1>2, Zenon DEF Sha1States
<1> QED
  BY <1>3, <1>4, <1>5, <1>6, <1>7, Zenon DEF Sha1At

\* The loop over the pieces has a state after each of them.
LEMMA Sha1PieceRounds ==
  ASSUME NEW pieces \in Seq(Seq(Int))
  PROVE  \E g : g = [i \in 0..Len(pieces) |->
                       IF i = 0 THEN Sha1Reset ELSE Sha1Input(g[i - 1], pieces[i])]
<1> DEFINE m == Len(pieces)
           W == Sha1States
           c == Sha1Reset
           F == [i \in 1..m |-> [s \in W |-> Sha1Input(s, pieces[i])]]
<1>1. m \in Nat /\ \A i \in 1..m : pieces[i] \in Seq(Int)
  OBVIOUS
<1>2. F \in [1..m -> [W -> W]]
  BY <1>1, Sha1InputKeeps
<1>3. \A i \in 1..m : \A s \in W : F[i][s] = Sha1Input(s, pieces[i])
  OBVIOUS
<1>4. c \in W
  <2>0. << >> \in Seq(Int)
    OBVIOUS
  <2>1. Sha1At(c, 0, << >>)
    BY <2>0, Sha1Starts
  <2> QED
    BY <2>1, Zenon DEF Sha1At
<1> HIDE DEF F, W, c
<1>5. PICK g \in [0..m -> W] : g[0] = c /\ \A i \in 1..m : g[i] = F[i][g[i - 1]]
  <2>1. m \in Nat
    BY <1>1
  <2> HIDE DEF m
  <2> QED
    <3>1. PICK g : RunOf(g, W, c, m, F)
      BY <1>2, <1>4, <2>1, RunExists, Zenon
    <3> QED
      BY <3>1, Zenon DEF RunOf
<1> HIDE DEF m
<1>6. ASSUME NEW i \in 1..m PROVE g[i] = Sha1Input(g[i - 1], pieces[i])
  <2>1. i - 1 \in 0..m
    BY <1>1
  <2>2. g[i - 1] \in W
    BY <1>5, <2>1
  <2> QED
    BY <1>3, <1>5, <2>2, Zenon
<1>7. g = [i \in 0..m |-> IF i = 0 THEN c ELSE Sha1Input(g[i - 1], pieces[i])]
  <2>1. \A i \in 0..m : i = 0 \/ i \in 1..m
    BY <1>1
  <2> QED
    BY <1>5, <1>6, <2>1
<1> QED
  BY <1>7 DEF m, c

\* The bytes are those of the text behind the first p.
PieceAt(text, p, bytes) ==
  /\ p \in Nat /\ bytes \in Seq(Int) /\ p + Len(bytes) <= Len(text)
  /\ \A j \in 1..Len(bytes) : bytes[j] = text[p + j]

\* Each piece is a part of a text that begins with the whole.
LEMMA PieceOfText ==
  ASSUME NEW pieces \in Seq(Seq(Int)), NEW whole, whole = FlattenSeq(pieces),
         NEW L, FrontsOf(L, pieces, Int), NEW text \in Seq(Int), Len(whole) <= Len(text),
         \A j \in 1..Len(whole) : text[j] = whole[j],
         NEW i \in 1..Len(pieces)
  PROVE  /\ PieceAt(text, Len(L[i - 1]), pieces[i])
         /\ Len(L[i - 1]) + Len(pieces[i]) = Len(L[i])
<1> DEFINE n == Len(pieces)
           a == L[i - 1]
           b == pieces[i]
           l == L[i]
<1>1. n \in Nat /\ i \in 0..n /\ i - 1 \in 0..n /\ b \in Seq(Int)
  OBVIOUS
<1>2. a \in Seq(Int) /\ l \in Seq(Int) /\ l = a \o b /\ whole \in Seq(Int)
  <2>1. /\ \A k \in 0..n : L[k] \in Seq(Int)
        /\ \A k \in 1..n : L[k] = L[k - 1] \o pieces[k]
        /\ L[n] = whole
    BY DEF FrontsOf
  <2>2. n \in 0..n
    BY <1>1
  <2>3. whole \in Seq(Int)
    BY <2>1, <2>2
  <2>4. l = a \o b
    BY <2>1, Zenon
  <2> HIDE DEF n
  <2>5. a \in Seq(Int) /\ l \in Seq(Int)
    BY <1>1, <2>1
  <2> QED
    BY <2>3, <2>4, <2>5, Zenon
<1>3. Len(l) <= Len(whole) /\ \A j \in 1..Len(l) : whole[j] = l[j]
  BY <1>1, FrontsAre, SMTT(20)
<1>4. /\ Len(l) = Len(a) + Len(b)
      /\ \A j \in 1..Len(a) + Len(b) : l[j] = IF j <= Len(a) THEN a[j] ELSE b[j - Len(a)]
  <2>1. a \in Seq(Int)
    BY <1>2
  <2>2. b \in Seq(Int)
    BY <1>1
  <2> HIDE DEF a, b
  <2>3. /\ Len(a \o b) = Len(a) + Len(b)
        /\ \A j \in 1..Len(a) + Len(b) : (a \o b)[j] =
             IF j <= Len(a) THEN a[j] ELSE b[j - Len(a)]
    BY ONLY <2>1, <2>2, ConcatProperties
  <2> HIDE DEF l
  <2> QED
    BY <1>2, <2>3, Zenon
<1>5. Len(a) \in Nat /\ Len(b) \in Nat /\ Len(whole) \in Nat /\ Len(text) \in Nat
  BY <1>1, <1>2
<1>6. Len(whole) <= Len(text) /\ \A j \in 1..Len(whole) : text[j] = whole[j]
  OBVIOUS
<1> HIDE DEF a, b, l
<1>7. ASSUME NEW j \in 1..Len(b) PROVE b[j] = text[Len(a) + j]
  <2> DEFINE k == Len(a) + j
  <2>1. /\ k \in 1..Len(a) + Len(b) /\ ~(k <= Len(a)) /\ k - Len(a) = j /\ k \in 1..Len(l)
        /\ k \in 1..Len(whole)
    BY <1>3, <1>4, <1>5
  <2> HIDE DEF k
  <2>2. l[k] = b[j]
    BY <1>4, <2>1
  <2>3. whole[k] = l[k] /\ text[k] = whole[k]
    BY <1>3, <1>6, <2>1
  <2> QED
    BY <2>2, <2>3 DEF k
<1>8. Len(a) + Len(b) <= Len(text)
  BY <1>3, <1>4, <1>5, <1>6
<1>9. PieceAt(text, Len(a), b)
  BY <1>1, <1>5, <1>7, <1>8 DEF PieceAt
<1> QED
  BY <1>4, <1>9 DEF a, b, l

\* The object has been given the pieces.
LEMMA Sha1Pieces ==
  ASSUME NEW pieces \in Seq(Seq(Int)), NEW whole, whole = FlattenSeq(pieces),
         NEW text \in Seq(Int), Len(whole) <= Len(text),
         \A j \in 1..Len(whole) : text[j] = whole[j]
  PROVE  \E c : Sha1At(c, Len(whole), text) /\ Sha1Of(pieces) = Sha1Result(c)
<1> DEFINE n == Len(pieces)
           A[i \in 0..Len(pieces)] ==
             IF i = 0 THEN Sha1Reset ELSE Sha1Input(A[i - 1], pieces[i])
<1>1. n \in Nat /\ \A i \in 1..n : pieces[i] \in Seq(Int)
  OBVIOUS
<1>2. PICK L : FrontsOf(L, pieces, Int)
  BY FlattenIs
<1>3. /\ \A i \in 0..n : L[i] \in Seq(Int)
      /\ L[0] = << >> /\ \A i \in 1..n : L[i] = L[i - 1] \o pieces[i]
      /\ L[n] = whole
  BY <1>2 DEF FrontsOf
<1>4. Sha1Of(pieces) = Sha1Result(A[n])
  BY DEF Sha1Of
<1>5. PICK g : g = [i \in 0..n |->
                      IF i = 0 THEN Sha1Reset ELSE Sha1Input(g[i - 1], pieces[i])]
  BY Sha1PieceRounds
<1>6. A = [i \in 0..n |-> IF i = 0 THEN Sha1Reset ELSE Sha1Input(A[i - 1], pieces[i])]
  BY <1>5 DEF A
<1> HIDE DEF A
<1> DEFINE T == {i \in 0..n : Sha1At(A[i], Len(L[i]), text)}
<1>7. 0 \in T
  <2>1. A[0] = Sha1Reset /\ Len(L[0]) = 0 /\ 0 \in 0..n
    BY <1>1, <1>3, <1>6
  <2> QED
    BY <2>1, Sha1Starts
<1>8. ASSUME NEW i \in 1..n, i - 1 \in T PROVE i \in T
  <2>1. i \in 0..n /\ i # 0 /\ i - 1 \in 0..n
    BY <1>1
  <2>2. A[i] = Sha1Input(A[i - 1], pieces[i])
    <3> HIDE DEF n
    <3> QED
      BY <1>6, <2>1, Zenon
  <2>3. PieceAt(text, Len(L[i - 1]), pieces[i])
          /\ Len(L[i - 1]) + Len(pieces[i]) = Len(L[i])
    BY <1>2, PieceOfText
  <2>4. Sha1At(A[i - 1], Len(L[i - 1]), text)
    BY <1>8
  <2> DEFINE b == pieces[i]
             p == Len(L[i - 1])
             c == A[i - 1]
  <2>5. /\ p \in Nat /\ b \in Seq(Int) /\ Sha1At(c, p, text) /\ p + Len(b) <= Len(text)
        /\ \A j \in 1..Len(b) : b[j] = text[p + j]
    BY <2>3, <2>4 DEF PieceAt
  <2> HIDE DEF b, p, c
  <2>6. Sha1At(Sha1Input(c, b), p + Len(b), text)
    BY <2>5, Sha1Piece
  <2> HIDE DEF n
  <2> QED
    BY <2>1, <2>2, <2>3, <2>6 DEF b, p, c
<1>9. n \in T
  <2> HIDE DEF T, n
  <2>1. \A i \in 0..n : i \in T
    BY <1>1, <1>7, <1>8, UpTo
  <2> QED
    BY <1>1, <2>1
<1> QED
  BY <1>3, <1>4, <1>9

\* The text that the standard makes of a message.
Padded(bytes, length) ==
  bytes \o <<Pad>> \o Zeros(ZerosFor(Len(bytes) % Block)) \o length

\* It begins with the message.
LEMMA PaddedIs ==
  ASSUME NEW bytes \in Seq(Int), NEW length \in Seq(Int), Len(length) = 2,
         NEW text, text = Padded(bytes, length)
  PROVE  /\ PaddedTo(text, bytes, ZerosFor(Len(bytes) % Block), length)
         /\ text \in Seq(Int) /\ Len(bytes) <= Len(text)
         /\ \A j \in 1..Len(bytes) : text[j] = bytes[j]
<1> DEFINE n == Len(bytes)
           r == n % Block
           k == ZerosFor(r)
<1>1. n \in Nat /\ Block \in Nat /\ Block > 2
  BY HashAssumption
<1>2. r \in Nat /\ r < Block
  BY <1>1
<1>3. k \in Nat
  <2> HIDE DEF r
  <2>1. k \in 0..Block - 1
    BY <1>2, ZerosForIs
  <2> QED
    BY <1>1, <2>1
<1>4. PaddedTo(text, bytes, k, length)
  BY <1>3, PaddedText, Zenon DEF Padded
<1> HIDE DEF k
<1>5. /\ text \in Seq(Int) /\ Len(text) = n + k + 3
      /\ \A j \in 1..n : text[j] = bytes[j]
  BY <1>4 DEF PaddedTo
<1>6. n <= Len(text)
  BY <1>1, <1>3, <1>5
<1> QED
  BY <1>4, <1>5, <1>6 DEF k

\* Its blocks are what the standards ask for.
LEMMA PaddedBlocksIs ==
  ASSUME NEW bytes \in Seq(Int), NEW length \in Seq(Int), Len(length) = 2,
         NEW text, text = Padded(bytes, length), NEW h \in Seq(Seq(Int)),
         BlocksOf(text, h), Len(text) = Block * Len(h)
  PROVE  PaddedBlocks(bytes, length) = h
<1> DEFINE n == Len(bytes)
           r == n % Block
           q == n \div Block
           k == ZerosFor(r)
<1>1. n \in Nat /\ Block \in Nat /\ Block > 2
  BY HashAssumption
<1>2. r \in 0..Block - 1 /\ n = Block * q + r /\ q \in Int
  BY <1>1
<1> HIDE DEF r, q
<1>3. q \in Nat
  <2>1. CASE q <= -1
    <3>1. Block * q <= -Block
      BY <1>1, <1>2, <2>1
    <3>2. Block * q \in Int
      BY <1>1, <1>2
    <3> DEFINE b == Block * q
    <3>3. b \in Int /\ b <= -Block /\ n = b + r
      BY <1>2, <3>1, <3>2
    <3> HIDE DEF b
    <3>4. FALSE
      BY <1>1, <1>2, <3>3
    <3> QED
      BY <3>4
  <2> QED
    BY <1>2, <2>1
<1>4. k \in 0..Block - 1 /\ (n + 1 + k + 2) % Block = 0
  BY <1>1, <1>2, <1>3, ZerosForFit
<1>5. text = bytes \o <<Pad>> \o Zeros(k) \o length
  BY Zenon DEF Padded, r
<1> HIDE DEF k
<1> QED
  BY <1>4, <1>5, PaddedBlocksAre

\* The length of a message, and the rest behind its blocks.
LEMMA CutIs ==
  ASSUME NEW text, NEW n \in Nat, NEW h \in Seq(Seq(Int)), NEW rest \in Seq(Int),
         CutTo(text, n, h, rest)
  PROVE  Len(rest) = n % Block
<1> DEFINE q == Len(h)
           r == Len(rest)
<1>1. q \in Nat /\ r \in Nat /\ Block \in Nat /\ Block > 2
  BY HashAssumption
<1>2. r < Block /\ n = Block * q + r
  BY DEF CutTo
<1> HIDE DEF q, r
<1>3. n = q * Block + r /\ q \in Int
  BY <1>1, <1>2
<1>4. (q * Block + r) % Block = r
  <2>1. Block > 0
    BY <1>1
  <2> QED
    BY ONLY <1>1, <1>2, <1>3, <2>1, DivIs
<1> QED
  BY <1>3, <1>4 DEF r

\* The two words of the length.
Sha1Length(n) == <<(8 * n) \div Word, (8 * n) % Word>>

\* The digest of an object that has been given the message.
LEMMA Sha1ResultIs ==
  ASSUME NEW bytes \in Seq(Int), NEW text, text = Padded(bytes, Sha1Length(Len(bytes))),
         NEW c, Sha1At(c, Len(bytes), text), NEW r, r = Sha1Result(c)
  PROVE  /\ r.digest = Sha1Standard(bytes)
         /\ Sha1Result(r.c).digest = r.digest
         /\ Sha1Result(Sha1Input(r.c, <<1>>)).digest = << >>
<1> DEFINE n == Len(bytes)
           ww == Word * Word
           one == <<1>>
           none == << >>
           length == Sha1Length(n)
<1>0. n \in Nat /\ Word \in Nat /\ Word > 0
  BY HashAssumption
<1>1. /\ c \in Sha1States /\ ~c.computed
      /\ 8 * n >= ww => c.corrupted
      /\ 8 * n < ww =>
           /\ ~c.corrupted /\ c.low < Word /\ c.high < Word /\ c.low + Word * c.high = 8 * n
           /\ CutTo(text, n, c.h, c.block)
  BY Zenon DEF Sha1At
<1>2. one # none
  OBVIOUS
<1> HIDE DEF one, none
<1>3. \A d \in Sha1States : d.computed \/ d.corrupted =>
        Sha1Result(Sha1Input(d, one)).digest = none
  <2> TAKE d \in Sha1States
  <2> HAVE d.computed \/ d.corrupted
  <2> DEFINE e == [d EXCEPT !.corrupted = TRUE]
  <2>1. Sha1Input(d, one) = e
    BY <1>2 DEF Sha1Input, none
  <2>2. e.corrupted
    BY Zenon DEF Sha1States
  <2> HIDE DEF e
  <2>3. Sha1Result(e) = [digest |-> none, c |-> e]
    BY <2>2 DEF Sha1Result, none
  <2> QED
    BY <2>1, <2>3
<1>4. ww \in Nat
  BY <1>0
<1> HIDE DEF ww, n
<1>5. CASE 8 * n >= ww
  <2>1. c.corrupted
    BY <1>1, <1>5
  <2>2. r = [digest |-> none, c |-> c]
    BY <2>1 DEF Sha1Result, none
  <2>3. r.digest = none /\ r.c = c
    BY <2>2
  <2>4. Sha1Standard(bytes) = none
    BY <1>5 DEF Sha1Standard, none, n, ww
  <2>5. Sha1Result(r.c) = r
    BY <2>3
  <2>6. Sha1Result(Sha1Input(c, one)).digest = none
    BY <1>1, <1>3, <2>1, Zenon
  <2> QED
    BY <2>3, <2>4, <2>5, <2>6, Zenon DEF one, none
<1>6. CASE 8 * n < ww
  <2>1. /\ ~c.corrupted /\ c.low < Word /\ c.high < Word /\ c.low + Word * c.high = 8 * n
        /\ CutTo(text, n, c.h, c.block)
    BY <1>1, <1>6, Zenon
  <2>2. c.low \in Nat /\ c.high \in Nat /\ c.h \in Seq(Seq(Int)) /\ c.block \in Seq(Int)
    BY <1>1, Zenon DEF Sha1States
  <2>3. (8 * n) % Word = c.low /\ (8 * n) \div Word = c.high
    <3> DEFINE lo == c.low
               hi == c.high
    <3>1. lo \in Nat /\ hi \in Int /\ lo < Word /\ lo + Word * hi = 8 * n
      BY <2>1, <2>2
    <3> HIDE DEF lo, hi
    <3>2. 8 * n = hi * Word + lo
      BY <1>0, <3>1
    <3>3. (hi * Word + lo) % Word = lo /\ (hi * Word + lo) \div Word = hi
      BY <1>0, <3>1, DivIs
    <3> QED
      BY <3>2, <3>3 DEF lo, hi
  <2>4. length = <<c.high, c.low>>
    BY <2>3 DEF Sha1Length
  <2>5. length \in Seq(Int) /\ Len(length) = 2
    <3>1. c.high \in Int /\ c.low \in Int
      BY <2>2
    <3> QED
      BY <2>4, <3>1
  <2> HIDE DEF length
  <2> DEFINE k == ZerosFor(Len(c.block))
             p == PadMessage(c)
             d == [p EXCEPT !.computed = TRUE]
  <2>6. Len(c.block) = n % Block
    BY <1>0, <2>1, <2>2, CutIs
  <2>7. PaddedTo(text, bytes, k, length) /\ text \in Seq(Int)
    <3>1. text = Padded(bytes, length)
      BY DEF length, n
    <3>2. k = ZerosFor(Len(bytes) % Block)
      BY <2>6 DEF n
    <3> HIDE DEF k
    <3> QED
      BY <2>5, <3>1, <3>2, PaddedIs
  <2>8. /\ p \in Sha1States /\ p.corrupted = c.corrupted
        /\ BlocksOf(text, p.h) /\ Len(text) = Block * Len(p.h)
    <3> HIDE DEF p
    <3>1. p = PadMessage(c) /\ k = ZerosFor(Len(c.block))
      BY DEF p
    <3>2. CutTo(text, Len(bytes), c.h, c.block)
      BY <2>1 DEF n
    <3> HIDE DEF k
    <3> QED
      BY <1>1, <2>4, <2>5, <2>7, <3>1, <3>2, PadIs, ZenonT(30)
  <2>9. PaddedBlocks(bytes, length) = p.h
    <3> HIDE DEF p
    <3>1. p.h \in Seq(Seq(Int))
      BY <2>8, Zenon DEF Sha1States
    <3>2. text = Padded(bytes, length)
      BY DEF length, n
    <3> QED
      BY <2>5, <2>8, <3>1, <3>2, PaddedBlocksIs
  <2>10. Sha1Standard(bytes) = p.h
    <3>1. ~(8 * n >= ww)
      BY <1>0, <1>4, <1>6
    <3> QED
      BY <2>9, <3>1, Zenon DEF Sha1Standard, n, ww, length, Sha1Length
  <2>11. r = [digest |-> d.h, c |-> d]
    BY <1>1, <2>1, Zenon DEF Sha1Result
  <2> HIDE DEF p
  <2>12. d \in Sha1States /\ d.h = p.h /\ d.computed /\ ~d.corrupted
    BY <2>1, <2>8, Zenon DEF Sha1States
  <2> HIDE DEF d
  <2>13. r.digest = d.h /\ r.c = d
    BY <2>11
  <2>14. Sha1Result(d) = [digest |-> d.h, c |-> d]
    BY <2>12, Zenon DEF Sha1Result
  <2>15. Sha1Result(d).digest = d.h
    BY <2>14
  <2>16. Sha1Result(Sha1Input(d, one)).digest = none
    BY <1>3, <2>12, Zenon
  <2> QED
    BY <2>10, <2>12, <2>13, <2>15, <2>16, Zenon DEF one, none
<1> QED
  BY <1>0, <1>4, <1>5, <1>6

\* SHA-1 of a message in any pieces.
LEMMA Sha1Hashes ==
  ASSUME NEW pieces \in Seq(Seq(Int)), NEW whole, whole = FlattenSeq(pieces),
         NEW r, r = Sha1Of(pieces)
  PROVE  /\ r.digest = Sha1Standard(whole)
         /\ Sha1Result(r.c).digest = r.digest
         /\ Sha1Result(Sha1Input(r.c, <<1>>)).digest = << >>
<1> DEFINE length == Sha1Length(Len(whole))
           text == Padded(whole, length)
<1>1. whole \in Seq(Int)
  <2>1. PICK L : FrontsOf(L, pieces, Int)
    BY FlattenIs
  <2>2. Len(pieces) \in 0..Len(pieces)
    OBVIOUS
  <2> QED
    BY <2>1, <2>2 DEF FrontsOf
<1>2. length \in Seq(Int) /\ Len(length) = 2
  <2> DEFINE n == 8 * Len(whole)
  <2>1. n \in Nat /\ Word \in Nat /\ Word > 0
    BY <1>1, HashAssumption
  <2> HIDE DEF n
  <2>2. n \div Word \in Int /\ n % Word \in Int
    BY <2>1
  <2>3. length = <<n \div Word, n % Word>>
    BY DEF n, Sha1Length
  <2> HIDE DEF length
  <2> QED
    BY <2>2, <2>3
<1> HIDE DEF length
<1>3. /\ text \in Seq(Int) /\ Len(whole) <= Len(text)
      /\ \A j \in 1..Len(whole) : text[j] = whole[j]
  BY <1>1, <1>2, PaddedIs
<1> HIDE DEF text
<1>4. PICK c : Sha1At(c, Len(whole), text) /\ Sha1Of(pieces) = Sha1Result(c)
  BY <1>3, Sha1Pieces
<1>5. text = Padded(whole, Sha1Length(Len(whole)))
  BY DEF text, length
<1> QED
  BY <1>1, <1>4, <1>5, Sha1ResultIs

-----------------------------------------------------------------------------
(* BlockHash: MD5, piece by piece.                                         *)

\* Whole rounds of a word are not seen in its remainder.
LEMMA RoundsAreLost ==
  ASSUME NEW w \in Nat, w > 0, NEW x \in Int, NEW y \in Int
  PROVE  ((x % w) + y) % w = (x + y) % w
<1> DEFINE r == x % w
           q == x \div w
           s == (r + y) % w
           p == (r + y) \div w
<1>1. r \in Int /\ q \in Int /\ x = w * q + r
  BY DEF r
<1> HIDE DEF r, q
<1>2. s \in Nat /\ s < w /\ p \in Int /\ r + y = w * p + s
  BY <1>1
<1>3. (r + y) % w = s
  OBVIOUS
<1> HIDE DEF s, p
<1>4. w * q + w * p = (q + p) * w /\ q + p \in Int
  BY <1>1, <1>2
<1> DEFINE a == w * q
           b == w * p
<1>5. x + y = a + b + s
  <2>1. a \in Int /\ b \in Int /\ x = a + r /\ r + y = b + s
    BY <1>1, <1>2
  <2> HIDE DEF a, b
  <2> QED
    BY <1>1, <1>2, <2>1
<1>6. x + y = (q + p) * w + s
  BY <1>4, <1>5
<1> DEFINE t == q + p
<1>7. (t * w + s) % w = s
  <2>1. t \in Int
    BY <1>4
  <2> HIDE DEF t
  <2> QED
    BY <1>2, <2>1, DivIs
<1> QED
  BY <1>3, <1>6, <1>7 DEF r

\* The words of a length, and those of a longer one.
LengthAdded(w, a, b, low) ==
  /\ low = (a + b) % w
  /\ (((a \div w) % w) + (b \div w) + (IF low < b % w THEN 1 ELSE 0)) % w
       = ((a + b) \div w) % w

\* Adding word by word, with a carry, adds the lengths.
LEMMA LengthsAdd ==
  ASSUME NEW w \in Nat, w > 0, NEW a \in Nat, NEW b \in Nat
  PROVE  LengthAdded(w, a, b, ((a % w) + b) % w)
<1> DEFINE low == ((a % w) + b) % w
           ra == a % w
           qa == a \div w
           rb == b % w
           qb == b \div w
           carry == IF low < rb THEN 1 ELSE 0
           q == qa + qb + carry
<1>1. low = (a + b) % w
  <2>1. a \in Int /\ b \in Int
    OBVIOUS
  <2>2. ((a % w) + b) % w = (a + b) % w
    BY <2>1, RoundsAreLost, Zenon
  <2> QED
    BY <2>2, Zenon
<1>2. /\ ra \in Nat /\ ra < w /\ qa \in Int /\ a = w * qa + ra
      /\ rb \in Nat /\ rb < w /\ qb \in Int /\ b = w * qb + rb
  OBVIOUS
<1>3. a % w = ra /\ a \div w = qa /\ b % w = rb /\ b \div w = qb
  OBVIOUS
<1> HIDE DEF ra, qa, rb, qb, low
<1>4. PICK f \in {0, 1} : ra + rb - f * w \in Nat /\ ra + rb - f * w < w
           /\ (f = 1 <=> ra + rb >= w)
  <2>1. CASE ra + rb < w
    <3>1. ra + rb - 0 * w = ra + rb
      BY <1>2
    <3> QED
      BY <1>2, <2>1, <3>1
  <2>2. CASE ra + rb >= w
    <3>1. ra + rb - 1 * w = ra + rb - w
      BY <1>2
    <3> QED
      BY <1>2, <2>2, <3>1
  <2> QED
    BY <1>2, <2>1, <2>2
<1> DEFINE r == ra + rb - f * w
           p == qa + qb + f
<1>5. a + b = p * w + r /\ p \in Int
  <2>1. p * w = w * qa + w * qb + f * w
    BY <1>2
  <2> DEFINE x == w * qa
             y == w * qb
             z == f * w
  <2>2. x \in Int /\ y \in Int /\ z \in Int /\ a = x + ra /\ b = y + rb
    BY <1>2
  <2>3. p * w = x + y + z /\ r = ra + rb - z
    BY <2>1
  <2>4. p \in Int
    BY <1>2
  <2> HIDE DEF x, y, z, p, r
  <2>5. a + b = (x + y + z) + r
    BY <1>2, <2>2, <2>3
  <2> QED
    BY <2>3, <2>4, <2>5
<1>6. (p * w + r) % w = r /\ (p * w + r) \div w = p
  <2>1. r \in Nat /\ r < w
    BY <1>4
  <2> HIDE DEF p, r
  <2> QED
    BY <1>5, <2>1, DivIs
<1>7. low = r /\ (a + b) \div w = p
  BY <1>1, <1>5, <1>6
<1>8. carry = f
  <2>1. CASE f = 1
    <3>1. r = ra + rb - w
      BY <1>2, <2>1
    <3> QED
      BY <1>2, <1>7, <2>1, <3>1
  <2>2. CASE f = 0
    <3>1. r = ra + rb
      BY <1>2, <2>2
    <3> QED
      BY <1>2, <1>7, <2>2, <3>1
  <2> QED
    BY <2>1, <2>2
<1>9. ((qa % w) + (qb + f)) % w = (qa + (qb + f)) % w
  <2>1. qb + f \in Int
    BY <1>2
  <2> QED
    BY <1>2, <2>1, RoundsAreLost
<1> HIDE DEF carry
<1>10. (qa % w) + qb + carry = (qa % w) + (qb + f) /\ p = qa + (qb + f)
  <2>1. qa % w \in Int
    BY <1>2
  <2> QED
    BY <1>2, <1>8, <2>1
<1>11. ((qa % w) + qb + carry) % w = ((a + b) \div w) % w
  BY <1>7, <1>9, <1>10
<1> DEFINE x == (((a \div w) % w) + (b \div w) + (IF low < b % w THEN 1 ELSE 0)) % w
<1>12. x = ((a + b) \div w) % w
  BY <1>3, <1>11 DEF carry
<1>13. LengthAdded(w, a, b, low)
  BY ONLY <1>1, <1>12, Zenon DEF LengthAdded
<1> QED
  BY <1>13 DEF low

\* The offset in a block, taken from the low word.
LEMMA OffsetIs ==
  ASSUME NEW n \in Nat
  PROVE  \E s \in Nat : ((8 * n) % Word) \div 8 = s /\ s % Block = n % Block
<1>1. PICK v \in Nat : v > 0 /\ Word = 8 * v /\ \E w \in Nat : v = Block * w
  BY WordIs
<1>2. PICK w \in Nat : v = Block * w
  BY <1>1
<1>3. Block \in Nat /\ Block > 0
  BY HashAssumption
<1> DEFINE s == n % v
           q == n \div v
           t == s \div Block
           u == s % Block
<1>4. s \in Nat /\ s < v /\ q \in Int /\ n = v * q + s
  BY <1>1
<1> HIDE DEF s, q
<1>5. (8 * n) % Word = 8 * s
  <2>1. 8 * n = q * Word + 8 * s
    <3> DEFINE a == v * q
    <3>1. a \in Int /\ q * Word = 8 * a
      BY <1>1, <1>4
    <3>2. n = a + s
      BY <1>4
    <3> HIDE DEF a
    <3> QED
      BY <1>4, <3>1, <3>2
  <2> DEFINE e == 8 * s
  <2>2. e \in Nat /\ e < Word /\ Word \in Nat /\ Word > 0
    BY <1>1, <1>4
  <2> HIDE DEF e
  <2>3. (q * Word + e) % Word = e
    BY <1>4, <2>2, DivIs
  <2> QED
    BY <2>1, <2>3 DEF e
<1>6. (8 * s) \div 8 = s
  BY <1>4
<1>7. u \in Nat /\ u < Block /\ t \in Int /\ s = Block * t + u
  BY <1>3, <1>4
<1>8. s % Block = u
  OBVIOUS
<1> HIDE DEF t, u
<1>9. n % Block = u
  <2> DEFINE p == w * q + t
             a == w * q
             b == Block * t
  <2>1. v * q = Block * a /\ a \in Int /\ b \in Int
    BY <1>2, <1>3, <1>4, <1>7
  <2>2. p * Block = Block * a + b /\ p \in Int
    BY <1>3, <1>7, <2>1
  <2> HIDE DEF p
  <2>3. n = p * Block + u
    <3> DEFINE c == Block * a
    <3>1. c \in Int /\ n = c + s /\ s = b + u /\ p * Block = c + b
      BY <1>3, <1>4, <1>7, <2>1, <2>2
    <3> HIDE DEF c, b
    <3> QED
      BY <1>7, <2>1, <3>1
  <2>4. (p * Block + u) % Block = u
    BY <1>3, <1>7, <2>2, DivIs
  <2> QED
    BY <2>3, <2>4
<1> QED
  BY <1>4, <1>5, <1>6, <1>8, <1>9

\* The zeros behind the one.
LEMMA PadZeros ==
  ASSUME NEW s \in Nat
  PROVE  (Block - 3 - s) % Block = ZerosFor(s % Block)
<1> DEFINE r == s % Block
           q == s \div Block
           k == ZerosFor(r)
<1>1. Block \in Nat /\ Block > 2
  BY HashAssumption
<1>2. r \in Nat /\ r < Block /\ q \in Int /\ s = Block * q + r
  BY <1>1
<1> HIDE DEF r, q
<1>3. k \in Nat /\ k < Block
  <2>1. k \in 0..Block - 1
    BY <1>2, ZerosForIs
  <2> HIDE DEF k
  <2> QED
    BY <1>1, <2>1
<1>4. PICK p \in Int : Block - 3 - s = p * Block + k
  <2> DEFINE a == Block * q
  <2>1. a \in Int /\ s = a + r
    BY <1>1, <1>2
  <2>2. CASE r <= Block - 3
    <3> DEFINE p == -q
    <3>1. p \in Int /\ p * Block = -a
      BY <1>1, <1>2
    <3>2. r + k + 3 = Block
      BY <1>2, <2>2, ZerosForIs
    <3> HIDE DEF p, a, k
    <3>3. Block - 3 - s = p * Block + k
      BY <1>1, <1>2, <1>3, <2>1, <3>1, <3>2
    <3> QED
      BY <3>1, <3>3
  <2>3. CASE ~(r <= Block - 3)
    <3> DEFINE p == -q - 1
    <3>1. p \in Int /\ p * Block = -a - Block
      BY <1>1, <1>2
    <3>2. r + k + 3 = 2 * Block
      BY <1>2, <2>3, ZerosForIs
    <3> HIDE DEF p, a, k
    <3>3. Block - 3 - s = p * Block + k
      BY <1>1, <1>2, <1>3, <2>1, <3>1, <3>2
    <3> QED
      BY <3>1, <3>3
  <2> QED
    BY <2>2, <2>3
<1>5. (p * Block + k) % Block = k
  <2>1. Block > 0
    BY <1>1
  <2> HIDE DEF k
  <2> QED
    BY <1>1, <1>3, <2>1, DivIs
<1> QED
  BY <1>4, <1>5 DEF r

\* What a copy leaves in a buffer.
Overwritten(s, buf, offset, bytes) ==
  /\ s \in Seq(Int) /\ Len(s) = Len(buf)
  /\ \A j \in 1..offset : s[j] = buf[j]
  /\ \A j \in 1..Len(bytes) : s[offset + j] = bytes[j]

\* A copy leaves what is in front of it and puts the bytes in their place.
LEMMA OverwriteIs ==
  ASSUME NEW buf \in Seq(Int), NEW offset \in Nat, NEW bytes \in Seq(Int),
         offset + Len(bytes) <= Len(buf)
  PROVE  Overwritten(Overwrite(buf, offset, bytes), buf, offset, bytes)
<1> DEFINE s == Overwrite(buf, offset, bytes)
           n == Len(buf)
           m == Len(bytes)
           e(i) == IF i - offset \in 1..m THEN bytes[i - offset] ELSE buf[i]
<1>1. n \in Nat /\ m \in Nat /\ offset + m <= n
  OBVIOUS
<1>2. s = [i \in 1..n |-> e(i)]
  <2>1. DOMAIN buf = 1..n /\ DOMAIN bytes = 1..m
    OBVIOUS
  <2> HIDE DEF n, m
  <2> QED
    BY <2>1 DEF Overwrite
<1>3. \A i \in 1..n : e(i) \in Int
  <2>1. \A i \in 1..n : buf[i] \in Int
    OBVIOUS
  <2>2. \A i \in 1..m : bytes[i] \in Int
    OBVIOUS
  <2> HIDE DEF n, m
  <2> QED
    BY <2>1, <2>2
<1> HIDE DEF n, m, s
<1>4. s \in Seq(Int) /\ Len(s) = n /\ \A i \in 1..n : s[i] = e(i)
  <2> HIDE DEF e
  <2> QED
    BY <1>1, <1>2, <1>3
<1>5. \A j \in 1..offset : s[j] = buf[j]
  <2> TAKE j \in 1..offset
  <2>1. j \in 1..n /\ j - offset \notin 1..m
    BY <1>1
  <2> QED
    BY <1>4, <2>1
<1>6. \A j \in 1..m : s[offset + j] = bytes[j]
  <2> TAKE j \in 1..m
  <2>1. offset + j \in 1..n /\ (offset + j) - offset = j
    BY <1>1
  <2> QED
    BY <1>4, <2>1
<1> QED
  <2>1. s \in Seq(Int) /\ Len(s) = Len(buf)
    BY <1>4 DEF n
  <2>2. \A j \in 1..Len(bytes) : s[offset + j] = bytes[j]
    BY <1>6 DEF m
  <2> QED
    BY <1>5, <2>1, <2>2, Zenon DEF s, Overwritten

Md5States == [count : Seq(Int), buf : Seq(Int), abcd : Seq(Seq(Int))]

\* An object that keeps the first n bytes of the text.
Md5Cut(c, n, text) ==
  /\ c \in Md5States /\ Len(c.buf) = Block /\ BlocksOf(text, c.abcd)
  /\ \E r \in 0..Block - 1 :
       n = Block * Len(c.abcd) + r
         /\ \A j \in 1..r : c.buf[j] = text[Block * Len(c.abcd) + j]

\* What a block does to an object.
LEMMA Md5ProcessIs ==
  ASSUME NEW c \in Md5States, NEW block \in Seq(Int), NEW d, d = Md5Process(c, block)
  PROVE  d \in Md5States /\ d.abcd = Append(c.abcd, block) /\ d.buf = c.buf
         /\ d.count = c.count
<1> DEFINE a == Append(c.abcd, block)
<1>1. a \in Seq(Seq(Int))
  <2>1. c.abcd \in Seq(Seq(Int))
    BY DEF Md5States
  <2> QED
    BY <2>1, AppendProperties
<1>2. d = [c EXCEPT !.abcd = a]
  BY DEF Md5Process
<1> HIDE DEF a
<1>3. d \in Md5States
  BY <1>1, <1>2, Zenon DEF Md5States
<1>4. d.abcd = a /\ d.buf = c.buf /\ d.count = c.count
  BY <1>2, Zenon DEF Md5States
<1> QED
  BY <1>3, <1>4, Zenon DEF a

\* A whole block of a piece.
LEMMA SliceBlock ==
  ASSUME NEW text \in Seq(Int), NEW a \in Nat, NEW bytes, PieceAt(text, a, bytes),
         NEW i \in Nat, i > 0, i * Block <= Len(bytes)
  PROVE  BlockFrom(text, a + Block * (i - 1), SubSeq(bytes, (i - 1) * Block + 1, i * Block))
<1> DEFINE q == (i - 1) * Block
           m == q + 1
           n == i * Block
           s == SubSeq(bytes, m, n)
           l == Len(bytes)
<1>1. Block \in Nat /\ Block > 0
  BY HashAssumption
<1>2. q \in Nat /\ n = q + Block /\ Block * (i - 1) = q
  <2> DEFINE k == i - 1
  <2>1. k \in Nat
    OBVIOUS
  <2>2. i = k + 1
    OBVIOUS
  <2> HIDE DEF k
  <2> QED
    BY <1>1, <2>1, <2>2 DEF k
<1>3. bytes \in Seq(Int) /\ a + l <= Len(text) /\ \A j \in 1..l : bytes[j] = text[a + j]
  BY DEF PieceAt
<1>4. l \in Nat /\ Len(text) \in Nat
  BY <1>3
<1>5. n <= l
  OBVIOUS
<1> HIDE DEF q, l
<1>6. m \in Nat /\ n \in Nat /\ 1 <= m /\ m <= n + 1 /\ n - m + 1 = Block
      /\ \A j \in 1..Block : m + j - 1 = q + j
  <2> HIDE DEF n
  <2> QED
    BY <1>1, <1>2
<1> HIDE DEF m, n
<1>7. /\ s \in Seq(Int) /\ Len(s) = n - m + 1
      /\ \A j \in 1..n - m + 1 : s[j] = bytes[m + j - 1]
  <2>1. bytes \in Seq(Int)
    BY <1>3
  <2>2. n <= Len(bytes)
    BY <1>5 DEF l
  <2> QED
    BY ONLY <1>6, <2>1, <2>2, SliceIs
<1> HIDE DEF s
<1>8. Len(s) = Block /\ \A j \in 1..Block : s[j] = bytes[q + j]
  BY <1>6, <1>7
<1>9. \A j \in 1..Block : s[j] = text[(a + q) + j]
  <2> TAKE j \in 1..Block
  <2>1. q + j \in 1..l /\ a + (q + j) = (a + q) + j
    BY <1>1, <1>2, <1>4, <1>5
  <2>2. s[j] = bytes[q + j] /\ bytes[q + j] = text[a + (q + j)]
    BY <1>3, <1>8, <2>1
  <2> QED
    BY <2>1, <2>2
<1>10. (a + q) + Block <= Len(text)
  BY <1>1, <1>2, <1>3, <1>4, <1>5
<1>11. BlockFrom(text, a + q, s)
  BY <1>7, <1>8, <1>9, <1>10 DEF BlockFrom
<1> QED
  BY <1>2, <1>11 DEF s, m, n, q

\* The bytes behind the whole blocks of a piece.
LEMMA SliceRest ==
  ASSUME NEW text \in Seq(Int), NEW a \in Nat, NEW bytes, PieceAt(text, a, bytes),
         NEW q \in Nat, q <= Len(bytes)
  PROVE  /\ PieceAt(text, a + q, SubSeq(bytes, q + 1, Len(bytes)))
         /\ Len(SubSeq(bytes, q + 1, Len(bytes))) = Len(bytes) - q
<1> DEFINE s == SubSeq(bytes, q + 1, Len(bytes))
           l == Len(bytes)
           m == q + 1
<1>1. bytes \in Seq(Int) /\ a + l <= Len(text) /\ \A j \in 1..l : bytes[j] = text[a + j]
  BY DEF PieceAt
<1>2. l \in Nat /\ Len(text) \in Nat /\ q <= l
  BY <1>1
<1>3. m \in Nat /\ 1 <= m /\ m <= l + 1 /\ l <= l /\ l - m + 1 = l - q
      /\ \A j \in 1..l - q : m + j - 1 = q + j
  <2> HIDE DEF l
  <2> QED
    BY <1>2
<1> HIDE DEF m
<1>4. /\ s \in Seq(Int) /\ Len(s) = l - m + 1
      /\ \A j \in 1..l - m + 1 : s[j] = bytes[m + j - 1]
  <2>1. s = SubSeq(bytes, m, l)
    BY DEF m
  <2>2. /\ SubSeq(bytes, m, l) \in Seq(Int) /\ Len(SubSeq(bytes, m, l)) = l - m + 1
        /\ \A j \in 1..l - m + 1 : SubSeq(bytes, m, l)[j] = bytes[m + j - 1]
    BY ONLY <1>1, <1>2, <1>3, SliceIs, SMTT(20)
  <2> QED
    BY <2>1, <2>2, Zenon
<1> HIDE DEF l, s
<1>5. Len(s) = l - q /\ \A j \in 1..l - q : s[j] = bytes[q + j]
  BY <1>3, <1>4
<1>6. \A j \in 1..Len(s) : s[j] = text[(a + q) + j]
  <2> TAKE j \in 1..Len(s)
  <2>1. j \in 1..l - q /\ q + j \in 1..l /\ a + (q + j) = (a + q) + j
    BY <1>2, <1>5
  <2>2. s[j] = bytes[q + j] /\ bytes[q + j] = text[a + (q + j)]
    BY <1>1, <1>5, <2>1
  <2> QED
    BY <2>1, <2>2
<1>7. (a + q) + Len(s) <= Len(text)
  BY <1>1, <1>2, <1>5
<1>8. PieceAt(text, a + q, s)
  <2>1. a + q \in Nat
    OBVIOUS
  <2> QED
    BY <1>4, <1>6, <1>7, <2>1, Zenon DEF PieceAt
<1> QED
  BY <1>5, <1>8 DEF l, s

\* The loop over the blocks has a state after each of them.
LEMMA Md5Rounds ==
  ASSUME NEW c \in Md5States, NEW bytes \in Seq(Int), NEW n \in Nat, n * Block <= Len(bytes)
  PROVE  \E g : g = [i \in 0..n |->
                       IF i = 0 THEN c
                       ELSE Md5Process(g[i - 1],
                         SubSeq(bytes, (i - 1) * Block + 1, i * Block))]
<1> DEFINE B(i) == SubSeq(bytes, (i - 1) * Block + 1, i * Block)
           W == Md5States
           F == [i \in 1..n |-> [s \in W |-> Md5Process(s, B(i))]]
<1>1. \A i \in 1..n : B(i) \in Seq(Int)
  <2> TAKE i \in 1..n
  <2>1. i \in Nat /\ i > 0
    OBVIOUS
  <2>2. i * Block <= Len(bytes)
    <3>1. Block \in Nat
      BY HashAssumption
    <3> DEFINE d == n - i
    <3>2. d \in Nat
      OBVIOUS
    <3>3. n * Block = i * Block + d * Block /\ d * Block >= 0 /\ i * Block \in Nat
      BY <3>1, <3>2
    <3>4. n = i + d
      OBVIOUS
    <3> DEFINE x == d * Block
               y == i * Block
               z == n * Block
    <3>5. x >= 0 /\ z = y + x /\ y \in Nat /\ x \in Int /\ z <= Len(bytes)
      BY <3>1, <3>2, <3>3
    <3> HIDE DEF x, y, z
    <3>6. y <= Len(bytes)
      BY <3>5
    <3> QED
      BY <3>6 DEF y
  <2>3. PieceAt(bytes, 0, bytes)
    <3>1. 0 + Len(bytes) <= Len(bytes) /\ \A j \in 1..Len(bytes) : bytes[j] = bytes[0 + j]
      OBVIOUS
    <3> QED
      BY <3>1 DEF PieceAt
  <2>4. BlockFrom(bytes, 0 + Block * (i - 1), B(i))
    <3>1. bytes \in Seq(Int) /\ 0 \in Nat
      OBVIOUS
    <3> QED
      BY ONLY <2>1, <2>2, <2>3, <3>1, SliceBlock, Zenon
  <2> HIDE DEF B
  <2> QED
    BY <2>4 DEF BlockFrom
<1> HIDE DEF B
<1>2. F \in [1..n -> [W -> W]]
  BY <1>1, Md5ProcessIs
<1>3. \A i \in 1..n : \A s \in W : F[i][s] = Md5Process(s, B(i))
  OBVIOUS
<1> HIDE DEF F, W
<1>4. PICK g \in [0..n -> W] : g[0] = c /\ \A i \in 1..n : g[i] = F[i][g[i - 1]]
  <2>1. c \in W
    BY DEF W
  <2>2. PICK g : RunOf(g, W, c, n, F)
    BY <1>2, <2>1, RunExists, Zenon
  <2> QED
    BY <2>2, Zenon DEF RunOf
<1>5. ASSUME NEW i \in 1..n PROVE g[i] = Md5Process(g[i - 1], B(i))
  <2>1. i - 1 \in 0..n
    OBVIOUS
  <2>2. g[i - 1] \in W
    BY <1>4, <2>1
  <2> QED
    BY <1>3, <1>4, <2>2, Zenon
<1>6. g = [i \in 0..n |-> IF i = 0 THEN c ELSE Md5Process(g[i - 1], B(i))]
  <2>1. \A i \in 0..n : i = 0 \/ i \in 1..n
    OBVIOUS
  <2> QED
    BY <1>4, <1>5, <2>1
<1> QED
  BY <1>6 DEF B

\* A piece that begins a block.
LEMMA FullBlocksIs ==
  ASSUME NEW text \in Seq(Int), NEW c \in Md5States, Len(c.buf) = Block,
         BlocksOf(text, c.abcd), NEW a, a = Block * Len(c.abcd),
         NEW bytes, PieceAt(text, a, bytes), NEW d, d = FullBlocks(c, bytes)
  PROVE  Md5Cut(d, a + Len(bytes), text) /\ d.count = c.count
<1> DEFINE l == Len(bytes)
           n == l \div Block
           r == l % Block
           B(i) == SubSeq(bytes, (i - 1) * Block + 1, i * Block)
           Go[i \in 0..Len(bytes) \div Block] ==
             IF i = 0 THEN c
             ELSE Md5Process(Go[i - 1], SubSeq(bytes, (i - 1) * Block + 1, i * Block))
           rest == SubSeq(bytes, n * Block + 1, Len(bytes))
           e == Go[n]
           buf == Overwrite(e.buf, 0, rest)
<1>0. Block \in Nat /\ Block > 2
  BY HashAssumption
<1>1. bytes \in Seq(Int) /\ a \in Nat /\ a + l <= Len(text)
  BY DEF PieceAt
<1>2. l \in Nat
  BY <1>1
<1>3. n \in Nat /\ r \in Nat /\ r < Block /\ l = n * Block + r /\ n * Block <= l
        /\ n * Block \in Nat
  <2> HIDE DEF l
  <2>1. n \in Int /\ r \in Nat /\ r < Block /\ l = Block * n + r
    BY <1>0, <1>2
  <2> HIDE DEF n, r
  <2>2. CASE n <= -1
    <3>1. Block * n <= -Block /\ Block * n \in Int
      BY <1>0, <2>1, <2>2
    <3> DEFINE b == Block * n
    <3>2. b \in Int /\ b <= -Block /\ l = b + r
      BY <2>1, <3>1
    <3> HIDE DEF b
    <3>3. FALSE
      BY <1>0, <1>2, <2>1, <3>2
    <3> QED
      BY <3>3
  <2>3. n \in Nat
    BY <2>1, <2>2
  <2>4. n * Block \in Nat /\ Block * n = n * Block
    BY <1>0, <2>3
  <2> DEFINE b == n * Block
  <2>5. b \in Nat /\ l = b + r
    BY <2>1, <2>4
  <2> HIDE DEF b
  <2>6. b <= l
    BY <2>1, <2>5
  <2> QED
    BY <2>1, <2>3, <2>5, <2>6 DEF b
<1>4. d = [e EXCEPT !.buf = Overwrite(@, 0, rest)]
  BY Zenon DEF FullBlocks
<1>5. Go = [i \in 0..n |-> IF i = 0 THEN c ELSE Md5Process(Go[i - 1], B(i))]
  <2>1. n \in Nat /\ n * Block <= Len(bytes)
    BY <1>3
  <2>2. PICK g : g = [i \in 0..n |->
                        IF i = 0 THEN c
                        ELSE Md5Process(g[i - 1],
                          SubSeq(bytes, (i - 1) * Block + 1, i * Block))]
    <3> HIDE DEF n
    <3> QED
      BY <1>1, <2>1, Md5Rounds
  <2> QED
    BY <2>2, Zenon DEF Go
<1> HIDE DEF Go, n, r, l
<1> DEFINE After(s, i) ==
             /\ s \in Md5States /\ s.buf = c.buf /\ s.count = c.count
                  /\ BlocksOf(text, s.abcd)
             /\ Block * Len(s.abcd) = a + Block * i
           T == {i \in 0..n : After(Go[i], i)}
<1>6. 0 \in T
  <2>1. Go[0] = c /\ 0 \in 0..n
    BY <1>3, <1>5
  <2>2. a + Block * 0 = a
    <3>1. Block * 0 = 0
      BY <1>0
    <3> QED
      BY ONLY <1>1, <3>1
  <2>3. After(c, 0)
    BY <2>2
  <2> HIDE DEF After
  <2> QED
    BY <2>1, <2>3
<1>7. ASSUME NEW i \in 1..n, i - 1 \in T PROVE i \in T
  <2> DEFINE s == Go[i - 1]
             p == a + Block * (i - 1)
             block == B(i)
             t == Md5Process(s, block)
  <2>1. i \in 0..n /\ i # 0 /\ i \in Nat /\ i > 0 /\ i <= n
    BY <1>3
  <2>2. Go[i] = t
    BY <1>5, <2>1, Zenon
  <2>3. After(s, i - 1)
    BY <1>7
  <2>4. i * Block <= Len(bytes)
    <3> DEFINE x == (n - i) * Block
               y == i * Block
               z == n * Block
    <3>1. x >= 0 /\ z = y + x /\ y \in Nat /\ x \in Int
      <4> DEFINE k == n - i
      <4>1. k \in Nat /\ n = i + k
        BY <1>3
      <4> HIDE DEF k
      <4>2. k * Block >= 0 /\ n * Block = i * Block + k * Block
        BY <1>0, <2>1, <4>1
      <4> QED
        BY <1>0, <2>1, <4>1, <4>2 DEF k
    <3>2. z <= l
      BY <1>3
    <3> HIDE DEF x, y, z
    <3>3. y <= l
      BY <1>2, <3>1, <3>2
    <3> QED
      BY <3>3 DEF y, l
  <2>5. BlockFrom(text, p, block)
    BY <1>1, <2>1, <2>4, SliceBlock
  <2> HIDE DEF B, block
  <2>6. block \in Seq(Int)
    BY <2>5 DEF BlockFrom
  <2> HIDE DEF s
  <2>7. t \in Md5States /\ t.abcd = Append(s.abcd, block) /\ t.buf = s.buf
          /\ t.count = s.count
    BY <2>3, <2>6, Md5ProcessIs
  <2> HIDE DEF t, p
  <2>8. /\ BlocksOf(text, Append(s.abcd, block))
        /\ Block * Len(Append(s.abcd, block)) = p + Block
    <3>1. s.abcd \in Seq(Seq(Int))
      BY <2>3, Zenon DEF Md5States
    <3>2. p = Block * Len(s.abcd)
      BY <2>3 DEF p
    <3> QED
      BY <2>3, <2>5, <3>1, <3>2, CutMore
  <2>9. p + Block = a + Block * i
    <3> DEFINE k == i - 1
    <3>1. k \in Nat /\ i = k + 1
      BY <2>1
    <3> HIDE DEF k
    <3>2. Block * i = Block * k + Block /\ Block * k \in Nat
      BY <1>0, <3>1
    <3> DEFINE x == Block * k
    <3>3. x \in Nat /\ Block * i = x + Block /\ p = a + x
      BY <3>2 DEF p, k
    <3> HIDE DEF x
    <3> QED
      BY ONLY <1>0, <1>1, <3>3
  <2>10. After(t, i)
    BY <2>3, <2>7, <2>8, <2>9, Zenon
  <2> HIDE DEF After
  <2> QED
    BY <2>1, <2>2, <2>10
<1>8. n \in T
  <2> HIDE DEF T
  <2>1. \A i \in 0..n : i \in T
    BY <1>3, <1>6, <1>7, UpTo
  <2> QED
    BY <1>3, <2>1
<1>9. After(e, n)
  BY <1>8
<1> HIDE DEF e
<1>10. /\ e \in Md5States /\ e.buf = c.buf /\ e.count = c.count /\ BlocksOf(text, e.abcd)
       /\ Block * Len(e.abcd) = a + n * Block
  <2>1. Block * n = n * Block
    BY <1>0, <1>3
  <2> QED
    BY <1>9, <2>1
<1> HIDE DEF After, T
<1>11. PieceAt(text, a + n * Block, rest) /\ Len(rest) = r
  <2> DEFINE q == n * Block
  <2>1. q \in Nat /\ q <= Len(bytes)
    BY <1>3 DEF l
  <2>2. rest = SubSeq(bytes, q + 1, Len(bytes))
    OBVIOUS
  <2> HIDE DEF q, rest
  <2>3. PieceAt(text, a + q, rest) /\ Len(rest) = Len(bytes) - q
    <3>1. text \in Seq(Int) /\ PieceAt(text, a, bytes) /\ a \in Nat
      BY <1>1
    <3>2. /\ PieceAt(text, a + q, SubSeq(bytes, q + 1, Len(bytes)))
          /\ Len(SubSeq(bytes, q + 1, Len(bytes))) = Len(bytes) - q
      BY ONLY <2>1, <3>1, SliceRest
    <3> QED
      BY <2>2, <3>2, Zenon
  <2>4. Len(bytes) - q = r
    <3>1. l = q + r
      BY <1>3 DEF q
    <3>2. l - q = r
      BY ONLY <1>3, <2>1, <3>1
    <3> QED
      BY <3>2 DEF l
  <2> QED
    BY <2>3, <2>4 DEF q
<1> HIDE DEF rest
<1>12. e.buf \in Seq(Int) /\ Len(e.buf) = Block /\ e.abcd \in Seq(Seq(Int))
  BY <1>10, Zenon DEF Md5States
<1>13. /\ buf \in Seq(Int) /\ Len(buf) = Block
       /\ \A j \in 1..r : buf[0 + j] = rest[j]
  <2>1. rest \in Seq(Int)
    BY <1>11 DEF PieceAt
  <2>2. 0 + Len(rest) <= Len(e.buf)
    BY <1>0, <1>3, <1>11, <1>12
  <2>3. 0 \in Nat
    OBVIOUS
  <2> QED
    BY <1>11, <1>12, <2>1, <2>2, <2>3, OverwriteIs DEF Overwritten
<1> HIDE DEF buf
<1>14. d = [e EXCEPT !.buf = buf]
  BY <1>4, <1>10, Zenon DEF buf, Md5States
<1>15. d \in Md5States /\ d.buf = buf /\ d.abcd = e.abcd /\ d.count = c.count
  BY <1>10, <1>13, <1>14, Zenon DEF Md5States
<1>16. \A j \in 1..r : buf[j] = text[(a + n * Block) + j]
  <2> TAKE j \in 1..r
  <2>1. buf[0 + j] = rest[j] /\ 0 + j = j
    BY <1>3, <1>13
  <2>2. rest[j] = text[(a + n * Block) + j]
    BY <1>11 DEF PieceAt
  <2> QED
    BY <2>1, <2>2
<1>17. a + Len(bytes) = (a + n * Block) + r
  <2> DEFINE q == n * Block
  <2>1. l = q + r /\ q \in Nat /\ r \in Nat
    BY <1>3
  <2> HIDE DEF q, l, r
  <2>2. a + l = (a + q) + r
    BY ONLY a \in Nat, <2>1
  <2> QED
    BY <2>2 DEF q, l
<1>18. r \in 0..Block - 1
  BY <1>0, <1>3
<1>19. Md5Cut(d, a + Len(bytes), text)
  <2>1. Block * Len(d.abcd) = a + n * Block
    BY <1>10, <1>15, Zenon
  <2>2. a + Len(bytes) = Block * Len(d.abcd) + r
    BY <1>17, <2>1, Zenon
  <2>3. \A j \in 1..r : d.buf[j] = text[Block * Len(d.abcd) + j]
    BY <1>15, <1>16, <2>1, Zenon
  <2>4. d \in Md5States /\ Len(d.buf) = Block /\ BlocksOf(text, d.abcd)
    BY <1>10, <1>13, <1>15, Zenon
  <2> QED
    BY ONLY <1>18, <2>2, <2>3, <2>4, Zenon DEF Md5Cut
<1> QED
  BY <1>15, <1>19

\* The two words of the length.
Md5Length(n) == <<(8 * n) % Word, ((8 * n) \div Word) % Word>>

\* An object that has been given the first n bytes of the text.
Md5At(c, n, text) == Md5Cut(c, n, text) /\ c.count = Md5Length(n)

\* What a piece does to the length.
LEMMA LengthGrows ==
  ASSUME NEW n \in Nat, NEW m \in Nat, NEW c, c.count = Md5Length(n)
  PROVE  LET low  == (c.count[1] + 8 * m) % Word
             high == (c.count[2] + (8 * m) \div Word
                      + (IF low < (8 * m) % Word THEN 1 ELSE 0)) % Word
         IN  <<low, high>> = Md5Length(n + m)
<1> DEFINE a == 8 * n
           b == 8 * m
           low == ((a % Word) + b) % Word
           high == (((a \div Word) % Word) + (b \div Word)
                    + (IF low < b % Word THEN 1 ELSE 0)) % Word
<1>1. Word \in Nat /\ Word > 0 /\ a \in Nat /\ b \in Nat /\ 8 * (n + m) = a + b
  BY HashAssumption
<1>2. c.count[1] = a % Word /\ c.count[2] = (a \div Word) % Word
  BY DEF Md5Length
<1>3. low = (a + b) % Word /\ high = ((a + b) \div Word) % Word
  <2> HIDE DEF a, b
  <2>1. low = ((a % Word) + b) % Word
    OBVIOUS
  <2>2. high = (((a \div Word) % Word) + (b \div Word)
                + (IF low < b % Word THEN 1 ELSE 0)) % Word
    OBVIOUS
  <2>3. Word \in Nat /\ Word > 0 /\ a \in Nat /\ b \in Nat
    BY <1>1
  <2>4. LengthAdded(Word, a, b, ((a % Word) + b) % Word)
    BY ONLY <2>3, LengthsAdd, Zenon
  <2>5. LengthAdded(Word, a, b, low)
    BY <2>1, <2>4, Zenon
  <2> HIDE DEF low, high
  <2> QED
    BY ONLY <2>2, <2>5, Zenon DEF LengthAdded
<1>4. <<low, high>> = Md5Length(n + m)
  BY <1>1, <1>3, Zenon DEF Md5Length
<1> QED
  BY <1>2, <1>4, Zenon

\* A piece of the message.
LEMMA Md5Piece ==
  ASSUME NEW text \in Seq(Int), NEW n, NEW c, Md5At(c, n, text),
         NEW bytes, PieceAt(text, n, bytes)
  PROVE  Md5At(Md5Append(c, bytes), n + Len(bytes), text)
<1> DEFINE m == Len(bytes)
           offset == (c.count[1] \div 8) % Block
           low  == (c.count[1] + 8 * m) % Word
           high == (c.count[2] + (8 * m) \div Word
             + (IF low < (8 * m) % Word THEN 1 ELSE 0)) % Word
           count == <<low, high>>
           d == [c EXCEPT !.count = count]
           copy == IF offset + m > Block THEN Block - offset ELSE m
           first == SubSeq(bytes, 1, copy)
           rest == SubSeq(bytes, copy + 1, m)
           buf == Overwrite(c.buf, offset, first)
           e == [d EXCEPT !.buf = buf]
           f == Md5Process(e, buf)
           q == Len(c.abcd)
           a == Block * q
<1>0. Block \in Nat /\ Block > 2
  BY HashAssumption
<1>1. Md5Append(c, bytes) =
        CASE m = 0 -> c
          [] m > 0 /\ offset = 0 -> FullBlocks(d, bytes)
          [] m > 0 /\ offset > 0 /\ offset + copy < Block -> e
          [] OTHER -> FullBlocks(f, rest)
  BY DEF Md5Append
<1>2. /\ bytes \in Seq(Int) /\ n \in Nat /\ n + m <= Len(text)
      /\ \A j \in 1..m : bytes[j] = text[n + j]
  BY DEF PieceAt
<1>3. m \in Nat
  BY <1>2
<1>4. Md5Cut(c, n, text) /\ c.count = Md5Length(n)
  BY DEF Md5At
<1>5. c \in Md5States /\ Len(c.buf) = Block /\ BlocksOf(text, c.abcd)
  BY <1>4, Zenon DEF Md5Cut
<1>6. c.buf \in Seq(Int) /\ c.abcd \in Seq(Seq(Int)) /\ q \in Nat
  <2>1. c.buf \in Seq(Int) /\ c.abcd \in Seq(Seq(Int))
    BY <1>5, Zenon DEF Md5States
  <2> QED
    BY <2>1
<1>7. a \in Nat
  BY <1>0, <1>6
<1>8. PICK r \in 0..Block - 1 : n = a + r /\ \A j \in 1..r : c.buf[j] = text[a + j]
  BY <1>4, Zenon DEF Md5Cut
<1>9. r \in Nat /\ r < Block
  BY <1>0
<1>10. offset = r
  <2>1. c.count[1] = (8 * n) % Word
    BY <1>4 DEF Md5Length
  <2>2. PICK s \in Nat : ((8 * n) % Word) \div 8 = s /\ s % Block = n % Block
    BY <1>2, OffsetIs
  <2>3. n % Block = r
    <3>1. n = q * Block + r
      BY <1>0, <1>6, <1>8
    <3>2. (q * Block + r) % Block = r
      <4>1. Block > 0 /\ q \in Int
        BY <1>0, <1>6
      <4> HIDE DEF q
      <4> QED
        BY ONLY <1>0, <1>9, <4>1, DivIs
    <3> QED
      BY <3>1, <3>2
  <2> QED
    BY <2>1, <2>2, <2>3, Zenon
<1>11. count = Md5Length(n + m)
  <2> HIDE DEF m
  <2> QED
    BY <1>2, <1>3, <1>4, LengthGrows
<1> HIDE DEF offset, count, a, m
<1>12. count \in Seq(Int)
  <2> DEFINE x == 8 * (n + m)
  <2>1. x \in Nat /\ Word \in Nat /\ Word > 0
    BY <1>2, <1>3, HashAssumption
  <2> HIDE DEF x
  <2>2. x % Word \in Int /\ x \div Word \in Int
    BY <2>1
  <2>3. (x \div Word) % Word \in Int
    BY <2>1, <2>2
  <2>4. count = <<x % Word, (x \div Word) % Word>>
    BY <1>11 DEF x, Md5Length
  <2> QED
    BY <2>2, <2>3, <2>4
<1>13. d \in Md5States /\ d.buf = c.buf /\ d.abcd = c.abcd /\ d.count = count
  BY <1>5, <1>12, Zenon DEF Md5States
<1> HIDE DEF d
<1>14. CASE m = 0
  <2>1. Md5Append(c, bytes) = c
    BY <1>1, <1>14
  <2>2. n + m = n
    BY <1>2, <1>14
  <2> QED
    BY <2>1, <2>2 DEF m
<1>15. CASE m > 0 /\ r = 0
  <2>1. Md5Append(c, bytes) = FullBlocks(d, bytes)
    BY <1>1, <1>3, <1>10, <1>15
  <2>2. n = a
    BY <1>7, <1>8, <1>15
  <2>3. Md5Cut(FullBlocks(d, bytes), n + Len(bytes), text)
          /\ FullBlocks(d, bytes).count = d.count
    <3>1. d \in Md5States /\ Len(d.buf) = Block /\ BlocksOf(text, d.abcd)
            /\ n = Block * Len(d.abcd)
      BY <1>5, <1>13, <2>2 DEF a
    <3> QED
      BY <3>1, FullBlocksIs
  <2> QED
    BY <1>11, <1>13, <2>1, <2>3, Zenon DEF Md5At, m
<1>16. CASE m > 0 /\ r > 0 /\ r + m < Block
  <2>1. copy = m /\ offset + copy < Block
    BY <1>0, <1>3, <1>9, <1>10, <1>16
  <2>2. Md5Append(c, bytes) = e
    BY <1>1, <1>3, <1>9, <1>10, <1>16, <2>1
  <2>3. first = bytes
    BY <1>2, <2>1, SubSeqFull DEF m
  <2>4. /\ buf \in Seq(Int) /\ Len(buf) = Block
        /\ \A j \in 1..r : buf[j] = c.buf[j]
        /\ \A j \in 1..m : buf[r + j] = bytes[j]
    <3>1. buf = Overwrite(c.buf, r, bytes)
      BY <1>10, <2>3
    <3>2. r + Len(bytes) <= Len(c.buf)
      BY <1>0, <1>3, <1>5, <1>9, <1>16 DEF m
    <3> HIDE DEF buf
    <3>3. /\ buf \in Seq(Int) /\ Len(buf) = Len(c.buf)
          /\ \A j \in 1..r : buf[j] = c.buf[j]
          /\ \A j \in 1..Len(bytes) : buf[r + j] = bytes[j]
      <4>1. c.buf \in Seq(Int) /\ bytes \in Seq(Int) /\ r \in Nat
        BY <1>2, <1>6, <1>9
      <4>2. Overwritten(Overwrite(c.buf, r, bytes), c.buf, r, bytes)
        BY ONLY <3>2, <4>1, OverwriteIs, Zenon
      <4> QED
        BY <3>1, <4>2, Zenon DEF Overwritten
    <3> QED
      BY <1>5, <3>3 DEF m
  <2> HIDE DEF buf
  <2>5. e \in Md5States /\ e.buf = buf /\ e.abcd = c.abcd /\ e.count = count
    BY <1>13, <2>4, Zenon DEF Md5States
  <2> HIDE DEF e
  <2>6. \A j \in 1..r + m : buf[j] = text[a + j]
    <3> TAKE j \in 1..r + m
    <3>1. CASE j <= r
      <4>1. j \in 1..r
        BY <1>3, <1>9, <3>1
      <4> QED
        BY <1>8, <2>4, <4>1
    <3>2. CASE j > r
      <4> DEFINE i == j - r
      <4>1. i \in 1..m /\ r + i = j /\ n + i = a + j
        BY <1>3, <1>7, <1>8, <1>9, <3>2
      <4> HIDE DEF i
      <4>2. buf[r + i] = bytes[i] /\ bytes[i] = text[n + i]
        BY <1>2, <2>4, <4>1
      <4> QED
        BY <4>1, <4>2
    <3>3. j <= r \/ j > r
      BY <1>3, <1>9
    <3> QED
      BY <3>1, <3>2, <3>3, Zenon
  <2>7. r + m \in 0..Block - 1 /\ n + m = a + (r + m)
    BY <1>0, <1>3, <1>7, <1>8, <1>9, <1>16
  <2>8. Md5Cut(e, n + m, text)
    BY <1>5, <2>4, <2>5, <2>6, <2>7, Zenon DEF Md5Cut, a
  <2> QED
    BY <1>11, <2>2, <2>5, <2>8, Zenon DEF Md5At, m
<1>17. CASE m > 0 /\ r > 0 /\ r + m >= Block
  <2>1. copy = Block - r /\ copy \in Nat /\ copy > 0 /\ copy <= m /\ offset + copy = Block
    BY <1>0, <1>3, <1>9, <1>10, <1>17
  <2>2. Md5Append(c, bytes) = FullBlocks(f, rest)
    <3>1. ~(m = 0) /\ ~(m > 0 /\ offset = 0)
            /\ ~(m > 0 /\ offset > 0 /\ offset + copy < Block)
      BY <1>0, <1>3, <1>9, <1>10, <1>17, <2>1
    <3> HIDE DEF f, rest, e, copy
    <3> QED
      BY <1>1, <3>1, Zenon
  <2> HIDE DEF copy
  <2>3. first \in Seq(Int) /\ Len(first) = copy /\ \A j \in 1..copy : first[j] = bytes[j]
    <3>1. 1 \in Nat /\ copy \in Nat /\ 1 <= 1 /\ 1 <= copy + 1 /\ copy <= Len(bytes)
          /\ copy - 1 + 1 = copy /\ \A j \in 1..copy : 1 + j - 1 = j
      BY <1>3, <2>1 DEF m
    <3>2. /\ SubSeq(bytes, 1, copy) \in Seq(Int)
               /\ Len(SubSeq(bytes, 1, copy)) = copy - 1 + 1
          /\ \A j \in 1..copy - 1 + 1 : SubSeq(bytes, 1, copy)[j] = bytes[1 + j - 1]
      BY ONLY <1>2, <3>1, SliceIs
    <3>3. /\ first \in Seq(Int) /\ Len(first) = copy - 1 + 1
          /\ \A j \in 1..copy - 1 + 1 : first[j] = bytes[1 + j - 1]
      BY <3>2, Zenon
    <3> HIDE DEF first
    <3> QED
      BY <3>1, <3>3
  <2> HIDE DEF first
  <2>4. /\ buf \in Seq(Int) /\ Len(buf) = Block
        /\ \A j \in 1..r : buf[j] = c.buf[j]
        /\ \A j \in 1..copy : buf[r + j] = first[j]
    <3>1. buf = Overwrite(c.buf, r, first)
      BY <1>10
    <3>2. r + Len(first) <= Len(c.buf)
      BY <1>0, <1>5, <1>9, <2>1, <2>3
    <3> HIDE DEF buf
    <3>3. /\ buf \in Seq(Int) /\ Len(buf) = Len(c.buf)
          /\ \A j \in 1..r : buf[j] = c.buf[j]
          /\ \A j \in 1..Len(first) : buf[r + j] = first[j]
      <4>1. c.buf \in Seq(Int) /\ first \in Seq(Int) /\ r \in Nat
        BY <1>6, <1>9, <2>3
      <4>2. Overwritten(Overwrite(c.buf, r, first), c.buf, r, first)
        BY ONLY <3>2, <4>1, OverwriteIs, Zenon
      <4> QED
        BY <3>1, <4>2, Zenon DEF Overwritten
    <3> QED
      BY <1>5, <2>3, <3>3
  <2> HIDE DEF buf
  <2>5. e \in Md5States /\ e.buf = buf /\ e.abcd = c.abcd /\ e.count = count
    BY <1>13, <2>4, Zenon DEF Md5States
  <2> HIDE DEF e
  <2>6. f \in Md5States /\ f.abcd = Append(c.abcd, buf) /\ f.buf = buf /\ f.count = count
    <3>1. f \in Md5States /\ f.abcd = Append(e.abcd, buf) /\ f.buf = e.buf
            /\ f.count = e.count
      BY <2>4, <2>5, Md5ProcessIs
    <3> HIDE DEF f
    <3> QED
      BY <2>5, <3>1, Zenon
  <2> HIDE DEF f
  <2>7. \A j \in 1..Block : buf[j] = text[a + j]
    <3> TAKE j \in 1..Block
    <3>1. CASE j <= r
      <4>1. j \in 1..r
        BY <1>9, <3>1
      <4> QED
        BY <1>8, <2>4, <4>1
    <3>2. CASE j > r
      <4> DEFINE i == j - r
      <4>1. i \in 1..copy /\ i \in 1..m /\ r + i = j /\ n + i = a + j
        BY <1>0, <1>3, <1>7, <1>8, <1>9, <2>1, <3>2
      <4> HIDE DEF i
      <4>2. buf[r + i] = first[i] /\ first[i] = bytes[i] /\ bytes[i] = text[n + i]
        BY <1>2, <2>3, <2>4, <4>1
      <4> QED
        BY <4>1, <4>2
    <3>3. j <= r \/ j > r
      BY <1>9
    <3> QED
      BY <3>1, <3>2, <3>3, Zenon
  <2>8. n + copy = a + Block /\ a + Block <= Len(text)
    <3>1. Len(text) \in Nat
      OBVIOUS
    <3> QED
      BY <1>0, <1>2, <1>3, <1>7, <1>8, <1>9, <2>1, <3>1
  <2>9. BlockFrom(text, a, buf)
    BY <2>4, <2>7, <2>8, Zenon DEF BlockFrom
  <2>10. BlocksOf(text, f.abcd) /\ Block * Len(f.abcd) = n + copy
    <3>1. BlocksOf(text, Append(c.abcd, buf))
            /\ Block * Len(Append(c.abcd, buf)) = a + Block
      BY <1>5, <1>6, <2>9, CutMore DEF a
    <3> QED
      BY <2>6, <2>8, <3>1, Zenon
  <2>11. PieceAt(text, n + copy, rest) /\ Len(rest) = m - copy
    <3>1. PieceAt(text, n, bytes) /\ text \in Seq(Int) /\ copy <= Len(bytes) /\ copy \in Nat
      BY <2>1 DEF m
    <3>2. /\ PieceAt(text, n + copy, SubSeq(bytes, copy + 1, Len(bytes)))
          /\ Len(SubSeq(bytes, copy + 1, Len(bytes))) = Len(bytes) - copy
      BY ONLY <1>2, <3>1, SliceRest
    <3> QED
      BY <3>2, Zenon DEF m
  <2> HIDE DEF rest
  <2>12. /\ Md5Cut(FullBlocks(f, rest), (n + copy) + Len(rest), text)
         /\ FullBlocks(f, rest).count = f.count
    <3>1. Len(f.buf) = Block
      BY <2>4, <2>6
    <3>2. f \in Md5States /\ BlocksOf(text, f.abcd) /\ n + copy = Block * Len(f.abcd)
      BY <2>6, <2>10
    <3>3. text \in Seq(Int) /\ PieceAt(text, n + copy, rest)
      BY <2>11
    <3> QED
      BY ONLY <3>1, <3>2, <3>3, FullBlocksIs, Zenon
  <2>13. (n + copy) + Len(rest) = n + m
    BY <1>2, <1>3, <2>1, <2>11
  <2> QED
    BY <1>11, <2>2, <2>6, <2>12, <2>13, Zenon DEF Md5At, m
<1>18. m = 0 \/ (m > 0 /\ r = 0) \/ (m > 0 /\ r > 0 /\ r + m < Block)
       \/ (m > 0 /\ r > 0 /\ r + m >= Block)
  BY <1>0, <1>3, <1>9
<1> QED
  BY <1>14, <1>15, <1>16, <1>17, <1>18, Zenon

\* The words of a length are two numbers.
LEMMA Md5LengthIs ==
  ASSUME NEW n \in Nat
  PROVE  Md5Length(n) \in Seq(Int) /\ Len(Md5Length(n)) = 2
<1> DEFINE x == 8 * n
<1>1. x \in Nat /\ Word \in Nat /\ Word > 0
  BY HashAssumption
<1> HIDE DEF x
<1>2. x % Word \in Int /\ x \div Word \in Int
  BY <1>1
<1>3. (x \div Word) % Word \in Int
  BY <1>1, <1>2
<1>4. Md5Length(n) = <<x % Word, (x \div Word) % Word>>
  BY DEF x, Md5Length
<1> QED
  BY <1>2, <1>3, <1>4

\* An object that has been given nothing.
LEMMA Md5Starts ==
  ASSUME NEW text \in Seq(Int)
  PROVE  Md5At(Md5Init, 0, text)
<1> DEFINE none == << >>
           zeros == Zeros(Block)
           count == <<0, 0>>
<1>1. Block \in Nat /\ Block > 2 /\ Word \in Nat /\ Word > 0
  BY HashAssumption
<1>2. none \in Seq(Seq(Int)) /\ Len(none) = 0 /\ count \in Seq(Int)
  OBVIOUS
<1>3. zeros \in Seq(Int) /\ Len(zeros) = Block
  BY <1>1, ZerosAre
<1>4. Md5Init = [count |-> count, buf |-> zeros, abcd |-> none]
  BY Zenon DEF Md5Init
<1>5. BlocksOf(text, none)
  BY <1>1, <1>2 DEF BlocksOf
<1>6. Md5Length(0) = count
  <2>1. 8 * 0 = 0 /\ 0 % Word = 0 /\ 0 \div Word = 0
    BY <1>1
  <2> QED
    BY <2>1 DEF Md5Length
<1> HIDE DEF none, zeros, count
<1>7. Md5Init \in Md5States /\ Md5Init.count = count /\ Md5Init.buf = zeros
        /\ Md5Init.abcd = none
  BY <1>2, <1>3, <1>4, Zenon DEF Md5States
<1>8. 0 \in 0..Block - 1 /\ 0 = Block * Len(none) + 0
  BY <1>1, <1>2
<1>9. \A j \in 1..0 : Md5Init.buf[j] = text[Block * Len(none) + j]
  OBVIOUS
<1>10. Md5Cut(Md5Init, 0, text)
  BY <1>3, <1>5, <1>7, <1>8, <1>9, Zenon DEF Md5Cut
<1> QED
  BY <1>6, <1>7, <1>10, Zenon DEF Md5At

\* One more piece of a message.
LEMMA Md5PieceAfter ==
  ASSUME NEW pieces \in Seq(Seq(Int)), NEW L, FrontsOf(L, pieces, Int),
         NEW text \in Seq(Int), Len(FlattenSeq(pieces)) <= Len(text),
         \A j \in 1..Len(FlattenSeq(pieces)) : text[j] = FlattenSeq(pieces)[j],
         NEW i \in 1..Len(pieces), NEW c, Md5At(c, Len(L[i - 1]), text)
  PROVE  Md5At(Md5Append(c, pieces[i]), Len(L[i]), text)
<1> DEFINE p == Len(L[i - 1])
           b == pieces[i]
           whole == FlattenSeq(pieces)
<1>1. PieceAt(text, p, b) /\ p + Len(b) = Len(L[i])
  <2>1. Len(whole) <= Len(text) /\ (\A j \in 1..Len(whole) : text[j] = whole[j])
        /\ whole = FlattenSeq(pieces)
    OBVIOUS
  <2> HIDE DEF whole
  <2> QED
    BY <2>1, PieceOfText
<1>2. Md5At(c, p, text)
  OBVIOUS
<1> HIDE DEF p, b
<1>3. Md5At(Md5Append(c, b), p + Len(b), text)
  BY <1>1, <1>2, Md5Piece
<1> QED
  BY <1>1, <1>3 DEF b

\* The loop over the pieces has a state after each of them.
LEMMA Md5PieceRounds ==
  ASSUME NEW pieces \in Seq(Seq(Int)), NEW L, FrontsOf(L, pieces, Int),
         NEW text \in Seq(Int), Len(FlattenSeq(pieces)) <= Len(text),
         \A j \in 1..Len(FlattenSeq(pieces)) : text[j] = FlattenSeq(pieces)[j]
  PROVE  \E g : g = [i \in 0..Len(pieces) |->
                       IF i = 0 THEN Md5Init ELSE Md5Append(g[i - 1], pieces[i])]
<1> DEFINE n == Len(pieces)
           W == Md5States
           c == Md5Init
           Next1(i, s) == Md5Append(s, pieces[i])
           F == [i \in 1..n |-> [s \in W |-> IF Next1(i, s) \in W THEN Next1(i, s) ELSE c]]
<1>1. n \in Nat /\ L[0] = << >> /\ Len(L[0]) = 0
  BY DEF FrontsOf
<1>2. Md5At(c, 0, text)
  BY Md5Starts
<1>3. c \in W
  BY <1>2, Zenon DEF Md5At, Md5Cut
<1> HIDE DEF c, W, Next1
<1>4. F \in [1..n -> [W -> W]]
  BY <1>3
<1>5. \A i \in 1..n : \A s \in W : Next1(i, s) \in W => F[i][s] = Next1(i, s)
  OBVIOUS
<1> HIDE DEF F
<1>6. PICK g \in [0..n -> W] : g[0] = c /\ \A i \in 1..n : g[i] = F[i][g[i - 1]]
  <2>1. PICK g : RunOf(g, W, c, n, F)
    BY <1>1, <1>3, <1>4, RunExists, Zenon
  <2> QED
    BY <2>1, Zenon DEF RunOf
<1> DEFINE T == {i \in 0..n : Md5At(g[i], Len(L[i]), text)}
<1>7. 0 \in T
  <2>1. 0 \in 0..n
    BY <1>1
  <2> QED
    BY <1>1, <1>2, <1>6, <2>1
<1>8. ASSUME NEW i \in 1..n, Md5At(g[i - 1], Len(L[i - 1]), text)
      PROVE  g[i] = Next1(i, g[i - 1]) /\ Md5At(g[i], Len(L[i]), text)
  <2>1. i - 1 \in 0..n
    BY <1>1
  <2>2. g[i - 1] \in W
    BY <1>6, <2>1
  <2>3. Md5At(Next1(i, g[i - 1]), Len(L[i]), text)
    BY <1>8, Md5PieceAfter DEF Next1
  <2>4. Next1(i, g[i - 1]) \in W
    BY <2>3, Zenon DEF Md5At, Md5Cut, W
  <2>5. g[i] = Next1(i, g[i - 1])
    BY <1>5, <1>6, <2>2, <2>4, Zenon
  <2> QED
    BY <2>3, <2>5, Zenon
<1>9. \A i \in 0..n : i \in T
  <2>1. ASSUME NEW i \in 1..n, i - 1 \in T PROVE i \in T
    <3>1. i \in 0..n
      BY <1>1
    <3> QED
      BY <1>8, <2>1, <3>1
  <2> HIDE DEF T, n
  <2> QED
    BY <1>1, <1>7, <2>1, UpTo
<1>10. ASSUME NEW i \in 1..n PROVE g[i] = Next1(i, g[i - 1])
  <2>1. i - 1 \in 0..n
    BY <1>1
  <2> QED
    BY <1>8, <1>9, <2>1
<1>11. g = [i \in 0..n |-> IF i = 0 THEN c ELSE Next1(i, g[i - 1])]
  <2>1. \A i \in 0..n : i = 0 \/ i \in 1..n
    BY <1>1
  <2> HIDE DEF n, T
  <2> QED
    BY <1>6, <1>10, <2>1
<1> QED
  BY <1>11 DEF c, Next1

\* The object has been given the pieces.
LEMMA Md5Pieces ==
  ASSUME NEW pieces \in Seq(Seq(Int)), NEW L, FrontsOf(L, pieces, Int),
         NEW text \in Seq(Int), Len(FlattenSeq(pieces)) <= Len(text),
         \A j \in 1..Len(FlattenSeq(pieces)) : text[j] = FlattenSeq(pieces)[j]
  PROVE  \E c : Md5At(c, Len(FlattenSeq(pieces)), text) /\ Md5Of(pieces) = Md5Finish(c)
<1> DEFINE n == Len(pieces)
           A[i \in 0..Len(pieces)] ==
             IF i = 0 THEN Md5Init ELSE Md5Append(A[i - 1], pieces[i])
<1>1. n \in Nat /\ L[0] = << >> /\ Len(L[0]) = 0 /\ L[n] = FlattenSeq(pieces)
  BY DEF FrontsOf
<1>2. Md5Of(pieces) = Md5Finish(A[n])
  BY DEF Md5Of
<1>3. PICK g : g = [i \in 0..n |-> IF i = 0 THEN Md5Init
           ELSE Md5Append(g[i - 1], pieces[i])]
  BY Md5PieceRounds
<1>4. A = [i \in 0..n |-> IF i = 0 THEN Md5Init ELSE Md5Append(A[i - 1], pieces[i])]
  BY <1>3 DEF A
<1> HIDE DEF A
<1> DEFINE T == {i \in 0..n : Md5At(A[i], Len(L[i]), text)}
<1>5. 0 \in T
  <2>1. A[0] = Md5Init /\ 0 \in 0..n
    BY <1>1, <1>4
  <2> QED
    BY <1>1, <2>1, Md5Starts
<1>6. ASSUME NEW i \in 1..n, i - 1 \in T PROVE i \in T
  <2>1. i \in 0..n /\ i # 0
    BY <1>1
  <2>2. A[i] = Md5Append(A[i - 1], pieces[i])
    <3> HIDE DEF n
    <3> QED
      BY <1>4, <2>1, Zenon
  <2>3. Md5At(A[i - 1], Len(L[i - 1]), text)
    BY <1>6
  <2>4. Md5At(Md5Append(A[i - 1], pieces[i]), Len(L[i]), text)
    BY <2>3, Md5PieceAfter
  <2> QED
    BY <2>1, <2>2, <2>4
<1>7. n \in T
  <2> HIDE DEF T, n
  <2>1. \A i \in 0..n : i \in T
    BY <1>1, <1>5, <1>6, UpTo
  <2> QED
    BY <1>1, <2>1
<1> QED
  BY <1>1, <1>2, <1>7

\* What the end of the message does: a one, zeros and the length.
LEMMA Md5FinishIs ==
  ASSUME NEW bytes \in Seq(Int), NEW text, text = Padded(bytes, Md5Length(Len(bytes))),
         NEW c, Md5At(c, Len(bytes), text)
  PROVE  Md5Finish(c) = Md5Standard(bytes)
<1> DEFINE n == Len(bytes)
           k == ZerosFor(n % Block)
           length == Md5Length(n)
           zeros == Zeros(k)
           one == <<Pad>>
           pad == one \o zeros
           d == Md5Append(c, pad)
           e == Md5Append(d, length)
<1>0. n \in Nat /\ Block \in Nat /\ Block > 2 /\ Word \in Nat /\ Word > 0
  BY HashAssumption
<1>1. length \in Seq(Int) /\ Len(length) = 2
  BY <1>0, Md5LengthIs
<1>2. k \in Nat
  <2> DEFINE r == n % Block
  <2>1. r \in Nat /\ r < Block
    BY <1>0
  <2> HIDE DEF r
  <2>2. ZerosFor(r) \in 0..Block - 1
    BY <2>1, ZerosForIs
  <2>3. ZerosFor(r) \in Nat
    BY <1>0, <2>2
  <2> QED
    BY <2>3 DEF r
<1>3. PaddedTo(text, bytes, k, length)
  <2>1. text = Padded(bytes, length)
    OBVIOUS
  <2> HIDE DEF length, k
  <2>2. PaddedTo(text, bytes, ZerosFor(Len(bytes) % Block), length)
    BY <1>1, <2>1, PaddedIs
  <2> QED
    BY <2>2 DEF k
<1>4. c.count = length
  BY Zenon DEF Md5At
<1>5. (Block - 3 - c.count[1] \div 8) % Block = k
  <2>1. c.count[1] = (8 * n) % Word
    BY <1>4 DEF Md5Length
  <2>2. PICK s \in Nat : ((8 * n) % Word) \div 8 = s /\ s % Block = n % Block
    BY <1>0, OffsetIs
  <2>3. (Block - 3 - s) % Block = ZerosFor(s % Block)
    BY <2>2, PadZeros
  <2> QED
    BY <2>1, <2>2, <2>3, Zenon
<1>6. Md5Finish(c) = e.abcd
  <2>1. Md5Finish(c) =
          Md5Append(Md5Append(c, <<Pad>> \o Zeros((Block - 3 - c.count[1] \div 8) % Block)),
                    c.count).abcd
    BY DEF Md5Finish
  <2> QED
    BY <1>4, <1>5, <2>1, Zenon
<1> HIDE DEF k, length, n
<1>7. /\ text \in Seq(Int) /\ Len(text) = n + k + 3
      /\ \A j \in 1..n : text[j] = bytes[j]
      /\ text[n + 1] = Pad /\ (\A j \in 1..k : text[n + 1 + j] = Zero)
      /\ \A j \in 1..2 : text[n + 1 + k + j] = length[j]
  BY <1>1, <1>3 DEF PaddedTo, n
<1>8. PieceAt(text, n, pad) /\ Len(pad) = k + 1
  <2>1. one \in Seq(Int) /\ Len(one) = 1 /\ one[1] = Pad
    BY DEF Pad
  <2>2. zeros \in Seq(Int) /\ Len(zeros) = k /\ \A j \in 1..k : zeros[j] = Zero
    BY <1>2, ZerosAre
  <2> HIDE DEF one, zeros
  <2>3. /\ pad \in Seq(Int) /\ Len(pad) = Len(one) + Len(zeros)
        /\ \A j \in 1..Len(one) + Len(zeros) :
             pad[j] = IF j <= Len(one) THEN one[j] ELSE zeros[j - Len(one)]
    BY <2>1, <2>2, ConcatProperties
  <2> HIDE DEF pad
  <2>4. Len(pad) = k + 1
    BY <1>2, <2>1, <2>2, <2>3
  <2>5. ASSUME NEW j \in 1..k + 1 PROVE pad[j] = text[n + j]
    <3>1. CASE j = 1
      BY <1>2, <1>7, <2>1, <2>2, <2>3, <3>1
    <3>2. CASE j # 1
      <4> DEFINE i == j - 1
      <4>1. i \in 1..k /\ n + 1 + i = n + j /\ j \in 1..Len(one) + Len(zeros)
            /\ ~(j <= Len(one)) /\ j - Len(one) = i
        BY <1>0, <1>2, <2>1, <2>2, <3>2 DEF n
      <4> HIDE DEF i
      <4> QED
        BY <1>7, <2>2, <2>3, <4>1
    <3> QED
      BY <3>1, <3>2
  <2>6. n + Len(pad) <= Len(text)
    BY <1>0, <1>2, <1>7, <2>4 DEF n
  <2>7. n \in Nat
    BY <1>0 DEF n
  <2>8. \A j \in 1..Len(pad) : pad[j] = text[n + j]
    BY <2>4, <2>5
  <2>9. PieceAt(text, n, pad)
    BY <2>3, <2>6, <2>7, <2>8, Zenon DEF PieceAt
  <2> QED
    BY <2>4, <2>9
<1>9. Md5At(d, n + k + 1, text)
  <2>1. Md5At(c, n, text) /\ text \in Seq(Int)
    BY <1>7 DEF n
  <2>2. n + Len(pad) = n + k + 1
    <3>1. n \in Nat
      BY <1>0 DEF n
    <3> HIDE DEF pad
    <3> QED
      BY <1>2, <1>8, <3>1
  <2> HIDE DEF pad
  <2>3. Md5At(Md5Append(c, pad), n + Len(pad), text)
    BY ONLY <1>8, <2>1, Md5Piece
  <2> QED
    BY <2>2, <2>3
<1> HIDE DEF d, pad
<1>10. PieceAt(text, n + k + 1, length)
  <2> DEFINE p == n + k + 1
  <2>1. p \in Nat /\ p + 2 = Len(text) /\ n + 1 + k = p
    BY <1>0, <1>2, <1>7 DEF n
  <2>2. \A j \in 1..2 : length[j] = text[p + j]
    BY <1>7, <2>1
  <2> HIDE DEF p
  <2>3. p + Len(length) <= Len(text)
    BY <1>1, <2>1
  <2>4. \A j \in 1..Len(length) : length[j] = text[p + j]
    BY <1>1, <2>2
  <2>5. PieceAt(text, p, length)
    BY <1>1, <2>1, <2>3, <2>4, Zenon DEF PieceAt
  <2> QED
    BY <2>5 DEF p
<1>11. Md5At(e, Len(text), text)
  <2> DEFINE p == n + k + 1
  <2>1. p + Len(length) = Len(text)
    BY <1>0, <1>1, <1>2, <1>7 DEF n
  <2>2. Md5At(d, p, text) /\ PieceAt(text, p, length) /\ text \in Seq(Int)
    BY <1>7, <1>9, <1>10
  <2> HIDE DEF p
  <2>3. Md5At(Md5Append(d, length), p + Len(length), text)
    BY ONLY <2>2, Md5Piece
  <2> QED
    BY <2>1, <2>3
<1> HIDE DEF e
<1>12. /\ e \in Md5States /\ BlocksOf(text, e.abcd)
       /\ \E r \in 0..Block - 1 : Len(text) = Block * Len(e.abcd) + r
  BY <1>11, Zenon DEF Md5At, Md5Cut
<1>13. e.abcd \in Seq(Seq(Int))
  BY <1>12, Zenon DEF Md5States
<1>14. Len(text) = Block * Len(e.abcd)
  <2> DEFINE l == Len(text)
             q == Len(e.abcd)
  <2>1. l \in Nat /\ q \in Nat
    BY <1>7, <1>13
  <2>2. l % Block = 0
    <3> DEFINE r == n % Block
               u == n \div Block
    <3>1. r \in 0..Block - 1 /\ u \in Int /\ n = Block * u + r /\ n \in Nat
      BY <1>0 DEF n
    <3> HIDE DEF r, u
    <3>2. u \in Nat
      <4>1. CASE u <= -1
        <5>1. Block * u <= -Block /\ Block * u \in Int
          BY <1>0, <3>1, <4>1
        <5> DEFINE b == Block * u
        <5>2. b \in Int /\ b <= -Block /\ n = b + r
          BY <3>1, <5>1
        <5> HIDE DEF b
        <5>3. FALSE
          BY <1>0, <3>1, <5>2
        <5> QED
          BY <5>3
      <4> QED
        BY <3>1, <4>1
    <3>3. (n + 1 + ZerosFor(r) + 2) % Block = 0
      BY <3>1, <3>2, ZerosForFit
    <3>4. ZerosFor(r) = k
      BY DEF r, k
    <3>5. n + 1 + k + 2 = l
      BY <1>2, <1>7, <3>1
    <3> QED
      BY <3>3, <3>4, <3>5
  <2>3. PICK r \in 0..Block - 1 : l = Block * q + r
    BY <1>12
  <2> HIDE DEF l, q
  <2>4. l = q * Block + r /\ r \in Nat /\ r < Block /\ q \in Int /\ Block > 0
    BY <1>0, <2>1, <2>3
  <2>5. (q * Block + r) % Block = r
    BY ONLY <1>0, <2>4, DivIs
  <2>6. r = 0
    BY <2>2, <2>4, <2>5
  <2>7. Block * q \in Int
    BY <1>0, <2>1
  <2> DEFINE b == Block * q
  <2>8. b \in Int /\ l = b + r
    BY <2>3, <2>7
  <2> HIDE DEF b
  <2>9. l = b
    BY <2>6, <2>8
  <2> QED
    BY <2>9 DEF l, q, b
<1>15. PaddedBlocks(bytes, length) = e.abcd
  <2>1. text = Padded(bytes, length)
    BY DEF length, n
  <2> QED
    BY <1>1, <1>12, <1>13, <1>14, <2>1, PaddedBlocksIs
<1>16. Md5Standard(bytes) = PaddedBlocks(bytes, length)
  BY Zenon DEF Md5Standard, length, Md5Length, n
<1> QED
  BY <1>6, <1>15, <1>16, Zenon

\* MD5 of a message in any pieces.
LEMMA Md5Hashes ==
  ASSUME NEW pieces \in Seq(Seq(Int))
  PROVE  Md5Of(pieces) = Md5Standard(FlattenSeq(pieces))
<1> DEFINE whole == FlattenSeq(pieces)
           length == Md5Length(Len(whole))
           text == Padded(whole, length)
<1>1. PICK L : FrontsOf(L, pieces, Int)
  BY FlattenIs
<1>2. whole \in Seq(Int)
  <2>1. Len(pieces) \in 0..Len(pieces)
    OBVIOUS
  <2> QED
    BY <1>1, <2>1 DEF FrontsOf
<1>3. length \in Seq(Int) /\ Len(length) = 2
  <2>1. Len(whole) \in Nat
    BY <1>2
  <2> QED
    BY <2>1, Md5LengthIs
<1> HIDE DEF length
<1>4. /\ text \in Seq(Int) /\ Len(whole) <= Len(text)
      /\ \A j \in 1..Len(whole) : text[j] = whole[j]
  <2> HIDE DEF whole
  <2> QED
    BY <1>2, <1>3, PaddedIs
<1> HIDE DEF text
<1>5. PICK c : Md5At(c, Len(whole), text) /\ Md5Of(pieces) = Md5Finish(c)
  BY <1>1, <1>4, Md5Pieces
<1>6. text = Padded(whole, Md5Length(Len(whole)))
  BY DEF text, length
<1> HIDE DEF whole
<1>7. Md5Finish(c) = Md5Standard(whole)
  BY <1>2, <1>5, <1>6, Md5FinishIs
<1> QED
  BY <1>5, <1>7 DEF whole

-----------------------------------------------------------------------------
(* Handshake: the key of the request, and the answer to it.                *)

KeyName == "Sec-WebSocket-Key"

\* The line with the key is the only one of its name.
LEMMA KeyLine ==
  ASSUME NEW lines \in Seq(Lines), NEW key, KeyIn(lines, key)
  PROVE  \E k \in 1..Len(lines) :
           /\ lines[k].value = key
           /\ \A i \in 1..Len(lines) : lines[i].name = KeyName <=> i = k
  BY DEF KeyIn, KeyName

\* What is read of a line.
RequestWith(req, h) ==
  CASE h.name \notin Fields -> req
    [] h.name = "Host"      -> [req EXCEPT !["Host"] = Tail(h.value)]
    [] OTHER                -> [req EXCEPT ![h.name] = h.value]

\* A line with another name leaves the key alone.
LEMMA RequestKeeps ==
  ASSUME NEW req \in [Fields -> Seq(Octet)], NEW h \in Lines
  PROVE  /\ RequestWith(req, h) \in [Fields -> Seq(Octet)]
         /\ h.name # KeyName => RequestWith(req, h)[KeyName] = req[KeyName]
         /\ h.name = KeyName => RequestWith(req, h)[KeyName] = h.value
<1>1. h.value \in Seq(Octet) /\ (h.name = "Host" => h.value # << >>)
  BY DEF Lines
<1>2. h.name = "Host" => Tail(h.value) \in Seq(Octet)
  BY <1>1, HeadTailProperties
<1>3. KeyName \in Fields /\ KeyName # "Host"
  BY DEF KeyName, Fields
<1> DEFINE v == h.value
           t == Tail(h.value)
           f == h.name
<1>4. v \in Seq(Octet) /\ (f = "Host" => t \in Seq(Octet))
  BY <1>1, <1>2
<1>5. RequestWith(req, h) =
        IF f \notin Fields THEN req
        ELSE IF f = "Host" THEN [req EXCEPT !["Host"] = t]
        ELSE [req EXCEPT ![f] = v]
  BY DEF RequestWith
<1> HIDE DEF v, t, f, KeyName
<1>6. CASE f \notin Fields
  BY <1>3, <1>5, <1>6 DEF f
<1>7. CASE f \in Fields /\ f = "Host"
  BY <1>3, <1>4, <1>5, <1>7 DEF f
<1>8. CASE f \in Fields /\ f # "Host"
  BY <1>3, <1>4, <1>5, <1>8 DEF f, v
<1> QED
  BY <1>6, <1>7, <1>8

\* The loop over the lines has a state after each of them.
LEMMA RequestRounds ==
  ASSUME NEW lines \in Seq(Lines)
  PROVE  \E g \in [0..Len(lines) -> [Fields -> Seq(Octet)]] :
           /\ g = [i \in 0..Len(lines) |->
                     IF i = 0 THEN NoFields ELSE RequestWith(g[i - 1], lines[i])]
<1> DEFINE m == Len(lines)
           W == [Fields -> Seq(Octet)]
           c == NoFields
           F == [i \in 1..m |-> [s \in W |-> RequestWith(s, lines[i])]]
<1>1. m \in Nat /\ \A i \in 1..m : lines[i] \in Lines
  OBVIOUS
<1>2. F \in [1..m -> [W -> W]]
  BY <1>1, RequestKeeps
<1>3. \A i \in 1..m : \A s \in W : F[i][s] = RequestWith(s, lines[i])
  OBVIOUS
<1>4. c \in W
  BY DEF NoFields
<1> HIDE DEF F, W, c
<1>5. PICK g \in [0..m -> W] : g[0] = c /\ \A i \in 1..m : g[i] = F[i][g[i - 1]]
  <2>1. m \in Nat
    BY <1>1
  <2> HIDE DEF m
  <2>2. PICK g : RunOf(g, W, c, m, F)
    BY <1>2, <1>4, <2>1, RunExists, Zenon
  <2> QED
    BY <2>2, Zenon DEF RunOf
<1> HIDE DEF m
<1>6. ASSUME NEW i \in 1..m PROVE g[i] = RequestWith(g[i - 1], lines[i])
  <2>1. i - 1 \in 0..m
    BY <1>1
  <2>2. g[i - 1] \in W
    BY <1>5, <2>1
  <2> QED
    BY <1>3, <1>5, <2>2, Zenon
<1>7. g = [i \in 0..m |-> IF i = 0 THEN c ELSE RequestWith(g[i - 1], lines[i])]
  <2>1. \A i \in 0..m : i = 0 \/ i \in 1..m
    BY <1>1
  <2> QED
    BY <1>5, <1>6, <2>1
<1> QED
  BY <1>5, <1>7 DEF m, c, W

\* The key is read.
LEMMA KeyIsRead ==
  ASSUME NEW lines \in Seq(Lines), NEW key, KeyIn(lines, key)
  PROVE  ParseWebsocketRequest(lines)[KeyName] = key
<1> DEFINE n == Len(lines)
           A[i \in 0..Len(lines)] ==
             IF i = 0 THEN NoFields ELSE RequestWith(A[i - 1], lines[i])
<1>1. n \in Nat /\ \A i \in 1..n : lines[i] \in Lines
  OBVIOUS
<1>2. ParseWebsocketRequest(lines) = A[n]
  BY DEF ParseWebsocketRequest, RequestWith
<1>3. A = [i \in 0..n |-> IF i = 0 THEN NoFields ELSE RequestWith(A[i - 1], lines[i])]
  <2>1. PICK g : g = [i \in 0..n |->
                        IF i = 0 THEN NoFields ELSE RequestWith(g[i - 1], lines[i])]
    BY RequestRounds
  <2> QED
    BY <2>1 DEF A
<1>4. PICK k \in 1..n : /\ lines[k].value = key
                        /\ \A i \in 1..n : lines[i].name = KeyName <=> i = k
  BY KeyLine
<1> HIDE DEF A
<1> DEFINE W == [Fields -> Seq(Octet)]
           T == {i \in 0..n : A[i] \in W /\ (k <= i => A[i][KeyName] = key)}
<1>5. 0 \in T
  <2>1. A[0] = NoFields /\ 0 \in 0..n /\ ~(k <= 0)
    BY <1>1, <1>3
  <2>2. NoFields \in W
    BY DEF NoFields
  <2> QED
    BY <2>1, <2>2
<1>6. ASSUME NEW i \in 1..n, i - 1 \in T PROVE i \in T
  <2>1. i \in 0..n /\ i # 0 /\ lines[i] \in Lines
    BY <1>1
  <2>2. A[i - 1] \in W /\ (k <= i - 1 => A[i - 1][KeyName] = key)
    BY <1>6
  <2>3. A[i] = RequestWith(A[i - 1], lines[i])
    <3> HIDE DEF n
    <3> QED
      BY <1>3, <2>1, Zenon
  <2>4. /\ A[i] \in W
        /\ lines[i].name # KeyName => A[i][KeyName] = A[i - 1][KeyName]
        /\ lines[i].name = KeyName => A[i][KeyName] = lines[i].value
    <3> DEFINE req == A[i - 1]
               h == lines[i]
    <3>1. req \in W /\ h \in Lines /\ A[i] = RequestWith(req, h)
      BY <2>1, <2>2, <2>3
    <3> HIDE DEF req, h
    <3>2. /\ RequestWith(req, h) \in W
          /\ h.name # KeyName => RequestWith(req, h)[KeyName] = req[KeyName]
          /\ h.name = KeyName => RequestWith(req, h)[KeyName] = h.value
      BY <3>1, RequestKeeps
    <3> QED
      BY <3>1, <3>2, Zenon DEF req, h
  <2>5. CASE i = k
    BY <1>4, <2>1, <2>4, <2>5
  <2>6. CASE i # k
    <3>1. k <= i => k <= i - 1
      BY <1>1, <2>6
    <3>2. lines[i].name # KeyName
      BY <1>4, <2>6
    <3> QED
      BY <2>1, <2>2, <2>4, <3>1, <3>2
  <2> QED
    BY <2>5, <2>6
<1>7. n \in T
  <2> HIDE DEF T, n
  <2>1. \A i \in 0..n : i \in T
    BY <1>1, <1>5, <1>6, UpTo
  <2> QED
    BY <1>1, <2>1
<1>8. k <= n
  BY <1>1
<1> QED
  BY <1>2, <1>7, <1>8

\* What the other server keeps of a line that is spelled as in the standard.
MapWith(map, h) ==
  LET value == [i \in 1..(h.spaces - 1) |-> 32] \o h.value
      key   == <<h.name, h.exact>>
  IN  IF h.spaces = 0 THEN map
      ELSE [k \in DOMAIN map \union {key} |-> IF k = key THEN value ELSE map[k]]

KeyAt == <<KeyName, TRUE>>
Keys == STRING \X BOOLEAN
Maps == UNION {[D -> Seq(Octet)] : D \in SUBSET Keys}

\* A line with another name leaves the key alone.
LEMMA MapKeeps ==
  ASSUME NEW map \in Maps, NEW h \in Lines, h.exact, h.spaces = 1
  PROVE  /\ MapWith(map, h) \in Maps
         /\ h.name # KeyName /\ KeyAt \in DOMAIN map =>
              KeyAt \in DOMAIN MapWith(map, h) /\ MapWith(map, h)[KeyAt] = map[KeyAt]
         /\ h.name = KeyName => KeyAt \in DOMAIN MapWith(map, h)
              /\ MapWith(map, h)[KeyAt] = h.value
<1> DEFINE v == h.value
           key == <<h.name, h.exact>>
           D == DOMAIN map \union {key}
           new == [k \in D |-> IF k = key THEN v ELSE map[k]]
           some == [i \in 1..(h.spaces - 1) |-> 32]
<1>1. h.value \in Seq(Octet) /\ h.name \in STRING /\ h.exact \in BOOLEAN
  BY DEF Lines
<1>2. some = << >>
  <2>1. 1..(h.spaces - 1) = {}
    OBVIOUS
  <2>2. some \in Seq(Octet) /\ Len(some) = 0
    BY <2>1
  <2> HIDE DEF some
  <2> QED
    BY <2>2
<1>3. some \o v = v
  <2> HIDE DEF some, v
  <2>1. v \in Seq(Octet)
    BY <1>1 DEF v
  <2> QED
    BY <1>2, <2>1, ConcatEmptySeq
<1>4. MapWith(map, h) = new
  <2>1. MapWith(map, h) = [k \in D |-> IF k = key THEN some \o v ELSE map[k]]
    BY DEF MapWith
  <2> HIDE DEF some, v
  <2> QED
    BY <1>3, <2>1, Zenon
<1>5. key \in Keys /\ DOMAIN map \subseteq Keys
        /\ \A k \in DOMAIN map : map[k] \in Seq(Octet)
  BY <1>1 DEF Keys, Maps
<1>6. key = <<h.name, TRUE>>
  BY <1>1
<1>7. h.name = KeyName <=> key = KeyAt
  BY <1>6 DEF KeyAt
<1> HIDE DEF key
<1>8. D \in SUBSET Keys
  BY <1>5
<1>9. v \in Seq(Octet)
  BY <1>1
<1> HIDE DEF v
<1>10. new \in [D -> Seq(Octet)]
  BY <1>5, <1>9
<1>11. new \in Maps
  <2> HIDE DEF new, D
  <2> QED
    BY <1>8, <1>10, Zenon DEF Maps
<1>12. DOMAIN new = D /\ key \in D /\ DOMAIN map \subseteq D
  OBVIOUS
<1>13. new[key] = v /\ \A k \in DOMAIN map : k # key => new[k] = map[k]
  OBVIOUS
<1> HIDE DEF new, D
<1> QED
  BY <1>4, <1>7, <1>11, <1>12, <1>13, Zenon DEF v

\* The loop over the lines has a state after each of them.
LEMMA MapRounds ==
  ASSUME NEW lines \in Seq(Lines), \A i \in DOMAIN lines : lines[i].exact
         /\ lines[i].spaces = 1
  PROVE  \E g : g = [i \in 0..Len(lines) |->
                       IF i = 0 THEN [k \in {} |-> << >>] ELSE MapWith(g[i - 1], lines[i])]
<1> DEFINE m == Len(lines)
           W == Maps
           c == [k \in {} |-> << >>]
           F == [i \in 1..m |-> [s \in W |-> MapWith(s, lines[i])]]
<1>1. m \in Nat /\ \A i \in 1..m : lines[i] \in Lines /\ lines[i].exact
        /\ lines[i].spaces = 1
  OBVIOUS
<1>2. F \in [1..m -> [W -> W]]
  BY <1>1, MapKeeps
<1>3. \A i \in 1..m : \A s \in W : F[i][s] = MapWith(s, lines[i])
  OBVIOUS
<1>4. c \in W
  <2>1. c \in [{} -> Seq(Octet)] /\ {} \in SUBSET Keys
    OBVIOUS
  <2> HIDE DEF c
  <2> QED
    BY <2>1, Zenon DEF Maps
<1> HIDE DEF F, W, c
<1>5. PICK g \in [0..m -> W] : g[0] = c /\ \A i \in 1..m : g[i] = F[i][g[i - 1]]
  <2>1. m \in Nat
    BY <1>1
  <2> HIDE DEF m
  <2>2. PICK g : RunOf(g, W, c, m, F)
    BY <1>2, <1>4, <2>1, RunExists, Zenon
  <2> QED
    BY <2>2, Zenon DEF RunOf
<1> HIDE DEF m
<1>6. ASSUME NEW i \in 1..m PROVE g[i] = MapWith(g[i - 1], lines[i])
  <2>1. i - 1 \in 0..m
    BY <1>1
  <2>2. g[i - 1] \in W
    BY <1>5, <2>1
  <2> QED
    BY <1>3, <1>5, <2>2, Zenon
<1>7. g = [i \in 0..m |-> IF i = 0 THEN c ELSE MapWith(g[i - 1], lines[i])]
  <2>1. \A i \in 0..m : i = 0 \/ i \in 1..m
    BY <1>1
  <2> QED
    BY <1>5, <1>6, <2>1
<1> QED
  BY <1>7, Zenon DEF m, c

\* The key is kept.
LEMMA KeyIsKept ==
  ASSUME NEW lines \in Seq(Lines), NEW key, KeyIn(lines, key),
         \A i \in DOMAIN lines : lines[i].exact /\ lines[i].spaces = 1
  PROVE  KeyAt \in DOMAIN FetchHttpInfo(lines) /\ FetchHttpInfo(lines)[KeyAt] = key
<1> DEFINE n == Len(lines)
           none == [k \in {} |-> << >>]
           A[i \in 0..Len(lines)] ==
             IF i = 0 THEN [k \in {} |-> << >>] ELSE MapWith(A[i - 1], lines[i])
<1>1. n \in Nat /\ \A i \in 1..n : lines[i] \in Lines /\ lines[i].exact
        /\ lines[i].spaces = 1
  OBVIOUS
<1>2. FetchHttpInfo(lines) = A[n]
  BY DEF FetchHttpInfo, MapWith
<1>3. A = [i \in 0..n |-> IF i = 0 THEN none ELSE MapWith(A[i - 1], lines[i])]
  <2>1. PICK g : g = [i \in 0..n |-> IF i = 0 THEN [k \in {} |-> << >>]
                                     ELSE MapWith(g[i - 1], lines[i])]
    BY MapRounds
  <2> QED
    BY <2>1 DEF A
<1>4. PICK k \in 1..n : /\ lines[k].value = key
                        /\ \A i \in 1..n : lines[i].name = KeyName <=> i = k
  BY KeyLine
<1> HIDE DEF A
<1> DEFINE Good(s) == KeyAt \in DOMAIN s /\ s[KeyAt] = key
           T == {i \in 0..n : A[i] \in Maps /\ (k <= i => Good(A[i]))}
<1>5. 0 \in T
  <2>1. A[0] = none /\ 0 \in 0..n /\ ~(k <= 0)
    BY <1>1, <1>3
  <2>2. none \in Maps
    <3>1. none \in [{} -> Seq(Octet)] /\ {} \in SUBSET Keys
      OBVIOUS
    <3> HIDE DEF none
    <3> QED
      BY <3>1, Zenon DEF Maps
  <2> HIDE DEF none
  <2> QED
    BY <2>1, <2>2
<1> HIDE DEF none
<1>6. ASSUME NEW i \in 1..n, i - 1 \in T PROVE i \in T
  <2>1. i \in 0..n /\ i # 0 /\ lines[i] \in Lines /\ lines[i].exact /\ lines[i].spaces = 1
    BY <1>1
  <2>2. A[i - 1] \in Maps /\ (k <= i - 1 => Good(A[i - 1]))
    BY <1>6
  <2>3. A[i] = MapWith(A[i - 1], lines[i])
    <3> HIDE DEF n
    <3> QED
      BY <1>3, <2>1, Zenon
  <2>4. /\ A[i] \in Maps
        /\ lines[i].name # KeyName /\ Good(A[i - 1]) => Good(A[i])
        /\ lines[i].name = KeyName /\ lines[i].value = key => Good(A[i])
    <3> DEFINE map == A[i - 1]
               h == lines[i]
    <3>1. map \in Maps /\ h \in Lines /\ h.exact /\ h.spaces = 1 /\ A[i] = MapWith(map, h)
      BY <2>1, <2>2, <2>3
    <3> HIDE DEF map, h
    <3>2. /\ MapWith(map, h) \in Maps
          /\ h.name # KeyName /\ KeyAt \in DOMAIN map =>
               KeyAt \in DOMAIN MapWith(map, h) /\ MapWith(map, h)[KeyAt] = map[KeyAt]
          /\ h.name = KeyName => KeyAt \in DOMAIN MapWith(map, h)
               /\ MapWith(map, h)[KeyAt] = h.value
      <4>1. map \in Maps
        BY <3>1
      <4>2. h \in Lines
        BY <3>1
      <4>3. h.exact /\ h.spaces = 1
        BY <3>1
      <4> QED
        BY ONLY <4>1, <4>2, <4>3, MapKeeps
    <3> QED
      BY <3>1, <3>2, Zenon DEF map, h
  <2>5. CASE i = k
    <3> HIDE DEF Good
    <3> QED
      BY <1>4, <2>1, <2>4, <2>5
  <2>6. CASE i # k
    <3>1. k <= i => k <= i - 1
      BY <1>1, <2>6
    <3>2. lines[i].name # KeyName
      BY <1>4, <2>6
    <3> HIDE DEF Good
    <3> QED
      BY <2>1, <2>2, <2>4, <3>1, <3>2
  <2> QED
    BY <2>5, <2>6
<1>7. n \in T
  <2> HIDE DEF T, n
  <2>1. \A i \in 0..n : i \in T
    BY <1>1, <1>5, <1>6, UpTo
  <2> QED
    BY <1>1, <2>1
<1>8. k <= n
  BY <1>1
<1> QED
  BY <1>2, <1>7, <1>8

\* The digest of a message that is given at once.
LEMMA Sha1OfOne ==
  ASSUME NEW bytes \in Seq(Int)
  PROVE  Sha1Result(Sha1Input(Sha1Reset, bytes)).digest = Sha1Standard(bytes)
<1> DEFINE length == Sha1Length(Len(bytes))
           text == Padded(bytes, length)
           m == Len(bytes)
<1>1. length \in Seq(Int) /\ Len(length) = 2
  <2> DEFINE n == 8 * Len(bytes)
  <2>1. n \in Nat /\ Word \in Nat /\ Word > 0
    BY HashAssumption
  <2> HIDE DEF n
  <2>2. n \div Word \in Int /\ n % Word \in Int
    BY <2>1
  <2>3. length = <<n \div Word, n % Word>>
    BY DEF n, Sha1Length
  <2> HIDE DEF length
  <2> QED
    BY <2>2, <2>3
<1> HIDE DEF length
<1>2. text \in Seq(Int) /\ m <= Len(text) /\ \A j \in 1..m : text[j] = bytes[j]
  BY <1>1, PaddedIs
<1> HIDE DEF text
<1>3. m \in Nat /\ 0 + m = m /\ \A j \in 1..m : 0 + j = j
  OBVIOUS
<1>4. Sha1At(Sha1Reset, 0, text)
  BY <1>2, Sha1Starts
<1>5. Sha1At(Sha1Input(Sha1Reset, bytes), 0 + m, text)
  <2>1. 0 + Len(bytes) <= Len(text) /\ \A j \in 1..Len(bytes) : bytes[j] = text[0 + j]
    BY <1>2, <1>3
  <2> QED
    BY <1>2, <1>4, <2>1, Sha1Piece
<1>6. text = Padded(bytes, Sha1Length(Len(bytes)))
  BY DEF text, length
<1>7. Sha1At(Sha1Input(Sha1Reset, bytes), Len(bytes), text)
  BY <1>3, <1>5
<1> QED
  BY <1>6, <1>7, Sha1ResultIs

\* Both answers belong to the key.
LEMMA AnswerBelongs ==
  ASSUME NEW key \in Seq(Octet), NEW lines \in Seq(Lines), KeyIn(lines, key)
  PROVE  AnswersTheKey(lines, key)
<1> DEFINE both == key \o Guid
           hash == SHA1(both)
           accept == GenerateWebsocketResponse(ParseWebsocketRequest(lines)).accept
<1>1. both \in Seq(Octet)
  <2>1. Guid \in Seq(Octet)
    BY DEF Guid, Octet
  <2> QED
    BY <2>1, ConcatProperties
<1> HIDE DEF both
<1>2. hash \in Seq(Octet)
  <2>1. \A i \in 1..20 : (IF i <= Len(both) THEN both[i] ELSE 0) \in Octet
    <3>1. 0 \in Octet /\ Len(both) \in Nat
      BY <1>1 DEF Octet
    <3>2. \A i \in 1..Len(both) : both[i] \in Octet
      BY <1>1
    <3>3. \A i \in 1..20 : i <= Len(both) => i \in 1..Len(both)
      BY <3>1
    <3> QED
      BY <3>1, <3>2, <3>3, Zenon
  <2> QED
    BY <2>1 DEF SHA1
<1>3. accept = Base64Encode(hash)
  <2>1. ParseWebsocketRequest(lines)[KeyName] = key
    BY KeyIsRead
  <2>2. GenerateWebsocketResponse(ParseWebsocketRequest(lines)) =
          [accept |-> Base64Encode(hash)]
    BY <2>1 DEF GenerateWebsocketResponse, GenerateKey, KeyName, both
  <2> HIDE DEF hash
  <2> QED
    BY <2>2
<1> HIDE DEF hash, accept
<1>4. Len(accept) % 4 = 0 /\ Base64Decode(accept) = hash
  BY <1>2, <1>3, TextComesBack DEF DecodesWhatWasEncoded
<1>5. ASSUME \A i \in DOMAIN lines : lines[i].exact /\ lines[i].spaces = 1
      PROVE  ParseStr(FetchHttpInfo(lines)) = Sha1Standard(both)
  <2>1. KeyAt \in DOMAIN FetchHttpInfo(lines) /\ FetchHttpInfo(lines)[KeyAt] = key
    BY <1>5, KeyIsKept
  <2>2. ParseStr(FetchHttpInfo(lines)) = Sha1Result(Sha1Input(Sha1Reset, both)).digest
    BY <2>1 DEF ParseStr, KeyName, KeyAt, both
  <2>3. both \in Seq(Int)
    <3>1. Octet \subseteq Int
      BY DEF Octet
    <3> QED
      BY <1>1, <3>1, SeqMonotonic
  <2> QED
    BY <2>2, <2>3, Sha1OfOne
<1> QED
  BY <1>4, <1>5 DEF AnswersTheKey, both, hash, accept

-----------------------------------------------------------------------------
(* Components: the theorems.                                               *)

\* The packets of every source but for a full VP8 frame.
LEMMA PacketsCarry ==
  ASSUME NEW source \in Sources, NEW n \in Nat \ {0},
         ~(source = "VP8" /\ n % MaxPayload = 0)
  PROVE  Carries(PacketsOf(source, n), n) /\ Sized(PacketsOf(source, n))
<1>0. n \in Nat /\ n > 0 /\ MaxPayload \in Nat /\ MaxPayload > 4
  BY PayloadAssumption
<1>1. n <= MaxPayload => Carries(Single(n), n) /\ Sized(Single(n))
  <2> SUFFICES ASSUME n <= MaxPayload PROVE Carries(Single(n), n) /\ Sized(Single(n))
    OBVIOUS
  <2>1. 0 \in Nat /\ 0 + n <= MaxPayload + 1
    BY <1>0
  <2> QED
    BY <1>0, <2>1, SingleFrame DEF Single, Carries
<1>2. n > MaxPayload => Delivers(Fragment(n, 1, 2), n) /\ Sized(Fragment(n, 1, 2))
  <2> DEFINE nal == 1
  <2>1. nal \in 1..2 /\ nal + 1 = 2
    OBVIOUS
  <2> HIDE DEF nal
  <2>2. n > MaxPayload => Delivers(Fragment(n, nal, nal + 1), n)
          /\ Sized(Fragment(n, nal, nal + 1))
    BY <1>0, <2>1, FragmentsCarry
  <2> QED
    BY <2>1, <2>2 DEF nal
<1>3. n > MaxPayload => Delivers(Fragment(n, 2, 3), n) /\ Sized(Fragment(n, 2, 3))
  <2> DEFINE nal == 2
  <2>1. nal \in 1..2 /\ nal + 1 = 3
    OBVIOUS
  <2> HIDE DEF nal
  <2>2. n > MaxPayload => Delivers(Fragment(n, nal, nal + 1), n)
          /\ Sized(Fragment(n, nal, nal + 1))
    BY <1>0, <2>1, FragmentsCarry
  <2> QED
    BY <2>1, <2>2 DEF nal
<1>4. Carries(<< >>, n) /\ Sized(<< >>)
  BY DEF Carries, Sized
<1>5. CASE source = "H264"
  <2>1. PacketsOf(source, n) = H264Packets(n)
    BY <1>5 DEF PacketsOf
  <2> QED
    BY <1>0, <1>1, <1>2, <2>1 DEF H264Packets, Carries
<1>6. CASE source = "H265"
  <2>1. PacketsOf(source, n) = H265Packets(n)
    BY <1>6 DEF PacketsOf
  <2> QED
    BY <1>0, <1>1, <1>3, <2>1 DEF H265Packets, Carries
<1>7. CASE source = "VP8"
  <2>1. PacketsOf(source, n) = VP8Packets(n)
    BY <1>7 DEF PacketsOf
  <2>2. Delivers(VP8Packets(n), n) /\ Sized(VP8Packets(n))
    BY <1>0, <1>7, VP8Carries
  <2> QED
    BY <2>1, <2>2 DEF Carries
<1>8. CASE source = "AAC"
  <2>1. PacketsOf(source, n) = AACPackets(n, 0)
    BY <1>8 DEF PacketsOf
  <2>2. CASE n > MaxPayload - 4
    BY <1>4, <2>1, <2>2 DEF AACPackets
  <2>3. CASE ~(n > MaxPayload - 4)
    <3>1. 4 \in Nat /\ 4 + n <= MaxPayload + 1 /\ 0 + 1 = 1
      BY <1>0, <2>3
    <3>2. AACPackets(n, 0) = <<Packet(4, << >>, Bytes(1, n), TRUE, TRUE, TRUE)>>
      BY <2>3, <3>1 DEF AACPackets
    <3> QED
      BY <1>0, <2>1, <3>1, <3>2, SingleFrame DEF Carries
  <2> QED
    BY <2>2, <2>3
<1>9. CASE source = "G711A"
  <2>1. PacketsOf(source, n) = G711APackets(n)
    BY <1>9 DEF PacketsOf
  <2> QED
    BY <1>0, <1>1, <1>4, <2>1 DEF G711APackets
<1> QED
  BY <1>5, <1>6, <1>7, <1>8, <1>9 DEF Sources

\* What an algorithm is given.
InputOK == input \in {[kind |-> "none"]} \union Inputs

\* The input of an algorithm is one of those it may be given, and is kept.
LEMMA InputIsGiven == ComponentsSpec => []InputOK
<1>1. ComponentsInit => InputOK
  BY DEF ComponentsInit, InputOK
<1>2. InputOK /\ [ComponentsNext]_<<vars, input>> => InputOK'
  BY DEF ComponentsNext, InputOK
<1> QED
  BY <1>1, <1>2, PTL DEF ComponentsSpec

\* An input is of the kind that it names.
LEMMA KindsOfInputs ==
  ASSUME InputOK
  PROVE  /\ input.kind = "packets" => input \in PacketInputs
         /\ input.kind = "hash" => input \in HashInputs
         /\ input.kind = "frame" => input \in FrameInputs
         /\ input.kind = "text" => input \in TextInputs
         /\ input.kind = "handshake" => input \in HandshakeInputs
         /\ input.kind = "detection" => input \in DetectionInputs
<1>1. \/ input = [kind |-> "none"]
      \/ input \in PacketInputs \/ input \in HashInputs \/ input \in FrameInputs
      \/ input \in TextInputs \/ input \in HandshakeInputs \/ input \in DetectionInputs
  BY InputsAssumption DEF InputOK
<1>2. /\ [kind |-> "none"].kind = "none"
      /\ \A i \in PacketInputs : i.kind = "packets"
      /\ \A i \in HashInputs : i.kind = "hash"
      /\ \A i \in FrameInputs : i.kind = "frame"
      /\ \A i \in TextInputs : i.kind = "text"
      /\ \A i \in HandshakeInputs : i.kind = "handshake"
      /\ \A i \in DetectionInputs : i.kind = "detection"
  BY DEF PacketInputs, HashInputs, FrameInputs, TextInputs, HandshakeInputs, DetectionInputs
<1> QED
  BY <1>1, <1>2

\* What is proved of the face database by itself holds of it among the others: a
\* step of Components is one of its steps or changes nothing of it.
THEOREM FacesAmongOthers ==
  ComponentsSpec => Spec /\ []FacesAreNamed /\ AnnouncementsAreRare
<1>1. ComponentsInit => Init
  BY DEF ComponentsInit
<1>2. [ComponentsNext]_<<vars, input>> => [Next]_vars
  BY DEF ComponentsNext
<1>3. ComponentsSpec => Spec
  BY <1>1, <1>2, PTL DEF ComponentsSpec, Spec
<1> QED
  BY <1>3, FacesAreNamedHolds, AnnouncementsAreRareHolds, PTL

\* A receiver gets the two frames whatever their sizes: cut by any of the five
\* sources, each comes out once and whole and the second is not mixed with the
\* first, and no packet is empty or longer than it may be (HandleFrame of the
\* sources).  A VP8 frame whose last packet is full is the exception.
THEOREM FramesAreReassembled == ComponentsSpec => []FramesReassemble
<1>1. InputOK => FramesReassemble
  <2> SUFFICES ASSUME InputOK, input.kind = "packets" PROVE FramesReassemble
    BY DEF FramesReassemble
  <2> DEFINE n == input.first
             m == input.second
             one == PacketsOf(input.source, n)
             two == PacketsOf(input.source, m)
             full(k) == input.source = "VP8" /\ k % MaxPayload = 0
  <2> SUFFICES ASSUME ~full(n), ~full(m)
               PROVE  /\ Reassembled(one, two) =
                           [done |-> FrameOf(one, n) \o FrameOf(two, m), part |-> << >>]
                      /\ \A i \in DOMAIN one :
                           /\ Len(one[i].payload) > 0
                           /\ one[i].header + Len(one[i].payload) <= MaxPayload + 1
                           /\ one[i].start <=> i = 1
    BY Zenon DEF FramesReassemble, FrameOf
  <2>1. input.source \in Sources /\ n \in Nat \ {0} /\ m \in Nat \ {0}
    BY KindsOfInputs DEF PacketInputs
  <2>2. Carries(one, n) /\ Sized(one)
    BY <2>1, PacketsCarry
  <2>3. Carries(two, m)
    BY <2>1, PacketsCarry
  <2> HIDE DEF one, two, n, m
  <2>4. Reassembled(one, two) =
          [done |-> FrameOf(one, n) \o FrameOf(two, m), part |-> << >>]
    BY <2>1, <2>2, <2>3, TwoFramesArrive
  <2>5. DOMAIN one = 1..Len(one)
    <3>1. << >> \in Seq(Packets)
      OBVIOUS
    <3>2. one \in Seq(Packets)
      BY <2>2, <3>1 DEF Carries, Delivers
    <3> QED
      BY <3>2
  <2> QED
    BY <2>2, <2>4, <2>5 DEF Sized
<1> QED
  BY <1>1, InputIsGiven, PTL

\* Whatever the size of a payload, up to the largest int, the bytes of it and of
\* the mask, the frame the server writes is the one of the standard, the server's
\* two readers get from a browser's frame what was put into it, and what follows
\* the frame is left (frame_buffer_new, frame_read_cb, fetch_websocket_info).
THEOREM EveryFrameIsUnderstood == ComponentsSpec => []FramesAreUnderstood
<1>1. InputOK => FramesAreUnderstood
  <2> SUFFICES ASSUME InputOK, input.kind = "frame" PROVE FramesAreUnderstood
    BY DEF FramesAreUnderstood
  <2> DEFINE fin == input.fin
             opcode == input.opcode
             payload == input.payload
             key == input.key
             next == input.next
  <2>1. input \in FrameInputs
    BY KindsOfInputs
  <2>2. /\ fin \in {0, 1} /\ opcode \in 0..15 /\ key \in [1..4 -> Octet]
             /\ next \in Seq(Octet)
        /\ payload \in {p \in Seq(Octet) : Len(p) <= MaxInt}
    BY <2>1, Zenon DEF FrameInputs
  <2> HIDE DEF fin, opcode, payload, key, next
  <2>3. payload \in Seq(Octet)
    BY <2>2, Zenon
  <2>4. Len(payload) \in Long
    <3>1. Len(payload) \in Nat
      BY <2>3
    <3>2. Len(payload) <= MaxInt
      BY <2>2, Zenon
    <3> QED
      BY <3>1, <3>2, SMT DEF Long, MaxInt
  <2>5. fin \in 0..1 /\ opcode \in 0..15 /\ key \in [1..4 -> Octet] /\ next \in Seq(Octet)
    BY <2>2
  <2>6. WritesTheStandard(fin, opcode, payload)
    BY ONLY <2>3, <2>4, ServerWritesTheStandard
  <2>7. ReadsWhatWasSent(fin, opcode, payload, key, next)
    BY ONLY <2>3, <2>4, <2>5, ServerReadsWhatWasSent
  <2>8. Len(payload) <= 2040 =>
          FetchWebsocketInfo(BrowserFrame(fin, opcode, payload, key)) =
            [fin |-> fin, opcode |-> opcode, payload |-> payload]
    BY ONLY <2>3, <2>5, OtherReaderReads, SMTT(20)
  <2> QED
    BY <2>6, <2>7, <2>8, Zenon DEF FramesAreUnderstood, fin, opcode, payload, key, next
<1>2. [](InputOK => FramesAreUnderstood)
  BY <1>1, PTL
<1> QED
  BY <1>2, InputIsGiven, PTL

\* However many adapters are set up, in whatever order, there is a colour for
\* every class, and an output of any scale is where the network saw the object
\* (setClassesNumber, setClassColor, drawResult).
THEOREM EveryDetectionIsDrawable == ComponentsSpec => []DetectionsAreDrawable
<1>1. InputOK => DetectionsAreDrawable
  <2> SUFFICES ASSUME InputOK, input.kind = "detection" PROVE Drawable(input)
    BY DEF DetectionsAreDrawable
  <2>1. input \in DetectionInputs
    BY KindsOfInputs
  <2> DEFINE d == input
  <2>2. /\ d.class \in Nat \ {0} /\ d.left \in Int /\ d.right \in Int
        /\ d.top \in Int /\ d.bottom \in Int
        /\ OnFrame(d.left, d.right) /\ OnFrame(d.top, d.bottom)
    BY <2>1 DEF DetectionInputs
  <2> HIDE DEF d
  <2>3. Drawable(d)
    BY <2>2, DetectionIsDrawable
  <2> QED
    BY <2>3 DEF d
<1>2. [](InputOK => DetectionsAreDrawable)
  BY <1>1, PTL
<1> QED
  BY <1>2, InputIsGiven, PTL

\* Whatever lines stand around the browser's key and however they are spelled,
\* the answer of the application's server carries the digest of the key, that of
\* the library's second server when all lines are spelled as the standard does,
\* and Base64 turns bytes of any number back into what they were
\* (parse_websocket_request, generate_key, fetch_http_info, base64_encode,
\* base64_decode).
THEOREM EveryRequestIsAnswered == ComponentsSpec => []HandshakeIsAnswered
<1>1. InputOK => HandshakeIsAnswered
  <2> SUFFICES ASSUME InputOK PROVE HandshakeIsAnswered
    OBVIOUS
  <2>1. ASSUME input.kind = "handshake" PROVE AnswersTheKey(input.lines, input.key)
    <3>1. input \in HandshakeInputs
      BY <2>1, KindsOfInputs
    <3> DEFINE lines == input.lines
               key == input.key
    <3>2. lines \in Seq(Lines) /\ key \in Seq(Octet) /\ KeyIn(lines, key)
      BY <3>1, Zenon DEF HandshakeInputs
    <3> HIDE DEF lines, key
    <3>3. AnswersTheKey(lines, key)
      BY <3>2, AnswerBelongs
    <3> QED
      BY <3>3 DEF lines, key
  <2>2. ASSUME input.kind = "text" PROVE DecodesWhatWasEncoded(input.bytes)
    <3>1. input \in TextInputs
      BY <2>2, KindsOfInputs
    <3> DEFINE bytes == input.bytes
    <3>2. bytes \in Seq(Octet)
      BY <3>1, Zenon DEF TextInputs
    <3> HIDE DEF bytes
    <3>3. DecodesWhatWasEncoded(bytes)
      BY <3>2, TextComesBack
    <3> QED
      BY <3>3 DEF bytes
  <2> QED
    BY <2>1, <2>2 DEF HandshakeIsAnswered
<1>2. [](InputOK => HandshakeIsAnswered)
  BY <1>1, PTL
<1> QED
  BY <1>2, InputIsGiven, PTL

\* The blocks that are hashed are those of the standards, for every message, every
\* way of handing it over in pieces and every size of a block and of a word;
\* SHA-1 refuses a message whose length no longer fits its counter and takes no
\* byte behind a digest (SHA1Input, SHA1PadMessage, md5_append, md5_finish).
THEOREM EveryMessageIsHashed == ComponentsSpec => []MessagesAreHashed
<1>1. InputOK => MessagesAreHashed
  <2> SUFFICES ASSUME InputOK, input.kind = "hash" PROVE MessagesAreHashed
    BY DEF MessagesAreHashed
  <2> DEFINE pieces == input.pieces
             whole == FlattenSeq(pieces)
             r == Sha1Of(pieces)
  <2>1. input \in HashInputs
    BY KindsOfInputs
  <2>2. pieces \in Seq(Seq(Octet))
    BY <2>1, Zenon DEF HashInputs
  <2> HIDE DEF pieces
  <2>3. pieces \in Seq(Seq(Int))
    <3>1. ASSUME NEW p \in Seq(Octet) PROVE p \in Seq(Int)
      <4>1. Octet \subseteq Int
        BY DEF Octet
      <4> QED
        BY <4>1, SeqMonotonic
    <3>2. Seq(Octet) \subseteq Seq(Int)
      BY <3>1, Zenon
    <3> QED
      BY <2>2, <3>2, SeqMonotonic, Zenon
  <2>4. /\ r.digest = Sha1Standard(whole)
        /\ Sha1Result(r.c).digest = r.digest
        /\ Sha1Result(Sha1Input(r.c, <<1>>)).digest = << >>
    <3>1. whole = FlattenSeq(pieces) /\ r = Sha1Of(pieces)
      OBVIOUS
    <3> HIDE DEF whole, r
    <3> QED
      BY <2>3, <3>1, Sha1Hashes
  <2>5. Md5Of(pieces) = Md5Standard(whole)
    BY <2>3, Md5Hashes
  <2>6. HashesTheMessage(pieces)
    BY <2>4, <2>5, Zenon DEF HashesTheMessage
  <2> QED
    BY <2>6 DEF MessagesAreHashed, pieces
<1>2. [](InputOK => MessagesAreHashed)
  BY <1>1, PTL
<1> QED
  BY <1>2, InputIsGiven, PTL
=============================================================================
