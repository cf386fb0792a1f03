----------------------------- MODULE RulesProofs -----------------------------
(***************************************************************************)
(* The rules hold for every input: layouts, mappings and paths of any      *)
(* size, any audio tracks in the spellings of the tables, cropped pictures *)
(* of every class, any series of lookups and any situation of a scan.      *)
(***************************************************************************)
EXTENDS Rules, SequenceTheorems, WellFoundedInduction, TLAPS

LEMMA InputsAreOfTheirSubject ==
  ASSUME Init
  PROVE  /\ input.about = "layout" => input.is \in Layouts
         /\ input.about = "mappings" => input.is \in MappingLists
         /\ input.about = "audio" => input.is \in AudioLists
         /\ input.about = "picture" => input.is \in Pictures
         /\ input.about = "lookups" => input.is \in LookupLists
         /\ input.about = "situation" => input.is \in Situations
<1>1. \A s, i : input \in Of(s, i) => input.about = s /\ input.is \in i
  BY DEF Of
<1> QED BY <1>1 DEF Init

-----------------------------------------------------------------------------
(* Layouts. *)

\* Two directories that are above one path overlap.
LEMMA SharedPathOverlap ==
  ASSUME NEW path \in Seq(Name), NEW a \in Seq(Name), NEW b \in Seq(Name),
         Under(path, a), Under(path, b)
  PROVE  Overlaps(a, b)
<1>1. \A d \in {a, b} : /\ Len(d) <= Len(path)
                        /\ \A i \in 1 .. Len(d) : d[i] = path[i]
  <2> SUFFICES ASSUME NEW d \in {a, b}, NEW i \in 1 .. Len(d)
               PROVE  Len(d) <= Len(path) /\ d[i] = path[i]
    BY DEF Under, IsPrefix
  <2>1. Len(d) <= Len(path) /\ SubSeq(d, 1, Len(d)) = SubSeq(path, 1, Len(d))
    BY DEF Under, IsPrefix
  <2>2. SubSeq(d, 1, Len(d))[i] = d[i] /\ SubSeq(path, 1, Len(d))[i] = path[i]
    BY <2>1
  <2> QED BY <2>1, <2>2
<1>2. ASSUME NEW d \in {a, b}, NEW e \in {a, b}, Len(d) <= Len(e) PROVE Under(e, d)
  <2>1. \A i \in 1 .. Len(d) : d[i] = e[i]
    BY <1>1, <1>2
  <2>2. SubSeq(d, 1, Len(d)) = SubSeq(e, 1, Len(d))
    BY <1>2, <2>1
  <2> QED BY <1>2, <2>2 DEF Under, IsPrefix
<1>3. Len(a) <= Len(b) \/ Len(b) <= Len(a)
  OBVIOUS
<1> QED BY <1>2, <1>3 DEF Overlaps

\* The trees of directories that are apart.
LEMMA AcceptedTreesAreSeparate == ASSUME NEW layout \in Layouts PROVE TreesAreSeparate(layout, Paths)
<1> SUFFICES ASSUME Accepted(layout) PROVE
      /\ \A s \in Symlinks(layout), l \in Libraries(layout) :
            Tree(Output(layout, s), Paths) \intersect Tree(l.input, Paths) = {}
      /\ \A s, t \in Symlinks(layout) :
            s # t => Tree(Output(layout, s), Paths) \intersect Tree(Output(layout, t), Paths) = {}
  BY DEF TreesAreSeparate
<1>1. \A a, b \in Seq(Name) : ~Overlaps(a, b) => Tree(a, Paths) \intersect Tree(b, Paths) = {}
  BY SharedPathOverlap, NamesMakePaths DEF Tree
<1>2. /\ \A l \in Libraries(layout) : l.input \in Seq(Name)
      /\ \A s \in Symlinks(layout) : Output(layout, s) \in Seq(Name)
  BY LayoutsAreOfPaths DEF Accepted
<1>3. ASSUME NEW s \in Symlinks(layout), NEW l \in Libraries(layout)
      PROVE  ~Overlaps(Output(layout, s), l.input)
  BY DEF Accepted, InputsAreApart
<1>4. ASSUME NEW s \in Symlinks(layout), NEW t \in Symlinks(layout), s # t
      PROVE  ~Overlaps(Output(layout, s), Output(layout, t))
  BY <1>4 DEF Accepted, OutputsAreApart
<1> QED BY <1>1, <1>2, <1>3, <1>4

\* No cleanup deletes what another scan made and no scan finds the links of
\* another, for every layout that is accepted (_validate_no_path_overlap).
THEOREM AcceptedOutputsAreSafe == Spec => []OutputsAreSafe
<1>1. Init => OutputsAreSafe
  BY InputsAreOfTheirSubject, AcceptedTreesAreSeparate DEF OutputsAreSafe
<1>2. OutputsAreSafe /\ [Next]_input => OutputsAreSafe'
  BY DEF OutputsAreSafe, Next
<1> QED BY <1>1, <1>2, PTL DEF Spec

-----------------------------------------------------------------------------
(* Situations. *)

\* The reason of preflight has its check.
LEMMA ReasonsAreChecked == ASSUME NEW s \in Situations PROVE SkippedScansAreExplained(s)
<1> DEFINE checks == RunChecks(s)
<1>1. /\ s.skipReadonly \in BOOLEAN /\ s.missing \in BOOLEAN
      /\ \A l \in s.libraries : /\ l.isDir \in BOOLEAN /\ l.readable \in BOOLEAN
                                /\ l.writable \in BOOLEAN /\ l.outputsWritable \in BOOLEAN
  BY SituationsHaveScans
<1>2. /\ LibraryChecks(s) \subseteq checks /\ ConfigChecks(s) \subseteq checks
  BY DEF RunChecks
<1>3. CASE s.libraries = {}
  <2>1. Preflight(s) = "libraries"
    BY <1>3 DEF Preflight
  <2>2. Check("libraries", "warning") \in checks
    BY <1>2, <1>3 DEF LibraryChecks, If
  <2> QED BY <2>1, <2>2 DEF SkippedScansAreExplained, Check
<1>4. CASE s.libraries # {} /\ ~s.skipReadonly /\ WritableInputs(s) # {}
  <2>1. Preflight(s) = "readonly"
    BY <1>4 DEF Preflight
  <2>2. PICK l \in s.libraries : l.isDir /\ l.writable
    BY <1>4 DEF WritableInputs
  <2>3. Check("readonly", "error") \in LibraryChecks(s)
    BY <1>1, <1>4, <2>2 DEF LibraryChecks, If
  <2> QED BY <1>2, <2>1, <2>3 DEF SkippedScansAreExplained, Check
<1>5. CASE s.libraries # {} /\ ~(~s.skipReadonly /\ WritableInputs(s) # {}) /\ s.missing
  <2>1. Preflight(s) = "ffprobe"
    BY <1>5 DEF Preflight
  <2>2. Check("ffprobe", "error") \in ConfigChecks(s)
    BY <1>5 DEF ConfigChecks, If
  <2> QED BY <1>2, <2>1, <2>2 DEF SkippedScansAreExplained, Check
<1>6. CASE s.libraries # {} /\ ~(~s.skipReadonly /\ WritableInputs(s) # {}) /\ ~s.missing
  <2>1. Preflight(s) = "none"
    BY <1>6 DEF Preflight
  <2>2. \A c \in LibraryChecks(s) : c.about = "readonly" => c.level # "error"
    <3> SUFFICES ASSUME NEW c \in LibraryChecks(s), c.about = "readonly", c.level = "error"
                 PROVE  FALSE
      OBVIOUS
    <3>1. PICK l \in s.libraries : /\ l.isDir /\ l.writable /\ ~s.skipReadonly
      BY <1>6 DEF LibraryChecks, If, Check
    <3> QED BY <1>6, <3>1 DEF WritableInputs
  <2>3. \A c \in LibraryChecks(s) : c.about # "ffprobe"
    BY DEF LibraryChecks, If, Check
  <2>4. \A c \in ConfigChecks(s) : c.about \notin {"readonly", "ffprobe"}
    BY <1>6 DEF ConfigChecks, If, Check
  <2>5. \A c \in AuthChecks(s) \union If(s.restart, Check("restart", "warning")) \union ScanCheck(s.scan) :
           c.about \notin {"readonly", "ffprobe"}
    BY DEF AuthChecks, ScanCheck, If, Check
  <2> QED BY <2>1, <2>2, <2>3, <2>4, <2>5 DEF SkippedScansAreExplained, RunChecks
<1> QED BY <1>3, <1>4, <1>5, <1>6

\* The message and the check of the last scan look at the same counters.
LEMMA MessagesAgree ==
  ASSUME NEW scan \in [failed: BOOLEAN, blocked: Nat, errors: Nat, changed: Nat]
  PROVE  NotifiedAsChecked(scan)
<1> DEFINE message == Message(scan, [blocked |-> TRUE, errors |-> TRUE, changes |-> TRUE])
<1>1. ScanCheck(scan) # {} <=> scan.failed \/ scan.blocked > 0 \/ scan.errors > 0
  BY DEF ScanCheck, Check
<1>2. CASE scan.failed
  <2>1. message.lines = {"failed"} /\ message.failure
    BY <1>2 DEF Message, If
  <2> QED BY <1>1, <1>2, <2>1 DEF NotifiedAsChecked
<1>3. CASE ~scan.failed
  <2>1. /\ "blocked" \in message.lines <=> scan.blocked > 0
        /\ "errors" \in message.lines <=> scan.errors > 0
        /\ "changes" \in message.lines <=> scan.changed > 0
        /\ message.lines \subseteq {"blocked", "errors", "changes"}
        /\ message.failure <=> message.lines \intersect {"blocked", "errors"} # {}
    BY <1>3 DEF Message, If
  <2> QED BY <1>1, <1>3, <2>1 DEF NotifiedAsChecked
<1> QED BY <1>2, <1>3

\* A scan that does not run is explained on the health page, whatever the
\* surroundings, and notifications agree with that page (health.py, hooks.py).
THEOREM UsersAreAlwaysTold == Spec => []UsersAreTold
<1>1. Init => UsersAreTold
  <2>1. \A s \in Situations : s.scan \in [failed: BOOLEAN, blocked: Nat, errors: Nat, changed: Nat]
    BY SituationsHaveScans
  <2> QED BY <2>1, InputsAreOfTheirSubject, ReasonsAreChecked, MessagesAgree DEF UsersAreTold
<1>2. UsersAreTold /\ [Next]_input => UsersAreTold'
  BY DEF UsersAreTold, Next
<1> QED BY <1>1, <1>2, PTL DEF Spec

-----------------------------------------------------------------------------
(* Mappings. *)

Dir == Seq(Name)
Mapping == [local: Dir, remote: Dir]

LEMMA UnderMeans ==
  ASSUME NEW p \in Dir, NEW a \in Dir
  PROVE  Under(p, a) <=> Len(a) <= Len(p) /\ \A i \in 1 .. Len(a) : p[i] = a[i]
<1> USE DEF Dir
<1>1. CASE Len(a) <= Len(p)
  <2>1. /\ SubSeq(a, 1, Len(a)) \in Seq(Name) /\ Len(SubSeq(a, 1, Len(a))) = Len(a)
        /\ SubSeq(p, 1, Len(a)) \in Seq(Name) /\ Len(SubSeq(p, 1, Len(a))) = Len(a)
        /\ \A i \in 1 .. Len(a) : SubSeq(a, 1, Len(a))[i] = a[i] /\ SubSeq(p, 1, Len(a))[i] = p[i]
    BY <1>1
  <2>2. SubSeq(a, 1, Len(a)) = SubSeq(p, 1, Len(a)) <=> \A i \in 1 .. Len(a) : a[i] = p[i]
    BY <2>1, SeqEqual
  <2> QED BY <1>1, <2>2 DEF Under, IsPrefix
<1> QED BY <1>1 DEF Under, IsPrefix

LEMMA UnderIsConcat ==
  ASSUME NEW p \in Dir, NEW a \in Dir, Under(p, a)
  PROVE  /\ Rest(p, a) \in Dir /\ p = a \o Rest(p, a)
         /\ a = SubSeq(p, 1, Len(a)) /\ Len(a) \in 0 .. Len(p)
<1>1. Len(a) \in 0 .. Len(p) /\ a = SubSeq(p, 1, Len(a)) /\ Len(p) \in Nat
  <2>1. SubSeq(a, 1, Len(a)) = a
    BY SubSeqFull DEF Dir
  <2> QED BY <2>1 DEF Under, IsPrefix, Dir
<1>2. Rest(p, a) \in Dir
  BY <1>1 DEF Rest, Dir
<1>3. SubSeq(p, 1, Len(a)) \o SubSeq(p, Len(a) + 1, Len(p)) = SubSeq(p, 1, Len(p))
  <2>1. 1 \in 1 .. Len(p) + 1 /\ Len(a) \in 1 - 1 .. Len(p) /\ Len(p) \in Len(a) .. Len(p)
    BY <1>1
  <2> QED BY <2>1, ConcatAdjacentSubSeq DEF Dir
<1>4. SubSeq(p, 1, Len(p)) = p
  BY SubSeqFull DEF Dir
<1> QED BY <1>1, <1>2, <1>3, <1>4 DEF Rest

LEMMA ConcatIsUnder ==
  ASSUME NEW a \in Dir, NEW r \in Dir
  PROVE  a \o r \in Dir /\ Under(a \o r, a) /\ Rest(a \o r, a) = r
<1> DEFINE p == a \o r
<1>1. /\ p \in Dir /\ Len(p) = Len(a) + Len(r) /\ Len(a) \in Nat /\ Len(r) \in Nat
      /\ \A i \in 1 .. Len(a) : p[i] = a[i]
      /\ \A i \in 1 .. Len(r) : p[Len(a) + i] = r[i]
  BY DEF Dir
<1> HIDE DEF p
<1>2. Under(p, a)
  BY <1>1, UnderMeans
<1>3. Rest(p, a) \in Dir /\ Len(Rest(p, a)) = Len(r) /\ \A i \in 1 .. Len(r) : Rest(p, a)[i] = p[Len(a) + i]
  BY <1>1 DEF Rest, Dir
<1>4. Rest(p, a) = r
  BY <1>1, <1>3, SeqEqual DEF Dir
<1> QED BY <1>1, <1>2, <1>4 DEF p

\* Of two directories above a path the shorter one is above the other.
LEMMA ShorterIsAbove ==
  ASSUME NEW p \in Dir, NEW a \in Dir, NEW b \in Dir, Under(p, a), Under(p, b), Len(a) <= Len(b)
  PROVE  Under(b, a)
<1>1. /\ \A i \in 1 .. Len(a) : p[i] = a[i]
      /\ \A i \in 1 .. Len(b) : p[i] = b[i]
  BY UnderMeans
<1>2. \A i \in 1 .. Len(a) : i \in 1 .. Len(b)
  BY DEF Dir
<1> QED BY <1>1, <1>2, UnderMeans

LEMMA UnderIsTransitive ==
  ASSUME NEW p \in Dir, NEW a \in Dir, NEW b \in Dir, Under(p, a), Under(a, b)
  PROVE  Under(p, b)
<1>1. /\ Len(a) <= Len(p) /\ \A i \in 1 .. Len(a) : p[i] = a[i]
      /\ Len(b) <= Len(a) /\ \A i \in 1 .. Len(b) : a[i] = b[i]
  BY UnderMeans
<1>2. Len(a) \in Nat /\ Len(b) \in Nat /\ Len(p) \in Nat
  BY DEF Dir
<1>3. Len(b) <= Len(p) /\ \A i \in 1 .. Len(b) : i \in 1 .. Len(a)
  BY <1>1, <1>2
<1> QED BY <1>1, <1>3, UnderMeans

LEMMA LeastNumber ==
  ASSUME NEW T \in SUBSET Nat, T # {}
  PROVE  \E m \in T : \A k \in T : m <= k
<1> DEFINE R == OpToRel(<, Nat)
<1>1. IsWellFoundedOn(R, Nat)
  BY NatLessThanWellFounded
<1>2. \A i, j \in Nat : i < j => <<i, j>> \in R
  BY DEF OpToRel
<1> HIDE DEF R
<1>3. PICK x \in T : \A y \in T : ~(<<y, x>> \in R)
  BY <1>1, WFMin
<1>4. ASSUME NEW k \in T PROVE x <= k
  <2>1. x \in Nat /\ k \in Nat
    OBVIOUS
  <2>2. ~(k < x)
    BY <1>2, <1>3, <2>1
  <2> QED BY <2>1, <2>2
<1> QED BY <1>4

LEMMA GreatestNumber ==
  ASSUME NEW n \in Nat, NEW T \in SUBSET (0 .. n), T # {}
  PROVE  \E m \in T : \A k \in T : k <= m
<1> DEFINE U == {n - k : k \in T}
<1>1. \A k \in T : k \in Nat /\ n - k \in Nat
  <2>1. \A k \in 0 .. n : k \in Nat /\ n - k \in Nat
    OBVIOUS
  <2> QED BY <2>1
<1>2. U \in SUBSET Nat /\ U # {}
  BY <1>1
<1>3. PICK x \in U : \A y \in U : x <= y
  BY <1>2, LeastNumber
<1>4. PICK m \in T : x = n - m
  BY <1>3
<1>5. ASSUME NEW k \in T PROVE k <= m
  <2>1. n - m <= n - k
    BY <1>3, <1>4
  <2> QED BY <1>1, <2>1
<1> QED BY <1>5

LEMMA LongestIs ==
  ASSUME NEW n \in Nat, NEW S \in SUBSET Nat, S # {}, NEW length \in [S -> 0 .. n]
  PROVE  /\ Longest(length) \in S
         /\ \A j \in S : length[j] <= length[Longest(length)]
         /\ \A j \in S : length[j] = length[Longest(length)] => Longest(length) <= j
<1> DEFINE L == {length[i] : i \in S}
<1>1. L \in SUBSET (0 .. n) /\ L # {}
  OBVIOUS
<1>2. PICK m \in L : \A k \in L : k <= m
  BY <1>1, GreatestNumber
<1> DEFINE T == {i \in S : length[i] = m}
<1>3. T \in SUBSET Nat /\ T # {}
  BY <1>2
<1>4. PICK i \in T : \A j \in T : i <= j
  BY <1>3, LeastNumber
<1>5. \A j \in S : length[j] \in Nat /\ length[j] <= m /\ m \in Nat
  BY <1>1, <1>2
<1> DEFINE Best(x) == \A j \in S : length[j] < length[x] \/ (length[j] = length[x] /\ x <= j)
<1>6. \E x \in S : Best(x)
  <2>1. i \in S /\ length[i] = m
    BY <1>4
  <2>2. ASSUME NEW j \in S PROVE length[j] < m \/ (length[j] = m /\ i <= j)
    BY <1>4, <1>5
  <2> QED BY <2>1, <2>2
<1>7. Longest(length) = CHOOSE x \in S : Best(x)
  BY DEF Longest
<1> HIDE DEF Best
<1>8. Longest(length) \in S /\ Best(Longest(length))
  BY <1>6, <1>7
<1>9. ASSUME NEW j \in S
      PROVE  /\ length[j] <= length[Longest(length)]
             /\ length[j] = length[Longest(length)] => Longest(length) <= j
  <2>1. length[j] < length[Longest(length)]
           \/ (length[j] = length[Longest(length)] /\ Longest(length) <= j)
    BY <1>8 DEF Best
  <2>2. length[j] \in Nat /\ length[Longest(length)] \in Nat
    BY <1>5, <1>8
  <2> QED BY <2>1, <2>2
<1> QED BY <1>8, <1>9

LEMMA MappingTyped ==
  ASSUME NEW ms \in Seq(Mapping), NEW i \in DOMAIN ms
  PROVE  i \in Nat /\ ms[i].local \in Dir /\ ms[i].remote \in Dir
<1>1. DOMAIN ms = 1 .. Len(ms) /\ Len(ms) \in Nat /\ ms \in [1 .. Len(ms) -> Mapping]
  BY LenProperties
<1>2. i \in Nat /\ ms[i] \in Mapping
  BY <1>1
<1> QED BY <1>2 DEF Mapping

\* The mapping of a path: the first of the nearest ones above it.
LEMMA RemoteOf ==
  ASSUME NEW ms \in Seq(Mapping), NEW path \in Dir,
         \E i \in DOMAIN ms : Under(path, ms[i].local)
  PROVE  \E n \in DOMAIN ms :
           /\ Under(path, ms[n].local) /\ MapToRemote(path, ms) = ms[n].remote \o Rest(path, ms[n].local)
           /\ \A i \in DOMAIN ms : Under(path, ms[i].local) =>
                 /\ Len(ms[i].local) <= Len(ms[n].local)
                 /\ Len(ms[i].local) = Len(ms[n].local) => n <= i
<1> DEFINE matching == {i \in DOMAIN ms : Under(path, ms[i].local)}
           length == [i \in matching |-> LocalLength(ms[i])]
           n == Longest(length)
<1>1. \A i \in DOMAIN ms : i \in Nat /\ ms[i].local \in Dir
  BY MappingTyped
<1>2. matching \in SUBSET Nat /\ matching # {} /\ Len(path) \in Nat
  BY <1>1 DEF Dir
<1>3. \A i \in matching : Len(ms[i].local) \in 0 .. Len(path)
  BY <1>1, UnderIsConcat
<1>4. length \in [matching -> 0 .. Len(path)] /\ \A i \in matching : length[i] = Len(ms[i].local)
  BY <1>3 DEF LocalLength
<1>5. MapToRemote(path, ms) = ToRemote(ms[n], path)
  BY <1>2 DEF MapToRemote
<1>6. \A i \in DOMAIN ms : Under(path, ms[i].local) <=> i \in matching
  OBVIOUS
<1>7. matching \subseteq DOMAIN ms
  OBVIOUS
<1> HIDE DEF matching, length
<1>8. /\ n \in matching /\ \A j \in matching : length[j] <= length[n]
      /\ \A j \in matching : length[j] = length[n] => n <= j
  BY <1>2, <1>4, LongestIs
<1> HIDE DEF n
<1> QED BY <1>4, <1>5, <1>6, <1>7, <1>8 DEF ToRemote

LEMMA UnmappedRemote ==
  ASSUME NEW ms, NEW path, \A i \in DOMAIN ms : ~Under(path, ms[i].local)
  PROVE  MapToRemote(path, ms) = path
BY DEF MapToRemote

LEMMA LocalOf ==
  ASSUME NEW ms \in Seq(Mapping), NEW path \in Dir,
         NEW n \in DOMAIN ms, Under(path, ms[n].remote),
         \A i \in DOMAIN ms : Under(path, ms[i].remote) => i = n
  PROVE  MapToLocal(path, ms) = ms[n].local \o Rest(path, ms[n].remote)
<1> DEFINE matching == {i \in DOMAIN ms : Under(path, ms[i].remote)}
           length == [i \in matching |-> RemoteLength(ms[i])]
<1>1. matching = {n}
  OBVIOUS
<1>2. n \in Nat /\ ms[n].remote \in Dir /\ Len(path) \in Nat
  BY MappingTyped DEF Dir
<1>3. length \in [matching -> 0 .. Len(path)]
  BY <1>1, <1>2, UnderIsConcat DEF RemoteLength
<1>4. MapToLocal(path, ms) = ToLocal(ms[Longest(length)], path)
  BY <1>1 DEF MapToLocal
<1> HIDE DEF matching, length
<1>5. matching \in SUBSET Nat /\ matching # {}
  BY <1>1, <1>2
<1>6. Longest(length) = n
  BY <1>1, <1>2, <1>3, <1>5, LongestIs DEF Dir
<1> QED BY <1>4, <1>6 DEF ToLocal

LEMMA UnmappedLocal ==
  ASSUME NEW ms, NEW path, \A i \in DOMAIN ms : ~Under(path, ms[i].remote)
  PROVE  MapToLocal(path, ms) = path
BY DEF MapToLocal

\* What is said of a path is said of its mapping's directory and leads back.
LEMMA MappingsAreMounts ==
  ASSUME NEW ms \in Seq(Mapping), NEW path \in Dir
  PROVE  MapsLikeMounts(ms, path)
<1> DEFINE Mapped(k) == {i \in DOMAIN ms : ms[i].local = SubSeq(path, 1, k)}
           mounts == {k \in 0 .. Len(path) : Mapped(k) # {}}
           k == Max(mounts)
           m == ms[Min(Mapped(k))]
           remote == MapToRemote(path, ms)
<1> SUFFICES ASSUME mounts # {}
             PROVE  /\ remote = m.remote \o SubSeq(path, k + 1, Len(path))
                    /\ (\A i, j \in DOMAIN ms : i # j => ~Under(ms[i].remote, ms[j].remote))
                       => MapToLocal(remote, ms) = path
  BY DEF MapsLikeMounts
<1>1. /\ \A i \in DOMAIN ms : i \in Nat /\ ms[i].local \in Dir /\ ms[i].remote \in Dir
      /\ Len(path) \in Nat
  BY MappingTyped DEF Dir
<1>2. ASSUME NEW l \in 0 .. Len(path), NEW i \in Mapped(l)
      PROVE  i \in DOMAIN ms /\ Under(path, ms[i].local) /\ Len(ms[i].local) = l
  <2>1. i \in DOMAIN ms /\ ms[i].local = SubSeq(path, 1, l) /\ ms[i].local \in Dir
    BY <1>1
  <2>2. Len(SubSeq(path, 1, l)) = l /\ \A x \in 1 .. l : SubSeq(path, 1, l)[x] = path[x]
    BY <1>1 DEF Dir
  <2>3. l <= Len(path)
    BY <1>1
  <2> QED BY <2>1, <2>2, <2>3, UnderMeans
<1>3. ASSUME NEW i \in DOMAIN ms, Under(path, ms[i].local)
      PROVE  i \in Mapped(Len(ms[i].local)) /\ Len(ms[i].local) \in mounts
  <2>1. ms[i].local = SubSeq(path, 1, Len(ms[i].local)) /\ Len(ms[i].local) \in 0 .. Len(path)
    BY <1>1, <1>3, UnderIsConcat
  <2> QED BY <2>1
<1>4. PICK l \in mounts : \A x \in mounts : x <= l
  <2>1. mounts \in SUBSET (0 .. Len(path))
    OBVIOUS
  <2> HIDE DEF mounts
  <2> QED BY <1>1, <2>1, GreatestNumber
<1>5. k = l /\ k \in 0 .. Len(path) /\ Mapped(k) # {}
  <2>1. \A x \in mounts : x \in Nat
    BY <1>1
  <2>2. Mapped(l) # {} /\ l \in 0 .. Len(path)
    BY <1>4
  <2> HIDE DEF mounts, Mapped
  <2>3. \A x \in mounts : l >= x
    BY <1>4, <2>1
  <2>4. k \in mounts /\ \A x \in mounts : k >= x
    BY <1>4, <2>3, Zenon DEF Max
  <2>5. k = l
    BY <1>4, <2>1, <2>4
  <2> QED BY <2>2, <2>5
<1> HIDE DEF k
<1>6. PICK n \in DOMAIN ms :
        /\ Under(path, ms[n].local) /\ remote = ms[n].remote \o Rest(path, ms[n].local)
        /\ \A i \in DOMAIN ms : Under(path, ms[i].local) =>
              /\ Len(ms[i].local) <= Len(ms[n].local)
              /\ Len(ms[i].local) = Len(ms[n].local) => n <= i
  <2>1. \E i \in DOMAIN ms : Under(path, ms[i].local)
    BY <1>2, <1>5
  <2> QED BY <2>1, RemoteOf
<1>7. Len(ms[n].local) = k /\ n \in Mapped(k)
  <2>1. Len(ms[n].local) \in mounts /\ Len(ms[n].local) <= k /\ n \in Mapped(Len(ms[n].local))
    BY <1>3, <1>4, <1>5, <1>6
  <2>2. PICK i \in Mapped(k) : TRUE
    BY <1>5
  <2>3. i \in DOMAIN ms /\ Under(path, ms[i].local) /\ Len(ms[i].local) = k
    BY <1>2, <1>5, <2>2
  <2>4. k <= Len(ms[n].local)
    BY <1>6, <2>3
  <2>5. Len(ms[n].local) \in Nat /\ k \in Nat
    BY <1>1, <1>5, <1>6 DEF Dir
  <2> HIDE DEF mounts, Mapped
  <2> QED BY <2>1, <2>4, <2>5
<1>8. \A i \in Mapped(k) : n <= i /\ i \in Nat
  BY <1>1, <1>2, <1>5, <1>6, <1>7
<1>9. Min(Mapped(k)) = n
  <2> HIDE DEF Mapped
  <2>1. Min(Mapped(k)) \in Mapped(k) /\ \A i \in Mapped(k) : Min(Mapped(k)) <= i
    BY <1>7, <1>8, Zenon DEF Min
  <2> QED BY <1>7, <1>8, <2>1
<1> HIDE DEF mounts, Mapped, remote
<1>10. Rest(path, ms[n].local) = SubSeq(path, k + 1, Len(path))
  BY <1>7 DEF Rest
<1>11. remote = m.remote \o SubSeq(path, k + 1, Len(path))
  BY <1>6, <1>9, <1>10
<1>12. ASSUME \A i, j \in DOMAIN ms : i # j => ~Under(ms[i].remote, ms[j].remote)
       PROVE  MapToLocal(remote, ms) = path
  <2>1. /\ ms[n].local \in Dir /\ ms[n].remote \in Dir
        /\ Rest(path, ms[n].local) \in Dir /\ path = ms[n].local \o Rest(path, ms[n].local)
    BY <1>1, <1>6, UnderIsConcat
  <2>2. /\ remote \in Dir /\ Under(remote, ms[n].remote)
        /\ Rest(remote, ms[n].remote) = Rest(path, ms[n].local)
    BY <1>6, <2>1, ConcatIsUnder
  <2>3. ASSUME NEW i \in DOMAIN ms, Under(remote, ms[i].remote) PROVE i = n
    <3>1. ms[i].remote \in Dir
      BY <1>1
    <3>2. Under(ms[i].remote, ms[n].remote) \/ Under(ms[n].remote, ms[i].remote)
      BY <2>1, <2>2, <2>3, <3>1, SharedPathOverlap DEF Overlaps, Dir
    <3> QED BY <1>12, <3>2
  <2>4. MapToLocal(remote, ms) = ms[n].local \o Rest(remote, ms[n].remote)
    BY <2>2, <2>3, LocalOf
  <2> QED BY <2>1, <2>2, <2>4
<1> QED BY <1>11, <1>12

\* An output in a section of Plex is in the directory of the section it is
\* mapped to.
LEMMA SectionsAreOfTheirLocations ==
  ASSUME NEW ms \in Seq(Mapping), NEW sections, NEW output \in Dir,
         \A location \in UNION sections : location \in Dir
  PROVE  SectionsAreRefreshed(ms, sections, output)
<1> SUFFICES ASSUME NEW s \in sections, NEW location \in UNION sections, location \in s,
                    Under(MapToRemote(output, ms), location),
                    \/ \E i \in DOMAIN ms : Under(output, ms[i].local)
                    \/ \A i \in DOMAIN ms : ~Overlaps(ms[i].remote, output),
                    \A i \in DOMAIN ms :
                       /\ ~(Under(ms[i].remote, location) /\ ms[i].remote # location)
                       /\ \A j \in DOMAIN ms : i # j => ~Overlaps(ms[i].remote, ms[j].remote)
             PROVE  Overlaps(output, MapToLocal(location, ms))
  BY DEF SectionsAreRefreshed, Refreshes
<1>1. location \in Dir /\ \A i \in DOMAIN ms : ms[i].local \in Dir /\ ms[i].remote \in Dir
  BY MappingTyped
<1>2. CASE \E i \in DOMAIN ms : Under(output, ms[i].local)
  <2>1. PICK n \in DOMAIN ms : /\ Under(output, ms[n].local)
                               /\ MapToRemote(output, ms) = ms[n].remote \o Rest(output, ms[n].local)
    BY <1>2, RemoteOf
  <2> DEFINE rest == Rest(output, ms[n].local)
             remote == ms[n].remote \o rest
  <2>2. rest \in Dir /\ output = ms[n].local \o rest
    BY <1>1, <2>1, UnderIsConcat
  <2>3. remote \in Dir /\ Under(remote, ms[n].remote) /\ Rest(remote, ms[n].remote) = rest
    BY <1>1, <2>2, ConcatIsUnder
  <2>4. Under(remote, location)
    BY <2>1
  <2> HIDE DEF rest, remote
  <2>5. Under(location, ms[n].remote)
    <3>1. Overlaps(location, ms[n].remote)
      BY <1>1, <2>3, <2>4, SharedPathOverlap DEF Dir
    <3>2. Under(location, location)
      BY <1>1, UnderMeans DEF Dir
    <3> QED BY <3>1, <3>2 DEF Overlaps
  <2>6. ASSUME NEW i \in DOMAIN ms, Under(location, ms[i].remote) PROVE i = n
    BY <1>1, <2>5, <2>6, SharedPathOverlap DEF Dir
  <2>7. MapToLocal(location, ms) = ms[n].local \o Rest(location, ms[n].remote)
    BY <1>1, <2>5, <2>6, LocalOf
  <2> DEFINE inner == Rest(location, ms[n].remote)
             local == ms[n].local \o inner
  <2>8. inner \in Dir /\ location = ms[n].remote \o inner
    BY <1>1, <2>5, UnderIsConcat
  <2>9. Under(output, local)
    <3> DEFINE a == ms[n].local
               r == ms[n].remote
    <3>1. a \in Dir /\ r \in Dir /\ rest \in Dir /\ inner \in Dir /\ remote = r \o rest
      BY <1>1, <2>2, <2>8 DEF remote
    <3> HIDE DEF a, r, inner
    <3>2. /\ Len(r) \in Nat /\ Len(a) \in Nat /\ Len(rest) \in Nat /\ Len(inner) \in Nat
          /\ Len(r \o rest) = Len(r) + Len(rest) /\ Len(r \o inner) = Len(r) + Len(inner)
          /\ Len(a \o rest) = Len(a) + Len(rest) /\ Len(a \o inner) = Len(a) + Len(inner)
      BY <3>1 DEF Dir
    <3>3. /\ \A i \in 1 .. Len(rest) : (r \o rest)[Len(r) + i] = rest[i] /\ (a \o rest)[Len(a) + i] = rest[i]
          /\ \A i \in 1 .. Len(inner) : (r \o inner)[Len(r) + i] = inner[i] /\ (a \o inner)[Len(a) + i] = inner[i]
          /\ \A i \in 1 .. Len(a) : (a \o rest)[i] = a[i] /\ (a \o inner)[i] = a[i]
          /\ a \o rest \in Dir /\ a \o inner \in Dir /\ r \o rest \in Dir /\ r \o inner \in Dir
      BY <3>1 DEF Dir
    <3>4. Len(r \o inner) <= Len(r \o rest) /\ \A i \in 1 .. Len(r \o inner) : (r \o rest)[i] = (r \o inner)[i]
      <4>1. Under(r \o rest, r \o inner)
        BY <2>4, <2>8, <3>1 DEF r
      <4> QED BY <3>3, <4>1, UnderMeans
    <3>5. Len(inner) <= Len(rest)
      BY <3>2, <3>4
    <3>6. ASSUME NEW i \in 1 .. Len(inner) PROVE rest[i] = inner[i]
      <4>1. Len(r) + i \in 1 .. Len(r \o inner) /\ i \in 1 .. Len(rest)
        BY <3>2, <3>5
      <4> QED BY <3>3, <3>4, <4>1
    <3>7. Len(a \o inner) <= Len(a \o rest)
      BY <3>2, <3>5
    <3>8. ASSUME NEW i \in 1 .. Len(a \o inner) PROVE (a \o rest)[i] = (a \o inner)[i]
      <4>1. CASE i \in 1 .. Len(a)
        BY <3>3, <4>1
      <4>2. CASE i \notin 1 .. Len(a)
        <5>1. i - Len(a) \in 1 .. Len(inner) /\ i - Len(a) \in 1 .. Len(rest) /\ Len(a) + (i - Len(a)) = i
          BY <3>2, <3>5, <4>2
        <5> QED BY <3>3, <3>6, <5>1
      <4> QED BY <4>1, <4>2
    <3>9. Under(a \o rest, a \o inner)
      BY <3>3, <3>7, <3>8, UnderMeans
    <3> QED BY <2>2, <3>9 DEF a
  <2> QED BY <2>7, <2>9 DEF Overlaps
<1>3. CASE /\ \A i \in DOMAIN ms : ~Under(output, ms[i].local)
           /\ \A i \in DOMAIN ms : ~Overlaps(ms[i].remote, output)
  <2>1. MapToRemote(output, ms) = output
    BY <1>3, UnmappedRemote
  <2>2. ASSUME NEW i \in DOMAIN ms PROVE ~Under(location, ms[i].remote)
    <3>1. Under(location, ms[i].remote) => Under(output, ms[i].remote)
      BY <1>1, <2>1, UnderIsTransitive
    <3> QED BY <1>3, <3>1 DEF Overlaps
  <2>3. MapToLocal(location, ms) = location
    BY <2>2, UnmappedLocal
  <2> QED BY <2>1, <2>3 DEF Overlaps
<1> QED BY <1>2, <1>3

\* Mappings lead each path to the nearest mapped directory above it and back, and
\* every section of Plex that holds an output is asked to rescan it, for any
\* mappings and paths (map_to_remote, map_to_local, PlexRefreshHook).
THEOREM MappingsAgree == Spec => []MappedPathsAgree
<1>1. Init => MappedPathsAgree
  <2> SUFFICES ASSUME Init, input.about = "mappings", NEW path \in Paths
               PROVE  /\ MapsLikeMounts(input.is, path)
                      /\ \A location \in Paths : SectionsAreRefreshed(input.is, {{location}}, path)
    BY DEF MappedPathsAgree
  <2>1. input.is \in Seq(Mapping)
    BY InputsAreOfTheirSubject, MappingsAreOfPaths DEF Mapping, Dir
  <2>2. path \in Dir /\ \A location \in Paths : location \in Dir
    BY NamesMakePaths DEF Dir
  <2>3. MapsLikeMounts(input.is, path)
    BY <2>1, <2>2, MappingsAreMounts
  <2>4. ASSUME NEW location \in Paths PROVE SectionsAreRefreshed(input.is, {{location}}, path)
    <3>1. \A l \in UNION {{location}} : l \in Dir
      BY <2>2
    <3> QED BY <2>1, <2>2, <3>1, SectionsAreOfTheirLocations
  <2> QED BY <2>3, <2>4
<1>2. MappedPathsAgree /\ [Next]_input => MappedPathsAgree'
  BY DEF MappedPathsAgree, Next
<1> QED BY <1>1, <1>2, PTL DEF Spec

-----------------------------------------------------------------------------
(* Media. *)

LEMMA SpellingsAreKnown ==
  /\ \A h \in Heard : /\ h.is \in Languages /\ h.tag \in TagOf(h.is) /\ h.text \in TextOf(h.is)
  /\ \A g \in Groups : /\ g.is \in Languages /\ g.tags \subseteq TagOf(g.is) /\ g.tags # {}
<1>1. \A h \in Heard : \E l \in Languages : h \in [is: {l}, tag: TagOf(l), text: TextOf(l)]
  BY DEF Heard
<1>2. \A h \in Heard : h.is \in Languages /\ h.tag \in TagOf(h.is) /\ h.text \in TextOf(h.is)
  BY <1>1
<1>3. \A g \in Groups : \E l \in Languages : g \in [is: {l}, tags: (SUBSET TagOf(l)) \ {{}}]
  BY AudioIsHeard DEF Wanted
<1>4. \A g \in Groups : g.is \in Languages /\ g.tags \in (SUBSET TagOf(g.is)) \ {{}}
  BY <1>3
<1> QED BY <1>2, <1>4

LEMMA SpelledIs ==
  /\ Languages = {"deu", "eng", "und"}
  /\ Spelled["deu"] = {"de", "ger", "deu"} /\ Spelled["eng"] = {"en", "eng"} /\ Spelled["und"] = {"und"}
BY DEF Languages, Spelled

LEMMA TagsNormalize ==
  ASSUME NEW l \in Languages, NEW code \in Spelled[l]
  PROVE  Lookup(Alpha2, Lookup(Bibliographic, code)) = l
<1>1. /\ DOMAIN Alpha2 = {"de", "en"} /\ DOMAIN Bibliographic = {"ger"}
      /\ Alpha2["de"] = "deu" /\ Alpha2["en"] = "eng" /\ Bibliographic["ger"] = "deu"
  BY DEF Alpha2, Bibliographic
<1>2. code \in {"de", "ger", "deu", "en", "eng", "und"}
  BY SpelledIs
<1>3. CASE l = "deu"
  BY <1>1, <1>3, SpelledIs DEF Lookup
<1>4. CASE l = "eng"
  BY <1>1, <1>4, SpelledIs DEF Lookup
<1>5. CASE l = "und"
  BY <1>1, <1>5, SpelledIs DEF Lookup
<1> QED BY <1>3, <1>4, <1>5, SpelledIs

LEMMA TextsAreOfTheirLanguage ==
  ASSUME NEW l \in Languages, NEW text \in TextOf(l)
  PROVE  FromName(text) = l
<1>1. /\ DOMAIN LanguageName = {"german", "english"}
      /\ LanguageName["german"] = "deu" /\ LanguageName["english"] = "eng"
  BY DEF LanguageName
<1>2. CASE text.word \in Spelled[l] /\ text.remark = FALSE
  <2>1. text.word \notin DOMAIN LanguageName
    BY <1>1, <1>2, SpelledIs
  <2>2. FromName(text) = Normalize([code |-> text.word, region |-> FALSE])
    BY <1>2, <2>1 DEF FromName
  <2>3. Normalize([code |-> text.word, region |-> FALSE]) = Lookup(Alpha2, Lookup(Bibliographic, text.word))
    BY DEF Normalize
  <2> QED BY <1>2, <2>2, <2>3, TagsNormalize
<1>3. CASE text.word \in DOMAIN LanguageName /\ LanguageName[text.word] = l
  BY <1>3 DEF FromName
<1> QED BY <1>2, <1>3 DEF TextOf

\* The spellings of a filter's language count as that language.
LEMMA WantedCodes == ASSUME NEW g \in Groups PROVE Codes(g.tags) = {g.is}
<1>1. g.is \in Languages /\ g.tags \subseteq TagOf(g.is) /\ g.tags # {}
  BY SpellingsAreKnown
<1>2. ASSUME NEW t \in g.tags PROVE Normalize(t) = g.is
  <2>1. t.code \in Spelled[g.is]
    BY <1>1 DEF TagOf
  <2> QED BY <1>1, <2>1, TagsNormalize DEF Normalize
<1> QED BY <1>1, <1>2 DEF Codes

\* A language filter looks at the languages only, whoever found them.
LEMMA FiltersLookAtLanguages ==
  ASSUME NEW media, NEW spoken, NEW groups \in SUBSET Groups, NEW filter,
         media.audio # {},
         \A t \in media.audio : Normalize(t.language) \in spoken,
         \A l \in spoken : \E t \in media.audio : Normalize(t.language) = l,
         \A g \in groups : g.tags \in filter,
         \A f \in filter : \E g \in groups : f = g.tags
  PROVE  /\ LanguageMatches(filter, TRUE, media) <=> \A g \in groups : g.is \in spoken
         /\ LanguageMatches(filter, FALSE, media) <=> \E g \in groups : g.is \in spoken
<1>1. {Normalize(t.language) : t \in media.audio} = spoken
  OBVIOUS
<1>2. LanguageMatches(filter, TRUE, media) <=> \A g \in groups : g.is \in spoken
  <2>1. (\A f \in filter : Codes(f) \intersect spoken # {})
           <=> \A g \in groups : Codes(g.tags) \intersect spoken # {}
    OBVIOUS
  <2>2. \A g \in groups : Codes(g.tags) \intersect spoken # {} <=> g.is \in spoken
    BY WantedCodes
  <2> QED BY <1>1, <2>1, <2>2 DEF LanguageMatches
<1>3. LanguageMatches(filter, FALSE, media) <=> \E g \in groups : g.is \in spoken
  <2>1. \A x : x \in Codes(UNION filter) <=> \E g \in groups : x \in Codes(g.tags)
    <3>1. \A x : x \in Codes(UNION filter) <=> \E f \in filter : \E t \in f : x = Normalize(t)
      BY DEF Codes
    <3>2. ASSUME NEW x, NEW f \in filter, NEW t \in f, x = Normalize(t)
          PROVE  \E g \in groups : x \in Codes(g.tags)
      <4>1. PICK g \in groups : f = g.tags
        OBVIOUS
      <4>2. t \in g.tags
        BY <4>1
      <4> QED BY <3>2, <4>2 DEF Codes
    <3>3. ASSUME NEW x, NEW g \in groups, NEW t \in g.tags, x = Normalize(t)
          PROVE  \E f \in filter : \E u \in f : x = Normalize(u)
      BY <3>3
    <3>4. ASSUME NEW x, NEW g \in groups, x \in Codes(g.tags)
          PROVE  \E t \in g.tags : x = Normalize(t)
      BY <3>4 DEF Codes
    <3> QED BY <3>1, <3>2, <3>3, <3>4
  <2>2. \A x : x \in Codes(UNION filter) <=> \E g \in groups : x = g.is
    <3>1. \A g \in groups : Codes(g.tags) = {g.is}
      BY WantedCodes
    <3>2. \A g \in groups : \A x : x \in Codes(g.tags) <=> x = g.is
      BY <3>1
    <3> QED BY <2>1, <3>2
  <2>3. Codes(UNION filter) \intersect spoken # {} <=> \E g \in groups : g.is \in spoken
    <3>1. ASSUME NEW x \in Codes(UNION filter), x \in spoken PROVE \E g \in groups : g.is \in spoken
      <4>1. PICK g \in groups : x = g.is
        BY <2>2, Zenon
      <4>2. g.is \in spoken
        BY <3>1, <4>1, Zenon
      <4> QED BY <4>2, Zenon
    <3>2. ASSUME NEW g \in groups, g.is \in spoken
          PROVE  g.is \in Codes(UNION filter) \intersect spoken
      <4>1. g.is \in Codes(UNION filter)
        BY <2>2
      <4> QED BY <3>2, <4>1
    <3> QED BY <3>1, <3>2
  <2> QED BY <1>1, <2>3 DEF LanguageMatches
<1> QED BY <1>2, <1>3

\* Both probers report the languages that are spoken, and six channels.
LEMMA ProbersAgree ==
  ASSUME NEW audio \in Seq(Heard), audio # <<>>
  PROVE  LET spoken == {a.is : a \in ToSet(audio)}
             probed == FFProbe([i \in DOMAIN audio |->
                          [type |-> "audio", tag |-> audio[i].tag, channels |-> 6]])
             listed == Arr([languages |-> [i \in DOMAIN audio |-> audio[i].text],
                            channels |-> 51, frame |-> Unknown])
         IN  \A media \in {probed, listed} :
               /\ media.audio # {} /\ {Normalize(t.language) : t \in media.audio} = spoken
               /\ \A t \in media.audio : t.channels = 6
<1> DEFINE spoken == {a.is : a \in ToSet(audio)}
           streams == [i \in DOMAIN audio |-> [type |-> "audio", tag |-> audio[i].tag, channels |-> 6]]
           texts == [i \in DOMAIN audio |-> audio[i].text]
           entry == [languages |-> texts, channels |-> 51, frame |-> Unknown]
           probed == FFProbe(streams)
           listed == Arr(entry)
<1>1. DOMAIN audio = 1 .. Len(audio) /\ Len(audio) \in Nat \ {0} /\ \A i \in DOMAIN audio : audio[i] \in Heard
  BY EmptySeq
<1>2. \A i \in DOMAIN audio : /\ audio[i].is \in Languages /\ audio[i].tag \in TagOf(audio[i].is)
                              /\ audio[i].text \in TextOf(audio[i].is)
                              /\ audio[i].tag \in Tags /\ audio[i].text \in Texts
  BY <1>1, SpellingsAreKnown DEF Tags, Texts
<1>3. spoken = {audio[i].is : i \in DOMAIN audio} /\ spoken # {} /\ spoken \subseteq Languages
  BY <1>1, <1>2 DEF ToSet
<1>4. /\ probed.audio # {} /\ {Normalize(t.language) : t \in probed.audio} = spoken
      /\ \A t \in probed.audio : t.channels = 6
  <2>1. streams \in Seq([type: {"audio"}, tag: Tags, channels: Int])
    <3>1. \A i \in 1 .. Len(audio) : [type |-> "audio", tag |-> audio[i].tag, channels |-> 6]
                                       \in [type: {"audio"}, tag: Tags, channels: Int]
      BY <1>1, <1>2
    <3> QED BY <1>1, <3>1
  <2>2. probed.audio = AudioTracks(streams)
    BY <2>1, UnknownIsNoAnswer DEF FFProbe
  <2>3. \A i \in DOMAIN audio : streams[i].type = "audio" /\ streams[i].tag = audio[i].tag
                                 /\ streams[i].tag # Unknown /\ streams[i].channels = 6
    BY <1>2, UnknownIsNoAnswer
  <2>4. DOMAIN streams = DOMAIN audio
    OBVIOUS
  <2> HIDE DEF streams
  <2>5. AudioTracks(streams) = {Track(audio[i].tag, 6) : i \in DOMAIN audio}
    BY <2>3, <2>4 DEF AudioTracks, ToSet
  <2>6. \A i \in DOMAIN audio : /\ Track(audio[i].tag, 6).language = audio[i].tag
                                /\ Track(audio[i].tag, 6).channels = 6
    BY DEF Track
  <2>7. \A i \in DOMAIN audio : Normalize(audio[i].tag) = audio[i].is
    <3>1. \A i \in DOMAIN audio : audio[i].tag.code \in Spelled[audio[i].is]
      BY <1>2 DEF TagOf
    <3> QED BY <1>2, <3>1, TagsNormalize DEF Normalize
  <2>8. {Normalize(t.language) : t \in probed.audio} = {audio[i].is : i \in DOMAIN audio}
    BY <2>2, <2>5, <2>6, <2>7
  <2>9. probed.audio # {} /\ \A t \in probed.audio : t.channels = 6
    BY <1>1, <2>2, <2>5, <2>6
  <2> QED BY <1>3, <2>8, <2>9
<1>5. /\ listed.audio # {} /\ {Normalize(t.language) : t \in listed.audio} = spoken
      /\ \A t \in listed.audio : t.channels = 6
  <2>1. texts \in Seq(Texts)
    BY <1>1, <1>2
  <2>2. entry # Unknown
    BY <2>1, UnknownIsNoAnswer
  <2>3. ParsedLanguages(texts) = spoken
    <3>1. \A i \in DOMAIN audio : FromName(texts[i]) = audio[i].is
      BY <1>2, TextsAreOfTheirLanguage
    <3>2. ToSet(texts) = {texts[i] : i \in DOMAIN audio}
      BY DEF ToSet
    <3> HIDE DEF texts, spoken
    <3>3. {FromName(t) : t \in ToSet(texts)} = spoken
      BY <1>3, <3>1, <3>2
    <3> QED BY <1>3, <3>3, UnknownIsNoAnswer DEF ParsedLanguages
  <2>4. ParsedChannels(51) = 6
    BY UnknownIsNoAnswer DEF ParsedChannels
  <2> HIDE DEF texts, spoken
  <2>5. listed.audio = {Track([code |-> l, region |-> FALSE], 6) : l \in spoken}
    BY <1>3, <2>2, <2>3, <2>4 DEF Arr
  <2>6. \A l \in spoken : Normalize([code |-> l, region |-> FALSE]) = l
    <3>1. \A l \in Languages : l \in Spelled[l]
      BY SpelledIs
    <3> QED BY <1>3, <3>1, TagsNormalize DEF Normalize
  <2>7. \A l \in spoken : LET t == Track([code |-> l, region |-> FALSE], 6)
                          IN  t.language = [code |-> l, region |-> FALSE] /\ t.channels = 6
    BY DEF Track
  <2> HIDE DEF listed
  <2>8. {Normalize(t.language) : t \in listed.audio} = {Normalize([code |-> l, region |-> FALSE]) : l \in spoken}
    BY <2>5, <2>7
  <2>9. {Normalize([code |-> l, region |-> FALSE]) : l \in spoken} = spoken
    BY <2>6
  <2>10. listed.audio # {} /\ \A t \in listed.audio : t.channels = 6
    <3>1. PICK l \in spoken : TRUE
      BY <1>3
    <3>2. Track([code |-> l, region |-> FALSE], 6) \in listed.audio
      BY <2>5
    <3>3. \A t \in listed.audio : \E k \in spoken : t = Track([code |-> k, region |-> FALSE], 6)
      BY <2>5
    <3> QED BY <2>7, <3>2, <3>3
  <2> QED BY <2>8, <2>9, <2>10
<1> QED BY <1>4, <1>5

LEMMA SpellingsDoNotCount ==
  ASSUME NEW audio \in Seq(Heard), audio # <<>>, NEW groups \in SUBSET Groups, NEW all \in BOOLEAN
  PROVE  SpellingDoesNotCount(audio, groups, all)
<1> DEFINE spoken == {a.is : a \in ToSet(audio)}
           wanted == IF all THEN \A g \in groups : g.is \in spoken ELSE \E g \in groups : g.is \in spoken
           filter == {g.tags : g \in groups}
           probed == FFProbe([i \in DOMAIN audio |->
                        [type |-> "audio", tag |-> audio[i].tag, channels |-> 6]])
           listed == Arr([languages |-> [i \in DOMAIN audio |-> audio[i].text],
                          channels |-> 51, frame |-> Unknown])
<1>1. ASSUME NEW media \in {probed, listed}
      PROVE  /\ \A invert \in BOOLEAN :
                   Inverted(invert, LanguageMatches(filter, all, media)) <=> (wanted # invert)
             /\ ChannelsMatch(6, media) /\ ~ChannelsMatch(7, media)
  <2>1. /\ media.audio # {} /\ {Normalize(t.language) : t \in media.audio} = spoken
        /\ \A t \in media.audio : t.channels = 6
    BY <1>1, ProbersAgree
  <2> HIDE DEF probed, listed, spoken
  <2>2. LanguageMatches(filter, all, media) <=> wanted
    <3>1. /\ \A t \in media.audio : Normalize(t.language) \in spoken
          /\ \A l \in spoken : \E t \in media.audio : Normalize(t.language) = l
      BY <2>1
    <3>2. /\ \A g \in groups : g.tags \in filter
          /\ \A f \in filter : \E g \in groups : f = g.tags
      OBVIOUS
    <3> HIDE DEF filter
    <3>3. /\ LanguageMatches(filter, TRUE, media) <=> \A g \in groups : g.is \in spoken
          /\ LanguageMatches(filter, FALSE, media) <=> \E g \in groups : g.is \in spoken
      <4>1. media.audio # {}
        BY <2>1
      <4> QED BY <3>1, <3>2, <4>1, FiltersLookAtLanguages
    <3>4. all = TRUE \/ all = FALSE
      OBVIOUS
    <3> QED BY <3>3, <3>4
  <2>3. LanguageMatches(filter, all, media) \in BOOLEAN /\ wanted \in BOOLEAN
    BY DEF LanguageMatches
  <2> HIDE DEF wanted, filter
  <2>4. LanguageMatches(filter, all, media) = wanted
    BY <2>2, <2>3
  <2>5. ChannelsMatch(6, media) /\ ~ChannelsMatch(7, media)
    BY <2>1, UnknownIsNoAnswer DEF ChannelsMatch
  <2> QED BY <2>4, <2>5 DEF Inverted
<1> HIDE DEF probed, listed, spoken
<1> QED BY <1>1 DEF SpellingDoesNotCount, probed, listed, spoken

LEMMA RoundedIsNear ==
  ASSUME NEW w \in Nat
  PROVE  /\ Rounded(w) \in Nat /\ 16 * Rounded(w) <= 9 * w + 16 /\ 16 * Rounded(w) >= 9 * w - 15
<1>1. LET q == (9 * w) \div 16
          r == (9 * w) % 16
      IN  q \in Nat /\ r \in 0 .. 15 /\ 9 * w = 16 * q + r
  OBVIOUS
<1>2. Rounded(w) = (9 * w) \div 16 \/ Rounded(w) = (9 * w) \div 16 + 1
  BY DEF Rounded
<1> QED BY <1>1, <1>2

\* At 16:9 a cropped picture has about the height of its class.
LEMMA PicturesHaveTheirHeight ==
  ASSUME NEW class \in Classes, NEW frame, frame.width \in Nat, frame.height \in Nat,
         Frame(class, frame.width, frame.height)
  PROVE  /\ EffectiveHeight(frame) \in Nat
         /\ EffectiveHeight(frame) <= class + 2 /\ 100 * EffectiveHeight(frame) >= 95 * class
<1> DEFINE w == frame.width
           h == frame.height
           r == Rounded(w)
<1>1. w \in Nat /\ h \in Nat /\ class \in Nat /\ class >= 480
  BY DEF Classes
<1>2. /\ 9 * w <= 16 * class + 16 /\ h <= class
      /\ 100 * 9 * w >= 98 * 16 * class \/ 100 * h >= 98 * class
  BY DEF Frame
<1>3. r \in Nat /\ 16 * r <= 9 * w + 16 /\ 16 * r >= 9 * w - 15
  BY <1>1, RoundedIsNear
<1>4. EffectiveHeight(frame) = IF h >= r THEN h ELSE r
  BY DEF EffectiveHeight, Larger
<1> HIDE DEF w, h, r
<1> QED BY <1>1, <1>2, <1>3, <1>4

LEMMA PicturesHaveOneClass ==
  ASSUME NEW class \in Classes, NEW frame \in [width: Nat, height: Nat],
         Frame(class, frame.width, frame.height)
  PROVE  ReleasesHaveOneClass(frame, class, Classes)
<1> DEFINE cover == [width |-> 4000, height |-> 4000]
           streams == <<[type |-> "video", cover |-> FALSE, frame |-> frame],
                        [type |-> "video", cover |-> TRUE, frame |-> cover]>>
           media == FFProbe(streams)
           e == EffectiveHeight(frame)
<1>1. streams \in Seq([type: {"video"}, cover: BOOLEAN, frame: [width: Nat, height: Nat]])
  OBVIOUS
<1>2. media.video = VideoTracks(streams)
  <2> HIDE DEF streams
  <2>1. streams # Unknown
    BY <1>1, UnknownIsNoAnswer
  <2> QED BY <2>1 DEF FFProbe
<1>3. VideoTracks(streams) = {frame}
  <2>1. DOMAIN streams = {1, 2} /\ streams[1].type = "video" /\ ~streams[1].cover /\ streams[1].frame = frame
        /\ streams[2].cover
    OBVIOUS
  <2> HIDE DEF streams
  <2> QED BY <2>1 DEF VideoTracks, ToSet
<1>4. e \in Nat /\ e <= class + 2 /\ 100 * e >= 95 * class
  BY PicturesHaveTheirHeight
<1> HIDE DEF media, streams
<1>5. {EffectiveHeight(f) : f \in media.video} = {e}
  BY <1>2, <1>3
<1> HIDE DEF e
<1>6. \A min, max \in Nat : HeightMatches(min, max, media)
                      <=> (min > 0 => 100 * e >= 95 * min) /\ (max > 0 => 100 * e <= 105 * max)
  <2> DEFINE H == {EffectiveHeight(f) : f \in media.video}
             height == CHOOSE h \in H : \A g \in H : g <= h
  <2>1. \A min, max \in Nat :
           HeightMatches(min, max, media)
             <=> H # {} /\ (min > 0 => 100 * height >= 95 * min) /\ (max > 0 => 100 * height <= 105 * max)
    BY DEF HeightMatches
  <2>2. H = {e}
    BY <1>5
  <2> HIDE DEF H
  <2>3. height = e
    BY <1>4, <2>2
  <2> HIDE DEF height
  <2> QED BY <2>1, <2>2, <2>3
<1>7. ASSUME NEW c \in Classes
      PROVE  /\ HeightMatches(c, 0, media) <=> class >= c
             /\ HeightMatches(0, c, media) <=> class <= c
  <2>1. /\ HeightMatches(c, 0, media) <=> 100 * e >= 95 * c
        /\ HeightMatches(0, c, media) <=> 100 * e <= 105 * c
    BY <1>6 DEF Classes
  <2>2. 100 * e >= 95 * c <=> class >= c
    BY <1>4 DEF Classes
  <2>3. 100 * e <= 105 * c <=> class <= c
    BY <1>4 DEF Classes
  <2> QED BY <2>1, <2>2, <2>3
<1> QED BY <1>7 DEF ReleasesHaveOneClass, media, streams, cover

\* No spelling of a language, no choice of a prober and no crop of a picture puts
\* a file into another library, for files with any number of tracks and pictures
\* of any size near that of their class (normalize_language, effective_height).
THEOREM ContentDecides == Spec => []MediaIsJudgedByContent
<1>1. Init => MediaIsJudgedByContent
  <2> SUFFICES ASSUME Init PROVE MediaIsJudgedByContent
    OBVIOUS
  <2>1. ASSUME input.about = "audio", NEW a \in Groups, NEW b \in Groups, NEW all \in BOOLEAN
        PROVE  SpellingDoesNotCount(input.is, {a, b}, all)
    <3>1. input.is \in Seq(Heard) /\ input.is # <<>>
      BY <2>1, InputsAreOfTheirSubject, AudioIsHeard
    <3>2. {a, b} \in SUBSET Groups
      OBVIOUS
    <3> QED BY <3>1, <3>2, SpellingsDoNotCount
  <2>2. ASSUME input.about = "picture"
        PROVE  ReleasesHaveOneClass(input.is.frame, input.is.class, Classes)
    <3>1. /\ input.is.class \in Classes /\ input.is.frame \in [width: Nat, height: Nat]
          /\ Frame(input.is.class, input.is.frame.width, input.is.frame.height)
      BY <2>2, InputsAreOfTheirSubject, PicturesAreOfClasses
    <3> QED BY <3>1, PicturesHaveOneClass
  <2> QED BY <2>1, <2>2 DEF MediaIsJudgedByContent
<1>2. MediaIsJudgedByContent /\ [Next]_input => MediaIsJudgedByContent'
  BY DEF MediaIsJudgedByContent, Next
<1> QED BY <1>1, <1>2, PTL DEF Spec

-----------------------------------------------------------------------------
(* The index of Sonarr/Radarr. *)

Lookups == Seq([at: Nat, answer: {Unknown} \union Nat])
Index == [holds: {Unknown} \union Nat, fetched: {Unknown} \union Nat, asked: Seq(Nat)]
After(lookups, n, index) == Found(index, lookups[n].at, lookups[n].answer)

LEMMA LookupTyped ==
  ASSUME NEW lookups \in Lookups, NEW n \in 1 .. Len(lookups)
  PROVE  lookups[n].at \in Nat /\ lookups[n].answer \in {Unknown} \union Nat
<1>1. lookups[n] \in [at: Nat, answer: {Unknown} \union Nat]
  BY ElementOfSeq DEF Lookups
<1> QED BY <1>1

LEMMA AfterTyped ==
  ASSUME NEW lookups \in Lookups, NEW n \in 1 .. Len(lookups), NEW index \in Index
  PROVE  After(lookups, n, index) \in Index
<1>1. lookups[n].at \in Nat /\ lookups[n].answer \in {Unknown} \union Nat
  BY LookupTyped
<1>2. index.holds \in {Unknown} \union Nat /\ index.asked \in Seq(Nat)
  BY DEF Index
<1>3. Append(index.asked, lookups[n].at) \in Seq(Nat)
  BY <1>1, <1>2
<1> QED BY <1>1, <1>2, <1>3 DEF After, Found, Refresh, Index

\* Lookups lead from one index to the next: the recursion of Indexed has a
\* solution, however many they are.
LEMMA LookupsFollow ==
  ASSUME NEW lookups \in Lookups
  PROVE  \E f : /\ Indexed(lookups) = f[Len(lookups)] /\ f[0] = NoIndex
                /\ \A n \in 1 .. Len(lookups) : f[n] = After(lookups, n, f[n - 1])
<1> DEFINE N == Len(lookups)
           Follows(k, f) == /\ f \in [0 .. k -> Index] /\ f[0] = NoIndex
                            /\ \A n \in 1 .. k : f[n] = After(lookups, n, f[n - 1])
           Missing == {k \in 0 .. N : ~\E f : Follows(k, f)}
<1>1. N \in Nat
  BY DEF Lookups
<1>2. NoIndex \in Index
  BY DEF NoIndex, Index
<1>3. Follows(0, [n \in 0 .. 0 |-> NoIndex])
  BY <1>2
<1>4. ASSUME NEW k \in 1 .. N, NEW f, Follows(k - 1, f)
      PROVE  Follows(k, [n \in 0 .. k |-> IF n = k THEN After(lookups, k, f[k - 1]) ELSE f[n]])
  <2> DEFINE g == [n \in 0 .. k |-> IF n = k THEN After(lookups, k, f[k - 1]) ELSE f[n]]
  <2>1. /\ k \in Nat /\ k - 1 \in 0 .. k - 1 /\ k \notin 0 .. k - 1 /\ k \in 0 .. k /\ 0 \in 0 .. k - 1
        /\ \A n \in 0 .. k : n = k \/ n \in 0 .. k - 1
        /\ \A n \in 0 .. k - 1 : n \in 0 .. k
        /\ \A n \in 1 .. k : n - 1 \in 0 .. k - 1 /\ (n = k \/ n \in 1 .. k - 1)
    BY <1>1
  <2>2. /\ f \in [0 .. k - 1 -> Index] /\ f[0] = NoIndex
        /\ \A n \in 1 .. k - 1 : f[n] = After(lookups, n, f[n - 1])
    BY <1>4
  <2> HIDE DEF Follows
  <2>3. After(lookups, k, f[k - 1]) \in Index
    BY <2>1, <2>2, AfterTyped
  <2>4. g \in [0 .. k -> Index]
    BY <2>1, <2>2, <2>3
  <2>5. g[k] = After(lookups, k, f[k - 1]) /\ \A n \in 0 .. k - 1 : g[n] = f[n]
    BY <2>1
  <2> HIDE DEF g
  <2>6. \A n \in 1 .. k : g[n] = After(lookups, n, g[n - 1])
    <3> SUFFICES ASSUME NEW n \in 1 .. k PROVE g[n] = After(lookups, n, g[n - 1])
      OBVIOUS
    <3>1. g[n - 1] = f[n - 1]
      BY <2>1, <2>5
    <3>2. CASE n = k
      BY <2>5, <3>1, <3>2
    <3>3. CASE n \in 1 .. k - 1
      <4>1. n \in 0 .. k - 1
        BY <3>3
      <4> QED BY <2>2, <2>5, <3>1, <3>3, <4>1
    <3> QED BY <2>1, <3>2, <3>3
  <2>7. g[0] = NoIndex
    BY <2>1, <2>2, <2>5
  <2> QED BY <2>4, <2>6, <2>7 DEF Follows, g
<1> HIDE DEF Follows
<1>5. \E f : Follows(N, f)
  <2>1. ASSUME Missing # {} PROVE FALSE
    <3>1. Missing \in SUBSET Nat
      OBVIOUS
    <3>2. PICK k \in Missing : \A l \in Missing : k <= l
      BY <2>1, <3>1, LeastNumber
    <3>3. k # 0 /\ k \in 0 .. N
      BY <1>3, <3>2
    <3>4. k \in 1 .. N /\ k - 1 \in 0 .. N /\ ~(k <= k - 1)
      BY <1>1, <3>3
    <3>5. \E f : Follows(k - 1, f)
      BY <3>2, <3>4
    <3> QED BY <1>4, <3>2, <3>4, <3>5
  <2>2. N \in 0 .. N
    BY <1>1
  <2> QED BY <2>1, <2>2
<1> DEFINE Solves(f) == f = [n \in 0 .. N |-> IF n = 0 THEN NoIndex
                                              ELSE Found(f[n - 1], lookups[n].at, lookups[n].answer)]
           index == CHOOSE f : Solves(f)
<1>6. Indexed(lookups) = index[N]
  BY DEF Indexed
<1>7. \E f : Solves(f)
  <2>1. PICK f : Follows(N, f)
    BY <1>5
  <2>2. /\ f \in [0 .. N -> Index] /\ f[0] = NoIndex
        /\ \A n \in 1 .. N : f[n] = Found(f[n - 1], lookups[n].at, lookups[n].answer)
    BY <2>1 DEF Follows, After
  <2>3. \A n \in 0 .. N : n = 0 \/ n \in 1 .. N
    BY <1>1
  <2> HIDE DEF N
  <2>4. \A n \in 0 .. N : f[n] = IF n = 0 THEN NoIndex
                                ELSE Found(f[n - 1], lookups[n].at, lookups[n].answer)
    BY <2>2, <2>3
  <2>5. f = [n \in 0 .. N |-> f[n]]
    BY <2>2
  <2>6. Solves(f)
    BY <2>4, <2>5
  <2> QED BY <2>6
<1> HIDE DEF Solves
<1>8. Solves(index)
  BY <1>7
<1>9. /\ index[0] = NoIndex
      /\ \A n \in 1 .. N : index[n] = Found(index[n - 1], lookups[n].at, lookups[n].answer)
  <2>1. index = [n \in 0 .. N |-> IF n = 0 THEN NoIndex
                                 ELSE Found(index[n - 1], lookups[n].at, lookups[n].answer)]
    BY <1>8 DEF Solves
  <2>2. 0 \in 0 .. N /\ \A n \in 1 .. N : n \in 0 .. N /\ n # 0
    BY <1>1
  <2> HIDE DEF index, N
  <2> QED BY <2>1, <2>2
<1> HIDE DEF index
<1> QED BY <1>6, <1>9 DEF After

\* The server was last asked when the index was fetched, each time more than
\* Ttl after the time before, and what answered lookups hold is of that time.
Good(lookups, n, index) ==
  /\ index \in Index /\ (n = 0 => index = NoIndex)
  /\ index.fetched = Unknown => index.asked = <<>>
  /\ index.fetched # Unknown => /\ Len(index.asked) > 0
                                /\ index.asked[Len(index.asked)] = index.fetched
  /\ \A i, j \in DOMAIN index.asked : i < j => index.asked[j] - index.asked[i] > Ttl
  /\ n > 0 /\ (\A i \in 1 .. Len(lookups) : lookups[i].answer # Unknown)
       => /\ index.fetched # Unknown /\ index.holds = index.fetched
          /\ lookups[n].at - index.fetched <= Ttl

LEMMA AskedRarely ==
  ASSUME NEW s \in Seq(Nat), NEW t \in Nat,
         \A i, j \in DOMAIN s : i < j => s[j] - s[i] > Ttl,
         Len(s) > 0 => t - s[Len(s)] > Ttl
  PROVE  /\ Append(s, t) \in Seq(Nat) /\ Len(Append(s, t)) = Len(s) + 1 /\ Append(s, t)[Len(s) + 1] = t
         /\ \A i, j \in DOMAIN Append(s, t) : i < j => Append(s, t)[j] - Append(s, t)[i] > Ttl
<1> DEFINE u == Append(s, t)
<1>1. /\ u \in Seq(Nat) /\ Len(u) = Len(s) + 1 /\ Len(s) \in Nat /\ Ttl \in Nat
      /\ u[Len(s) + 1] = t /\ \A i \in 1 .. Len(s) : u[i] = s[i]
  BY LookupsAreTimed
<1>2. \A i \in 1 .. Len(s) : s[i] \in Nat
  OBVIOUS
<1> HIDE DEF u
<1>3. \A i \in DOMAIN u : i \in 1 .. Len(s) \/ i = Len(s) + 1
  BY <1>1
<1>4. \A i \in 1 .. Len(s) : t - s[i] > Ttl
  <2> SUFFICES ASSUME NEW i \in 1 .. Len(s) PROVE t - s[i] > Ttl
    OBVIOUS
  <2>1. Len(s) \in 1 .. Len(s) /\ t - s[Len(s)] > Ttl /\ s[Len(s)] \in Nat /\ s[i] \in Nat
    BY <1>1, <1>2
  <2>2. i = Len(s) \/ s[Len(s)] - s[i] > Ttl
    <3>1. i = Len(s) \/ i < Len(s)
      BY <1>1
    <3> QED BY <2>1, <3>1
  <2> QED BY <1>1, <2>1, <2>2
<1>5. ASSUME NEW i \in DOMAIN u, NEW j \in DOMAIN u, i < j PROVE u[j] - u[i] > Ttl
  <2>1. i \in 1 .. Len(s)
    BY <1>1, <1>3, <1>5
  <2>2. CASE j = Len(s) + 1
    BY <1>1, <1>4, <2>1, <2>2
  <2>3. CASE j \in 1 .. Len(s)
    <3>1. i \in DOMAIN s /\ j \in DOMAIN s
      BY <2>1, <2>3
    <3> QED BY <1>1, <1>5, <2>1, <2>3, <3>1
  <2> QED BY <1>3, <2>2, <2>3
<1> QED BY <1>1, <1>5 DEF u

LEMMA GoodStays ==
  ASSUME NEW lookups \in Lookups, \A i \in DOMAIN lookups : lookups[i].answer \in {Unknown, lookups[i].at},
         NEW n \in 1 .. Len(lookups), NEW index, Good(lookups, n - 1, index)
  PROVE  Good(lookups, n, After(lookups, n, index))
<1> DEFINE now == lookups[n].at
           answer == lookups[n].answer
           s == index.asked
           next == After(lookups, n, index)
<1>1. now \in Nat /\ answer \in {Unknown, now} /\ n > 0 /\ Ttl \in Nat /\ Unknown \notin Int
  <2>1. n \in DOMAIN lookups
    BY DEF Lookups
  <2> QED BY <2>1, LookupTyped, LookupsAreTimed, UnknownIsNoAnswer
<1>2. /\ index.holds \in {Unknown} \union Nat /\ index.fetched \in {Unknown} \union Nat /\ s \in Seq(Nat)
      /\ index.fetched = Unknown => s = <<>>
      /\ index.fetched # Unknown => Len(s) > 0 /\ s[Len(s)] = index.fetched
      /\ \A i, j \in DOMAIN s : i < j => s[j] - s[i] > Ttl
  BY DEF Good, Index
<1>3. next \in Index
  BY AfterTyped DEF Good
<1> HIDE DEF now, answer, s
<1>4. CASE Stale(index, now)
  <2>1. next = [holds |-> IF answer = Unknown THEN index.holds ELSE answer,
                fetched |-> now, asked |-> Append(s, now)]
    BY <1>4 DEF After, Found, Refresh, now, answer, s
  <2>2. Len(s) > 0 => now - s[Len(s)] > Ttl
    BY <1>2, <1>4 DEF Stale
  <2>3. /\ Append(s, now) \in Seq(Nat) /\ Len(Append(s, now)) = Len(s) + 1 /\ Append(s, now)[Len(s) + 1] = now
        /\ \A i, j \in DOMAIN Append(s, now) : i < j => Append(s, now)[j] - Append(s, now)[i] > Ttl
    BY <1>1, <1>2, <2>2, AskedRarely
  <2>4. Len(s) \in Nat
    BY <1>2
  <2>5. answer # Unknown => next.holds = now
    BY <1>1, <2>1
  <2> DEFINE u == Append(s, now)
  <2>6. next.fetched = now /\ next.asked = u
    BY <2>1
  <2> HIDE DEF u, next
  <2>7. /\ next.fetched # Unknown /\ Len(next.asked) > 0 /\ next.asked[Len(next.asked)] = next.fetched
        /\ \A i, j \in DOMAIN next.asked : i < j => next.asked[j] - next.asked[i] > Ttl
        /\ now - next.fetched <= Ttl
    BY <1>1, <2>3, <2>4, <2>6 DEF u
  <2>8. (\A i \in 1 .. Len(lookups) : lookups[i].answer # Unknown) => next.holds = next.fetched
    BY <2>5, <2>6 DEF answer
  <2> QED BY <1>3, <2>7, <2>8 DEF Good, next, now
<1>5. CASE ~Stale(index, now)
  <2>1. next = index
    BY <1>5 DEF After, Found, now
  <2>2. index.fetched # Unknown /\ now - index.fetched <= Ttl
    <3>1. index.fetched # Unknown /\ ~(now - index.fetched > Ttl)
      BY <1>5 DEF Stale
    <3> QED BY <1>1, <1>2, <3>1
  <2>3. (\A i \in 1 .. Len(lookups) : lookups[i].answer # Unknown) => index.holds = index.fetched
    <3>1. CASE n - 1 > 0
      BY <3>1 DEF Good
    <3>2. CASE ~(n - 1 > 0)
      <4>1. n - 1 = 0
        BY <1>1, <3>2
      <4>2. index.fetched = Unknown
        BY <4>1 DEF Good, NoIndex
      <4> QED BY <2>2, <4>2
    <3> QED BY <3>1, <3>2
  <2> HIDE DEF next
  <2>4. next \in Index /\ (n = 0 => next = NoIndex)
    BY <1>1, <1>3
  <2>5. /\ next.fetched # Unknown /\ Len(next.asked) > 0 /\ next.asked[Len(next.asked)] = next.fetched
        /\ \A i, j \in DOMAIN next.asked : i < j => next.asked[j] - next.asked[i] > Ttl
    BY <1>2, <2>1, <2>2 DEF s
  <2>6. Good(lookups, n, next)
    BY <2>1, <2>2, <2>3, <2>4, <2>5 DEF Good, now
  <2> QED BY <2>6 DEF next
<1> QED BY <1>4, <1>5

\* Sonarr and Radarr are not asked more often than once per cache_ttl, whether
\* they answer or not, and their answer is not used for longer unless they fail,
\* for any series of lookups (ArrProber._lookup).
THEOREM IndexIsAlwaysReused == Spec => []IndexIsReused
<1>1. ASSUME NEW lookups \in LookupLists PROVE IndexIsRecentAndRare(lookups)
  <2>1. lookups \in Lookups /\ \A i \in DOMAIN lookups : lookups[i].answer \in {Unknown, lookups[i].at}
    BY LookupsAreTimed DEF Lookups
  <2>2. Len(lookups) \in Nat /\ DOMAIN lookups = 1 .. Len(lookups)
    BY <2>1 DEF Lookups
  <2>3. PICK f : /\ Indexed(lookups) = f[Len(lookups)] /\ f[0] = NoIndex
                 /\ \A n \in 1 .. Len(lookups) : f[n] = After(lookups, n, f[n - 1])
    BY <2>1, LookupsFollow
  <2> DEFINE Bad == {n \in 0 .. Len(lookups) : ~Good(lookups, n, f[n])}
  <2>4. Good(lookups, 0, f[0])
    <3>1. NoIndex \in Index /\ NoIndex.fetched = Unknown /\ NoIndex.asked = <<>>
      BY DEF NoIndex, Index
    <3>2. \A i \in DOMAIN <<>> : FALSE
      OBVIOUS
    <3> QED BY <2>3, <3>1, <3>2 DEF Good
  <2>5. ASSUME NEW n \in 1 .. Len(lookups), Good(lookups, n - 1, f[n - 1]) PROVE Good(lookups, n, f[n])
    BY <2>1, <2>3, <2>5, GoodStays
  <2>6. ASSUME Bad # {} PROVE FALSE
    <3>1. Bad \in SUBSET Nat
      OBVIOUS
    <3>2. PICK n \in Bad : \A m \in Bad : n <= m
      BY <2>6, <3>1, LeastNumber
    <3>3. n # 0 /\ n \in 0 .. Len(lookups)
      BY <2>4, <3>2
    <3>4. n \in 1 .. Len(lookups) /\ n - 1 \in 0 .. Len(lookups) /\ ~(n <= n - 1)
      BY <2>2, <3>3
    <3>5. Good(lookups, n - 1, f[n - 1])
      BY <3>2, <3>4
    <3> QED BY <2>5, <3>2, <3>4, <3>5
  <2>7. Good(lookups, Len(lookups), Indexed(lookups))
    <3>1. Len(lookups) \in 0 .. Len(lookups)
      BY <2>2
    <3> QED BY <2>3, <2>6, <3>1
  <2> DEFINE index == Indexed(lookups)
             N == Len(lookups)
  <2> HIDE DEF index, N
  <2>8. ASSUME lookups # <<>>
        PROVE  /\ \A i, j \in DOMAIN index.asked : i < j => index.asked[j] - index.asked[i] > Ttl
               /\ (\A i \in DOMAIN lookups : lookups[i].answer # Unknown)
                    => Last(lookups).at - index.holds <= Ttl
    <3>1. N > 0 /\ Last(lookups) = lookups[N] /\ DOMAIN lookups = 1 .. N
      BY <2>1, <2>2, <2>8 DEF N, Last, Lookups
    <3>2. Good(lookups, N, index)
      BY <2>7 DEF N, index
    <3> QED BY <3>1, <3>2 DEF Good, N
  <2> QED BY <2>8 DEF IndexIsRecentAndRare, index
<1>2. Init => IndexIsReused
  BY <1>1, InputsAreOfTheirSubject DEF IndexIsReused
<1>3. IndexIsReused /\ [Next]_input => IndexIsReused'
  BY DEF IndexIsReused, Next
<1> QED BY <1>2, <1>3, PTL DEF Spec

=============================================================================
