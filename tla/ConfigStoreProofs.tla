------------------------- MODULE ConfigStoreProofs -------------------------
(***************************************************************************)
(* What the configuration file holds and whose changes it keeps, for any   *)
(* number of pages, settings, writes and restarts.                         *)
(***************************************************************************)
EXTENDS ConfigStore, TLAPS

-----------------------------------------------------------------------------
(* The conversions. *)

\* A configuration that is built has no key that is merely absent.
LEMMA EffectiveTyped ==
  ASSUME TypeOK, NEW c \in Content
  PROVE  /\ Effective(c) \in Content
         /\ Effective(c).plain = c.plain
         /\ Effective(c).over = IF env \in EnvValue THEN env ELSE c.over
         /\ Effective(c).secret = KeyFromEnvironment(c.secret)
         /\ Effective(c).secret \in Secret \union EnvKey \union {Null}
BY DEF TypeOK, Effective, FromEnvironment, KeyFromEnvironment, Content, Setting, Key, Environment

LEMMA MaskedTyped ==
  ASSUME TypeOK, epoch # 0, NEW c \in Content, c.secret # Unset
  PROVE  /\ Masked(c) \in Document
         /\ Masked(c).plain = c.plain /\ Masked(c).over = c.over
         /\ Masked(c).secret \in Token \union {Null}
         /\ Masked(c).secret = Null => c.secret = Null
<1>1. epoch \in 1 .. MaxEpoch
  BY Sentinels DEF TypeOK
<1>2. c.secret # Null => <<epoch, c.secret>> \in Token
  BY <1>1 DEF Content, Key, Token
<1>3. Null \notin Token
  BY Sentinels
<1> QED BY <1>2, <1>3 DEF Masked, Content, Document, Key

LEMMA RestoredTyped ==
  ASSUME raw \in Content, NEW c \in Content, NEW names
  PROVE  /\ Restored(c, names) \in Content
         /\ Restored(c, names).plain = c.plain
         /\ Restored(c, names).over = IF "over" \in names THEN raw.over ELSE c.over
         /\ Restored(c, names).secret = IF "secret" \in names THEN raw.secret ELSE c.secret
BY DEF Restored, Content

LEMMA OverriddenIs ==
  ASSUME NEW c
  PROVE  /\ "over" \in Overridden(c) <=> env \in EnvValue
         /\ "secret" \in Overridden(c) <=> env \in EnvKey /\ c.secret = Unset
         /\ Overridden(c) \in SUBSET {"over", "secret"}
BY DEF Overridden

\* The key of a document, and that of the file that is written for it.
DocumentKey(doc) == IF doc.secret \in Token THEN KeyFromEnvironment(raw.secret) ELSE doc.secret
CandidateKey(doc) == IF env \in EnvKey /\ raw.secret = Unset THEN Unset ELSE DocumentKey(doc)
BuiltKey(doc) == KeyFromEnvironment(CandidateKey(doc))
TextKey(doc) ==
  IF env \in EnvKey /\ CandidateKey(doc) = Unset THEN raw.secret
  ELSE IF BuiltKey(doc) = Null THEN Unset ELSE BuiltKey(doc)

LEMMA FileTextIs ==
  ASSUME TypeOK, raw \in Content, NEW doc \in Document
  PROVE  /\ FileText(doc) \in Content
         /\ FileText(doc).plain = doc.plain
         /\ FileText(doc).over = IF env \in EnvValue THEN raw.over ELSE doc.over
         /\ FileText(doc).secret = TextKey(doc)
<1> DEFINE unmasked == Unmasked(doc)
           candidate == Candidate(doc)
           built == Effective(Candidate(doc))
           minimal == Minimal(built)
<1>0. Effective(raw).secret = KeyFromEnvironment(raw.secret) /\ Effective(raw).secret \in Secret \union EnvKey \union {Null}
  BY EffectiveTyped
<1>1. /\ unmasked \in Content /\ unmasked.plain = doc.plain /\ unmasked.over = doc.over
      /\ unmasked.secret = DocumentKey(doc)
  BY <1>0 DEF Unmasked, Document, Content, Key, DocumentKey
<1>2. /\ candidate \in Content /\ candidate.plain = doc.plain
      /\ candidate.over = IF env \in EnvValue THEN raw.over ELSE doc.over
      /\ candidate.secret = CandidateKey(doc)
  <2> HIDE DEF unmasked
  <2>1. candidate = Restored(unmasked, Overridden(raw))
    BY DEF Candidate, unmasked
  <2> HIDE DEF candidate
  <2> QED BY <1>1, <2>1, RestoredTyped, OverriddenIs DEF CandidateKey
<1> HIDE DEF unmasked, candidate
<1>3. /\ built \in Content /\ built.plain = doc.plain
      /\ env \notin EnvValue => built.over = doc.over
      /\ built.secret = BuiltKey(doc)
  <2>1. built = Effective(candidate)
    BY DEF candidate
  <2> HIDE DEF built
  <2> QED BY <1>2, <2>1, EffectiveTyped DEF BuiltKey
<1> HIDE DEF built
<1>4. /\ minimal \in Content /\ minimal.plain = built.plain /\ minimal.over = built.over
      /\ minimal.secret = IF built.secret = Null THEN Unset ELSE built.secret
  BY <1>3 DEF Minimal, Content, Key
<1>5. FileText(doc) = Restored(minimal, Overridden(candidate))
  BY DEF FileText, minimal, built, candidate
<1> HIDE DEF minimal
<1> QED BY <1>2, <1>3, <1>4, <1>5, RestoredTyped, OverriddenIs DEF TextKey

LEMMA OwnIsContent == Own \subseteq Content /\ Own \subseteq Document
BY DEF Own, Content, Document

\* What a page holds when it shows some content.
LEMMA OpenedIs ==
  ASSUME TypeOK, epoch # 0, NEW content \in Content
  PROVE  /\ Opened(content) \in PageState
         /\ Opened(content).shown = Masked(Effective(content))
         /\ Opened(content).shown.plain = content.plain
         /\ Opened(content).shown.over = IF env \in EnvValue THEN env ELSE content.over
         /\ Opened(content).shown.secret \in Token \union {Null}
         /\ Opened(content).shown.secret = Null => KeyFromEnvironment(content.secret) = Null
         /\ Opened(content).draft = None /\ Opened(content).seen = env
         /\ Opened(content).basis \in {content, None}
<1> DEFINE built == Effective(content)
           shown == Masked(built)
<1>1. /\ built \in Content /\ built.plain = content.plain
      /\ built.over = IF env \in EnvValue THEN env ELSE content.over
      /\ built.secret = KeyFromEnvironment(content.secret)
      /\ built.secret \in Secret \union EnvKey \union {Null}
  BY EffectiveTyped
<1>2. built.secret # Unset
  BY <1>1, Sentinels
<1> HIDE DEF built
<1>3. /\ shown \in Document /\ shown.plain = built.plain /\ shown.over = built.over
      /\ shown.secret \in Token \union {Null}
      /\ shown.secret = Null => built.secret = Null
  BY <1>1, <1>2, MaskedTyped
<1> HIDE DEF shown
<1>4. Opened(content) = [shown |-> shown, etag |-> file, locked |-> Overridden(content), draft |-> None,
                         basis |-> IF file = content THEN file ELSE None, seen |-> env]
  BY DEF Opened, shown, built
<1>5. Opened(content) \in PageState
  BY <1>3, <1>4, OverriddenIs DEF PageState, TypeOK
<1> QED BY <1>1, <1>3, <1>4, <1>5 DEF shown, built

LEMMA TemplateTyped == Template \in Content /\ Template.over = Unset /\ Template.secret = Unset
<1>1. \E x \in Plain \ Rejected : TRUE
  BY Sentinels
<1>2. (CHOOSE x \in Plain \ Rejected : TRUE) \in Plain
  BY <1>1
<1> QED BY <1>2 DEF Template, Content, Setting, Key
-----------------------------------------------------------------------------
(* Types, and the stages of a write.  The types need to know that a write has
   a text and that the file is there when it is loaded. *)

JobOK ==
  /\ Up \/ job = Idle
  /\ job.at # "idle" => job.text \in Content
  /\ job.at = "copy" => job.old = file /\ file # Missing
  /\ job.at = "replace" => file = Missing \/ backup = file
  /\ job.at = "load" => file \in Content

Base == TypeOK /\ (Up => epoch # 0) /\ JobOK

LEMMA InitBase == Init => Base
<1> SUFFICES ASSUME Init PROVE Base
  OBVIOUS
<1>1. TypeOK
  <2>1. 0 \in 0 .. MaxEpoch /\ 0 \in 0 .. MaxChanges
    BY Sentinels
  <2>2. Idle \in [at: {"idle", "backup", "copy", "replace", "load"}, by: Page \union {Nobody},
                  text: Content \union {None}, old: Content \union {Missing, None}]
    BY DEF Idle
  <2> QED BY <2>1, <2>2 DEF Init, TypeOK, Environment
<1> QED BY <1>1 DEF Init, Base, JobOK, Idle, Up

\* Steps of pages that begin no write.
LEMMA PageBase ==
  ASSUME Base, page' \in [Page -> PageState \union {Closed}], UNCHANGED <<disk, server, job, changes, exposed>>
  PROVE  Base'
BY DEF Base, TypeOK, JobOK, Up, disk, server

\* Steps that begin a write.
LEMMA BeginBase ==
  ASSUME Base, Up, job = Idle, NEW who \in Page \union {Nobody}, NEW text \in Content,
         Begin(who, text), Mint(MaxChanges), exposed' \in BOOLEAN, UNCHANGED <<disk, server, page>>
  PROVE  Base'
<1>1. changes' \in 0 .. MaxChanges
  BY Sentinels DEF Base, TypeOK, Mint
<1> QED BY <1>1 DEF Base, TypeOK, JobOK, Up, disk, server, Begin

LEMMA StartBase == ASSUME Base, Start PROVE Base'
<1>1. file' \in Content /\ raw' \in Content /\ job = Idle
  BY TemplateTyped DEF Base, TypeOK, JobOK, Start
<1>2. env' \in Environment /\ epoch' \in 0 .. MaxEpoch /\ epoch' # 0
  BY Sentinels DEF Base, TypeOK, Start
<1>3. raw' # Down
  BY <1>1, Sentinels
<1> QED BY <1>1, <1>2, <1>3 DEF Base, TypeOK, JobOK, Start, Idle, Up

LEMMA FetchBase == ASSUME Base, NEW c \in Page, Fetch(c) PROVE Base'
<1>1. raw \in Content /\ epoch # 0
  BY DEF Base, TypeOK, Fetch, Up
<1>2. Opened(raw) \in PageState
  BY <1>1, OpenedIs DEF Base
<1>3. Overridden(raw) \in SUBSET {"over", "secret"}
  BY OverriddenIs
<1>4. Editing(c) => [page[c] EXCEPT !.etag = file, !.locked = Overridden(raw)] \in PageState
  <2>1. Editing(c) => page[c] \in PageState
    BY DEF Editing, Base, TypeOK
  <2>2. file \in Content \union {Missing}
    BY DEF Base, TypeOK
  <2> QED BY <1>3, <2>1, <2>2 DEF PageState
<1>5. page' \in [Page -> PageState \union {Closed}]
  BY <1>2, <1>4 DEF Fetch, Base, TypeOK
<1> QED BY <1>5, PageBase DEF Fetch

LEMMA ChangeBase == ASSUME Base, NEW c \in Page, NEW to \in Document, Change(c, to) PROVE Base'
<1>1. [page[c] EXCEPT !.draft = to] \in PageState
  BY DEF Change, PageState, Base, TypeOK
<1>2. page' \in [Page -> PageState \union {Closed}]
  BY <1>1 DEF Change, Base, TypeOK
<1> QED BY <1>2, PageBase DEF Change

LEMMA SaveBase == ASSUME Base, NEW c \in Page, Save(c) PROVE Base'
<1> DEFINE doc == page[c].draft
<1>1. raw \in Content /\ doc \in Document
  BY DEF Base, TypeOK, Save, Up, PageState
<1>2. FileText(doc) \in Content
  BY <1>1, FileTextIs DEF Base
<1>3. CASE Begin(c, FileText(doc)) /\ exposed' = (exposed \/ FallsBack(doc) \/ page[c].seen # env)
  <2>1. exposed' \in BOOLEAN
    BY <1>3 DEF Base, TypeOK
  <2> QED BY <1>2, <1>3, <2>1, BeginBase DEF Save
<1>4. CASE UNCHANGED <<job, exposed>>
  <2>1. changes' \in 0 .. MaxChanges
    BY Sentinels DEF Base, TypeOK, Mint, Save
  <2> QED BY <1>4, <2>1 DEF Base, TypeOK, JobOK, Up, disk, server, Save
<1> QED BY <1>3, <1>4 DEF Save

LEMMA WriteBase == ASSUME Base, WriteStep PROVE Base'
<1>1. CASE TruncateBackup
  <2>1. /\ job' \in [at: {"idle", "backup", "copy", "replace", "load"}, by: Page \union {Nobody},
                    text: Content \union {None}, old: Content \union {Missing, None}]
        /\ job'.at = IF file = Missing THEN "replace" ELSE "copy"
        /\ job'.text = job.text /\ job'.old = file
    BY <1>1 DEF TruncateBackup, Base, TypeOK
  <2>2. job.at # "idle" /\ Up
    BY <1>1 DEF TruncateBackup, Base, JobOK, Idle
  <2> QED BY <1>1, <2>1, <2>2 DEF TruncateBackup, Base, TypeOK, JobOK, Up, server
<1>2. CASE FillBackup
  BY <1>2 DEF FillBackup, Base, TypeOK, JobOK, Up, server, Idle
<1>3. CASE Replace
  BY <1>3 DEF Replace, Base, TypeOK, JobOK, Up, server, Idle
<1>4. CASE FailWrite
  BY <1>4 DEF FailWrite, Base, TypeOK, JobOK, Up, server, disk, Idle
<1>5. CASE Finish
  <2>1. file \in Content /\ epoch # 0 /\ raw' = file /\ job' = Idle
    BY <1>5 DEF Finish, Base, JobOK, Idle
  <2>3. Opened(file) \in PageState
    BY <2>1, OpenedIs DEF Base
  <2>4. page' \in [Page -> PageState \union {Closed}]
    BY <1>5, <2>3 DEF Finish, Base, TypeOK
  <2>5. raw' # Down
    BY <2>1, Sentinels
  <2>6. Idle \in [at: {"idle", "backup", "copy", "replace", "load"}, by: Page \union {Nobody},
                  text: Content \union {None}, old: Content \union {Missing, None}]
    BY DEF Idle
  <2>7. TypeOK'
    BY <1>5, <2>1, <2>4, <2>6 DEF Finish, Base, TypeOK, disk
  <2>8. JobOK'
    BY <2>1, <2>5 DEF JobOK, Up, Idle
  <2> QED BY <1>5, <2>1, <2>7, <2>8 DEF Finish, Base
<1> QED BY <1>1, <1>2, <1>3, <1>4, <1>5 DEF WriteStep

LEMMA OthersBase ==
  ASSUME Base, NEW text \in Own \union {Missing},
         \/ text # Missing /\ (SaveByScript(text) \/ Import(text))
         \/ EditByHand(text)
  PROVE  Base'
<1>1. CASE SaveByScript(text) /\ text # Missing
  <2>1. raw \in Content /\ text \in Document /\ exposed' \in BOOLEAN
    BY <1>1, OwnIsContent DEF SaveByScript, Up, Base, TypeOK
  <2>2. FileText(text) \in Content
    BY <2>1, FileTextIs DEF Base
  <2> QED BY <1>1, <2>1, <2>2, BeginBase DEF SaveByScript
<1>2. CASE Import(text) /\ text # Missing
  <2>1. text \in Content /\ exposed' \in BOOLEAN
    BY <1>2, OwnIsContent DEF Import, Base, TypeOK
  <2> QED BY <1>2, <2>1, BeginBase DEF Import
<1>3. CASE EditByHand(text)
  <2>1. changes' \in 0 .. MaxChanges
    BY <1>3, Sentinels DEF Base, TypeOK, Mint, EditByHand
  <2> QED BY <1>3, <2>1, OwnIsContent DEF EditByHand, Base, TypeOK, JobOK, Up, server, Idle
<1> QED BY <1>1, <1>2, <1>3

LEMMA KillBase == ASSUME Base, Kill PROVE Base'
BY DEF Kill, Base, TypeOK, JobOK, Up, Idle

\* The values that are not Missing.
LEMMA ContentIsThere == Missing \notin Content /\ Missing \notin Own
BY Sentinels, OwnIsContent

LEMMA NextBase == Base /\ [Next]_vars => Base'
<1> SUFFICES ASSUME Base, [Next]_vars PROVE Base'
  OBVIOUS
<1>1. CASE Start BY <1>1, StartBase
<1>2. CASE Kill BY <1>2, KillBase
<1>3. CASE PageStep
  <2>1. PICK c \in Page : Fetch(c) \/ Leave(c) \/ Save(c) \/ \E to \in Document : Change(c, to)
    BY <1>3 DEF PageStep
  <2>2. CASE Leave(c)
    <3>1. page' \in [Page -> PageState \union {Closed}]
      BY <2>2 DEF Leave, Base, TypeOK
    <3> QED BY <2>2, <3>1, PageBase DEF Leave
  <2> QED BY <2>1, <2>2, FetchBase, SaveBase, ChangeBase
<1>4. CASE OtherWriter
  BY <1>4, OthersBase, ContentIsThere DEF OtherWriter
<1>5. CASE Delete BY <1>5, OthersBase DEF Delete
<1>6. CASE WriteStep BY <1>6, WriteBase
<1>7. CASE UNCHANGED vars
  BY <1>7 DEF vars, Base, TypeOK, JobOK, Up
<1> QED BY <1>1, <1>2, <1>3, <1>4, <1>5, <1>6, <1>7 DEF Next

\* The types, and the stages of a write.
THEOREM WritesAreTyped == Spec => []Base
<1>1. Init => Base BY InitBase
<1>2. Base /\ [Next]_vars => Base' BY NextBase
<1> QED BY <1>1, <1>2, PTL DEF Spec
-----------------------------------------------------------------------------
(* The backup. *)

\* Whatever a write replaces is in the backup, whole, before it is gone, also
\* when the write is cut off (_write_text).
THEOREM BackupIsComplete == Spec => ReplacedIsBackedUp
<1>1. Base /\ [Next]_vars =>
        [job.at = "replace" /\ job'.at = "load" /\ file # Missing => backup = file]_vars
  BY DEF Base, JobOK
<1> QED BY <1>1, WritesAreTyped, PTL DEF Spec, ReplacedIsBackedUp
-----------------------------------------------------------------------------
(* Changes of others.  While a page's save is under way it is not refetched, and
   no file changes under the save. *)

WriterIsCurrent ==
  \A c \in Page : job.by = c /\ job.at \in {"backup", "copy", "replace"} =>
     page[c] # Closed /\ file = page[c].etag

Kept == Base /\ WriterIsCurrent

\* Steps of a page that begin no write.
LEMMA PageKept ==
  ASSUME Kept, NEW c \in Page, Fetch(c) \/ Leave(c) \/ (\E to \in Document : Change(c, to))
  PROVE  WriterIsCurrent'
<1>1. job.by # c /\ UNCHANGED <<file, job>> /\ page \in [Page -> PageState \union {Closed}]
  BY DEF Fetch, Leave, Change, Kept, Base, TypeOK, disk
<1>2. \A d \in Page \ {c} : page'[d] = page[d]
  BY <1>1 DEF Fetch, Leave, Change
<1> QED BY <1>1, <1>2 DEF Kept, WriterIsCurrent

\* Steps that leave the pages alone and either do not touch the file under a
\* write, or leave no write that could replace it.
LEMMA OtherKept ==
  ASSUME Kept, UNCHANGED page,
         \/ job'.by \notin Page \/ job'.at \notin {"backup", "copy", "replace"}
         \/ job'.by = job.by /\ job.at \in {"backup", "copy", "replace"} /\ UNCHANGED file
  PROVE  WriterIsCurrent'
BY DEF Kept, WriterIsCurrent

LEMMA WriteKept == ASSUME Kept, WriteStep PROVE WriterIsCurrent'
<1>1. job \in [at: {"idle", "backup", "copy", "replace", "load"}, by: Page \union {Nobody},
              text: Content \union {None}, old: Content \union {Missing, None}]
  BY DEF Kept, Base, TypeOK
<1>2. CASE TruncateBackup \/ FillBackup
  <2>1. /\ job'.by = job.by /\ job.at \in {"backup", "copy", "replace"}
        /\ UNCHANGED <<file, page>>
    BY <1>1, <1>2 DEF TruncateBackup, FillBackup
  <2> QED BY <2>1, OtherKept
<1>3. CASE Replace \/ FailWrite
  <2>1. job'.at \notin {"backup", "copy", "replace"} /\ UNCHANGED page
    BY <1>1, <1>3 DEF Replace, FailWrite, Idle
  <2> QED BY <2>1, OtherKept
<1>4. CASE Finish
  BY <1>4 DEF Finish, Idle, WriterIsCurrent
<1> QED BY <1>2, <1>3, <1>4 DEF WriteStep

LEMMA NextKept == ASSUME Kept, [Next]_vars PROVE Kept'
<1>1. Base'
  BY NextBase DEF Kept
<1>2. WriterIsCurrent'
  <2>1. Idle.by = Nobody /\ Idle.at = "idle" /\ Nobody \notin Page
    BY Sentinels DEF Idle
  <2>2. CASE Start
    <3>1. job = Idle /\ UNCHANGED <<page, job>>
      BY <2>2 DEF Start, Kept, Base, JobOK
    <3> QED BY <2>1, <3>1, OtherKept
  <2>3. CASE Kill
    BY <2>1, <2>3, OtherKept DEF Kill
  <2>4. CASE PageStep
    <3>1. PICK c \in Page : Fetch(c) \/ Leave(c) \/ Save(c) \/ \E to \in Document : Change(c, to)
      BY <2>4 DEF PageStep
    <3>2. CASE Save(c)
      <4>1. UNCHANGED <<page, file>> /\ page[c] # Closed
        BY <3>2 DEF Save, disk
      <4>2. CASE UNCHANGED job
        BY <4>1, <4>2 DEF Kept, WriterIsCurrent
      <4>3. CASE EtagMatches(page[c].etag) /\ Begin(c, FileText(page[c].draft))
        BY <4>1, <4>3 DEF WriterIsCurrent, Begin, EtagMatches
      <4> QED BY <3>2, <4>2, <4>3 DEF Save
    <3> QED BY <3>1, <3>2, PageKept
  <2>5. CASE OtherWriter \/ Delete
    <3>1. UNCHANGED page /\ job'.by = Nobody
      BY <2>1, <2>5 DEF OtherWriter, Delete, SaveByScript, Import, EditByHand, Begin
    <3> QED BY <2>1, <3>1, OtherKept
  <2>6. CASE WriteStep
    BY <2>6, WriteKept
  <2>7. CASE UNCHANGED vars
    BY <2>7 DEF vars, Kept, WriterIsCurrent
  <2> QED BY <2>2, <2>3, <2>4, <2>5, <2>6, <2>7 DEF Next
<1> QED BY <1>1, <1>2 DEF Kept

\* A save of a page replaces only the version of the file that the page fetched
\* last: what others wrote since then makes it a conflict (save, etag).
THEOREM UnseenChangesAreNotReplaced == Spec => UnseenChangesAreKept
<1>1. Init => Kept
  BY InitBase, Sentinels DEF Kept, Init, WriterIsCurrent, Idle
<1>2. Kept /\ [Next]_vars => Kept'
  BY NextKept
<1>3. Kept /\ [Next]_vars => [\A c \in Page : ReplacedBy(c) => file = page[c].etag]_vars
  BY DEF Kept, WriterIsCurrent, ReplacedBy
<1> QED BY <1>1, <1>2, <1>3, PTL DEF Spec, UnseenChangesAreKept
-----------------------------------------------------------------------------
(* The environment.  Its values reach the pages, so it has to be known in which
   environment a page was opened, and that its keys are there as tokens only. *)

PageIsOwn(c) ==
  page[c] # Closed =>
    /\ page[c].seen \notin EnvValue =>
         /\ page[c].shown.over \notin EnvValue
         /\ page[c].draft # None => page[c].draft.over \notin EnvValue
    /\ page[c].shown.secret \in Token \union Key
    /\ page[c].draft # None => page[c].draft.secret \in Token \union Key

DiskIsOwn ==
  /\ file # Missing => ~HasEnvironment(file)
  /\ backup \notin {Missing, Torn} => ~HasEnvironment(backup)

ServerIsOwn ==
  /\ Up => ~HasEnvironment(raw)
  /\ job.at # "idle" => ~HasEnvironment(job.text)

IsOwn == DiskIsOwn /\ ServerIsOwn /\ \A c \in Page : PageIsOwn(c)
OutInv == Base /\ (~exposed => IsOwn)

LEMMA OwnHasNone == \A text \in Own : ~HasEnvironment(text)
BY Sentinels DEF Setting, Key, Own, HasEnvironment

\* What is written for a document without values of the environment.
LEMMA TextIsOwn ==
  ASSUME TypeOK, raw \in Content, ~HasEnvironment(raw), NEW doc \in Document, ~FallsBack(doc),
         doc.secret \in Token \union Key, env \notin EnvValue => doc.over \notin EnvValue,
         Known(doc)
  PROVE  ~HasEnvironment(FileText(doc))
<1>1. /\ FileText(doc).over = IF env \in EnvValue THEN raw.over ELSE doc.over
      /\ FileText(doc).secret = TextKey(doc)
  BY FileTextIs
<1>2. FileText(doc).over \notin EnvValue
  BY <1>1 DEF HasEnvironment
<1>3. raw.secret \in Key /\ Unset \notin EnvKey
  BY Sentinels DEF HasEnvironment, Content
<1>4. /\ Key \cap EnvKey = {} /\ Unset # Null /\ Unset \notin Token
      /\ Unset \notin Secret /\ Null \notin Secret
  BY Sentinels DEF Key
<1>5. CASE env \notin EnvKey
  <2>1. KeyFromEnvironment(raw.secret) \in Key
    BY <1>3, <1>5 DEF KeyFromEnvironment, Key
  <2>2. DocumentKey(doc) \in Key
    BY <2>1 DEF DocumentKey
  <2>3. CandidateKey(doc) \in Key
    BY <1>5, <2>2 DEF CandidateKey
  <2>4. BuiltKey(doc) \in Key
    BY <1>5, <2>3 DEF BuiltKey, KeyFromEnvironment, Key
  <2>5. TextKey(doc) \in Key
    BY <1>5, <2>4 DEF TextKey, Key
  <2> QED BY <1>1, <1>2, <1>4, <2>5 DEF HasEnvironment
<1>6. CASE env \in EnvKey
  <2>1. raw.secret # Null /\ doc.secret # Null
    BY <1>6 DEF FallsBack
  <2>2. CASE raw.secret = Unset
    <3>1. TextKey(doc) = Unset
      BY <1>6, <2>2 DEF TextKey, CandidateKey
    <3> QED BY <1>1, <1>2, <1>3, <3>1 DEF HasEnvironment
  <2>3. CASE raw.secret # Unset
    <3>1. DocumentKey(doc) \in Secret \union {Unset}
      BY <1>3, <2>1, <2>3 DEF DocumentKey, KeyFromEnvironment, Key
    <3>2. CandidateKey(doc) \in Secret \union {Unset}
      BY <2>3, <3>1 DEF CandidateKey
    <3>3. TextKey(doc) \in Key
      <4>1. CASE CandidateKey(doc) = Unset
        BY <1>3, <1>6, <4>1 DEF TextKey
      <4>2. CASE CandidateKey(doc) \in Secret
        BY <1>4, <4>2 DEF TextKey, BuiltKey, KeyFromEnvironment, Key
      <4> QED BY <3>2, <4>1, <4>2
    <3> QED BY <1>1, <1>2, <1>4, <3>3 DEF HasEnvironment
  <2> QED BY <2>2, <2>3
<1> QED BY <1>5, <1>6

\* Steps that change one page.
LEMMA PageOut ==
  ASSUME IsOwn, NEW c \in Page, PageIsOwn(c)', UNCHANGED <<file, backup, raw, job>>,
         \A d \in Page \ {c} : page'[d] = page[d]
  PROVE  IsOwn'
BY DEF IsOwn, DiskIsOwn, ServerIsOwn, PageIsOwn, Up

\* A page that shows content without values of the environment.
LEMMA OpenedIsOwn ==
  ASSUME TypeOK, epoch # 0, NEW content \in Content, ~HasEnvironment(content)
  PROVE  /\ Opened(content).seen \notin EnvValue => Opened(content).shown.over \notin EnvValue
         /\ Opened(content).shown.secret \in Token \union Key
         /\ Opened(content).draft = None
BY OpenedIs DEF HasEnvironment, Key

LEMMA FetchOut == ASSUME Base, IsOwn, NEW c \in Page, Fetch(c) PROVE IsOwn'
<1>1. /\ page \in [Page -> PageState \union {Closed}] /\ UNCHANGED <<file, backup, raw, env, epoch, job>>
      /\ raw \in Content /\ epoch # 0 /\ TypeOK /\ ~HasEnvironment(raw)
  BY DEF Fetch, Base, TypeOK, disk, server, Up, IsOwn, ServerIsOwn
<1>2. \A d \in Page \ {c} : page'[d] = page[d]
  BY <1>1 DEF Fetch
<1>3. CASE Editing(c)
  <2>1. page[c] \in PageState /\ page[c] # Closed
    BY <1>1, <1>3 DEF Editing
  <2>2. /\ page'[c].shown = page[c].shown /\ page'[c].draft = page[c].draft
        /\ page'[c].seen = page[c].seen
    BY <1>1, <1>3, <2>1 DEF Fetch, PageState
  <2>3. PageIsOwn(c)'
    BY <1>1, <2>1, <2>2 DEF IsOwn, PageIsOwn
  <2> QED BY <1>1, <1>2, <2>3, PageOut
<1>4. CASE ~Editing(c)
  <2>1. page'[c] = Opened(raw)
    BY <1>1, <1>4 DEF Fetch
  <2>2. PageIsOwn(c)'
    BY <1>1, <2>1, OpenedIsOwn DEF PageIsOwn
  <2> QED BY <1>1, <1>2, <2>2, PageOut
<1> QED BY <1>3, <1>4

LEMMA ChangeOut == ASSUME Base, IsOwn, NEW c \in Page, NEW to \in Document, Change(c, to) PROVE IsOwn'
<1>1. /\ page \in [Page -> PageState \union {Closed}] /\ UNCHANGED <<file, backup, raw, env, epoch, job>>
      /\ page[c] # Closed
  BY DEF Change, Base, TypeOK, disk, server
<1>2. page'[c] = [page[c] EXCEPT !.draft = to] /\ \A d \in Page \ {c} : page'[d] = page[d]
  BY <1>1 DEF Change
<1>3. page'[c].shown = page[c].shown /\ page'[c].draft = to /\ page'[c].seen = page[c].seen
  BY <1>1, <1>2 DEF PageState
<1> DEFINE old == IF page[c].draft = None THEN page[c].shown ELSE page[c].draft
<1>4. /\ to.over = old.over \/ to.over \in Setting
      /\ to.secret = old.secret \/ to.secret \in Secret \union {Null}
  BY DEF Change
<1>5. /\ page[c].seen \notin EnvValue => old.over \notin EnvValue
      /\ old.secret \in Token \union Key
  BY <1>1 DEF IsOwn, PageIsOwn
<1>6. Setting \cap EnvValue = {}
  BY Sentinels DEF Setting
<1>7. PageIsOwn(c)'
  <2> HIDE DEF old
  <2>1. page[c].seen \notin EnvValue => to.over \notin EnvValue
    BY <1>4, <1>5, <1>6
  <2>2. to.secret \in Token \union Key
    BY <1>4, <1>5 DEF Key
  <2> QED BY <1>1, <1>3, <2>1, <2>2 DEF IsOwn, PageIsOwn
<1> QED BY <1>1, <1>2, <1>7, PageOut

LEMMA SaveOut == ASSUME Base, IsOwn, NEW c \in Page, Save(c), ~exposed' PROVE IsOwn'
<1> DEFINE doc == page[c].draft
<1>1. /\ raw \in Content /\ ~HasEnvironment(raw) /\ doc \in Document /\ TypeOK
      /\ UNCHANGED <<file, backup, raw, env, epoch, page>> /\ page[c] # Closed /\ doc # None
  BY DEF IsOwn, ServerIsOwn, Base, TypeOK, Save, Up, PageState, disk, server
<1>2. ASSUME Known(doc), ~FallsBack(doc), page[c].seen = env
      PROVE  ~HasEnvironment(FileText(doc))
  BY <1>1, <1>2, TextIsOwn DEF IsOwn, PageIsOwn
<1>3. job' = job \/ (job'.text = FileText(doc) /\ ~HasEnvironment(FileText(doc)))
  <2>1. CASE /\ Known(doc) /\ Begin(c, FileText(doc))
             /\ exposed' = (exposed \/ FallsBack(doc) \/ page[c].seen # env)
    <3>1. ~FallsBack(doc) /\ page[c].seen = env
      BY <2>1, Zenon
    <3> QED BY <1>2, <2>1, <3>1 DEF Begin
  <2>2. CASE UNCHANGED <<job, exposed>>
    BY <2>2
  <2> QED BY <2>1, <2>2 DEF Save
<1>4. ServerIsOwn'
  BY <1>1, <1>3 DEF IsOwn, ServerIsOwn, Up
<1> QED BY <1>1, <1>4 DEF IsOwn, DiskIsOwn, PageIsOwn

LEMMA OthersOut == ASSUME Base, IsOwn, OtherWriter \/ Delete, ~exposed' PROVE IsOwn'
<1>1. UNCHANGED <<backup, raw, env, epoch, page>>
  BY DEF OtherWriter, Delete, SaveByScript, Import, EditByHand, disk, server
<1>2. DiskIsOwn'
  BY <1>1, OwnHasNone
     DEF IsOwn, DiskIsOwn, OtherWriter, Delete, SaveByScript, Import, EditByHand, disk
<1>3. ASSUME NEW text \in Own, SaveByScript(text) PROVE ~HasEnvironment(job'.text)
  <2>1. raw \in Content /\ text \in Document /\ ~HasEnvironment(raw) /\ TypeOK /\ ~FallsBack(text)
    BY <1>3, OwnIsContent DEF SaveByScript, Up, Base, TypeOK, IsOwn, ServerIsOwn
  <2>2. text.secret \in Key /\ text.over \notin EnvValue /\ text.secret \notin Token
    BY Sentinels DEF Own, Key, Setting
  <2>3. Known(text)
    BY <2>2 DEF Known
  <2> QED BY <1>3, <2>1, <2>2, <2>3, TextIsOwn DEF SaveByScript, Begin
<1>4. ASSUME NEW text \in Own, Import(text) PROVE ~HasEnvironment(job'.text)
  BY <1>4, OwnHasNone DEF Import, Begin
<1>5. ServerIsOwn'
  <2>1. CASE \E text \in Own : SaveByScript(text) \/ Import(text)
    BY <1>1, <1>3, <1>4, <2>1 DEF IsOwn, ServerIsOwn, Up
  <2>2. CASE UNCHANGED job
    BY <1>1, <2>2 DEF IsOwn, ServerIsOwn, Up
  <2> QED BY <2>1, <2>2 DEF OtherWriter, Delete, EditByHand
<1> QED BY <1>1, <1>2, <1>5 DEF IsOwn, PageIsOwn

LEMMA WriteOut == ASSUME Base, IsOwn, WriteStep PROVE IsOwn'
<1>1. job \in [at: {"idle", "backup", "copy", "replace", "load"}, by: Page \union {Nobody},
              text: Content \union {None}, old: Content \union {Missing, None}]
  BY DEF Base, TypeOK
<1>2. CASE Finish
  <2>1. /\ file \in Content /\ file # Missing /\ epoch # 0 /\ raw' = file /\ job'.at = "idle"
        /\ UNCHANGED <<file, backup, env, epoch>> /\ TypeOK
    BY <1>2, ContentIsThere DEF Finish, Base, JobOK, Idle, disk
  <2>2. DiskIsOwn' /\ ServerIsOwn' /\ ~HasEnvironment(file)
    BY <2>1 DEF IsOwn, DiskIsOwn, ServerIsOwn
  <2> DEFINE opened == Opened(file)
  <2>3. /\ opened.seen \notin EnvValue => opened.shown.over \notin EnvValue
        /\ opened.shown.secret \in Token \union Key
        /\ opened.draft = None
    BY <2>1, <2>2, OpenedIsOwn
  <2>4. \A d \in Page : page'[d] = page[d] \/ page'[d] = opened
    BY <1>1, <1>2 DEF Finish, Base, TypeOK
  <2> HIDE DEF opened
  <2>5. \A d \in Page : PageIsOwn(d)'
    BY <2>3, <2>4 DEF IsOwn, PageIsOwn
  <2> QED BY <2>2, <2>5 DEF IsOwn
<1>3. CASE ~Finish
  <2>1. /\ UNCHANGED <<raw, page>>
        /\ job'.at # "idle" => job'.text = job.text /\ job.at # "idle"
    <3>1. CASE FailWrite
      BY <3>1 DEF FailWrite, Idle, server
    <3>2. CASE TruncateBackup
      BY <1>1, <3>2 DEF TruncateBackup, server
    <3>3. CASE FillBackup
      BY <1>1, <3>3 DEF FillBackup, server
    <3>4. CASE Replace
      BY <1>1, <3>4 DEF Replace, server
    <3> QED BY <1>3, <3>1, <3>2, <3>3, <3>4 DEF WriteStep
  <2>2. ServerIsOwn' /\ \A d \in Page : PageIsOwn(d)'
    BY <2>1 DEF IsOwn, ServerIsOwn, PageIsOwn, Up
  <2>3. DiskIsOwn'
    BY <1>3 DEF WriteStep, TruncateBackup, FillBackup, Replace, FailWrite, disk,
                IsOwn, DiskIsOwn, ServerIsOwn, Base, JobOK
  <2> QED BY <2>2, <2>3 DEF IsOwn
<1> QED BY <1>2, <1>3

LEMMA StartOut == ASSUME Base, IsOwn, Start PROVE IsOwn'
<1>1. ~HasEnvironment(Template)
  BY TemplateTyped, Sentinels DEF HasEnvironment
<1>2. DiskIsOwn' /\ ~HasEnvironment(file')
  BY <1>1 DEF Start, IsOwn, DiskIsOwn
<1>3. ServerIsOwn'
  BY <1>2 DEF Start, IsOwn, ServerIsOwn, Up
<1>4. \A d \in Page : PageIsOwn(d)'
  BY DEF Start, IsOwn, PageIsOwn
<1> QED BY <1>2, <1>3, <1>4 DEF IsOwn

LEMMA NextOut == ASSUME OutInv, [Next]_vars PROVE OutInv'
<1>1. Base'
  BY NextBase DEF OutInv
<1>2. ASSUME ~exposed' PROVE IsOwn'
  <2>1. ~exposed
    <3>1. exposed => exposed'
      BY DEF Next, vars, Start, Kill, PageStep, OtherWriter, Delete, WriteStep, Fetch, Change, Leave, Save,
             SaveByScript, Import, EditByHand, TruncateBackup, FillBackup, Replace, FailWrite, Finish
    <3> QED BY <1>2, <3>1
  <2>2. Base /\ IsOwn
    BY <2>1 DEF OutInv
  <2>3. CASE Kill
    BY <2>2, <2>3 DEF Kill, Idle, IsOwn, DiskIsOwn, ServerIsOwn, PageIsOwn, Up
  <2>4. CASE PageStep
    <3>1. PICK c \in Page : Fetch(c) \/ Leave(c) \/ Save(c) \/ \E to \in Document : Change(c, to)
      BY <2>4 DEF PageStep
    <3>2. CASE Leave(c)
      <4>1. PageIsOwn(c)' /\ \A d \in Page \ {c} : page'[d] = page[d]
        BY <2>2, <3>2 DEF Leave, Base, TypeOK, PageIsOwn
      <4> QED BY <2>2, <3>2, <4>1, PageOut DEF Leave, disk, server
    <3> QED BY <1>2, <2>2, <3>1, <3>2, FetchOut, SaveOut, ChangeOut
  <2>5. CASE UNCHANGED vars
    BY <2>2, <2>5 DEF vars, IsOwn, DiskIsOwn, ServerIsOwn, PageIsOwn, Up
  <2> QED BY <1>2, <2>2, <2>3, <2>4, <2>5, StartOut, OthersOut, WriteOut DEF Next
<1> QED BY <1>1, <1>2 DEF OutInv

\* What the environment provides is never written to the file or its backup,
\* unless a key was null when a save was computed, or a page was saved in another
\* environment than that of its document (config_to_file_data).
THEOREM EnvironmentIsNotStored == Spec => []EnvironmentStaysOut
<1>1. Init => OutInv
  BY InitBase, Sentinels DEF OutInv, IsOwn, Init, DiskIsOwn, ServerIsOwn, PageIsOwn, Idle, Up
<1>2. OutInv /\ [Next]_vars => OutInv'
  BY NextOut
<1>3. OutInv => EnvironmentStaysOut
  BY DEF OutInv, IsOwn, DiskIsOwn, EnvironmentStaysOut
<1> QED BY <1>1, <1>2, <1>3, PTL DEF Spec
-----------------------------------------------------------------------------
(* Settings that were not edited.  A page shows the file it was opened with,
   the secret as a token and the environment in the place of what it overrides;
   a write takes back both, from what the server loaded. *)

\* _api_key_from_env in an environment e.
KeyIn(key, e) == IF key \notin {Unset, Null} THEN key ELSE IF e \in EnvKey THEN e ELSE Null

\* What a document shows of a file in an environment e.
Copies(shown, content, e) ==
  /\ shown.plain = content.plain
  /\ shown.over = IF e \in EnvValue THEN e ELSE content.over
  /\ shown.secret = Null => KeyIn(content.secret, e) = Null
  /\ shown.secret \in Token \union {Null}

\* The key that is written for a document if its key is shown as it is, and r is
\* loaded.
KeyWritten(doc, e, r) ==
  IF e \in EnvKey /\ r.secret = Unset THEN Unset
  ELSE LET built == KeyIn(IF doc.secret \in Token THEN KeyIn(r.secret, e) ELSE doc.secret, e)
       IN IF built = Null THEN Unset ELSE built

\* What is written for a document if r is loaded.
TextIs(text, doc, e, r) ==
  /\ text.plain = doc.plain
  /\ text.over = IF e \in EnvValue THEN r.over ELSE doc.over
  /\ doc.secret \in Token \union {Null} => text.secret = KeyWritten(doc, e, r)

Shows(p) == p # Closed /\ p.basis # None => p.basis \in Content /\ Copies(p.shown, p.basis, p.seen)

Writes(j, p, c, e, r) ==
  j.by = c /\ j.at \in {"backup", "copy", "replace"} => p.draft # None /\ TextIs(j.text, p.draft, e, r)

PagesShow == \A c \in Page : Shows(page[c])
WriterSaves == \A c \in Page : Writes(job, page[c], c, env, raw)
EditInv == Kept /\ PagesShow /\ WriterSaves

LEMMA OpenedShows ==
  ASSUME TypeOK, epoch # 0, NEW content \in Content
  PROVE  Shows(Opened(content))
<1> DEFINE p == Opened(content)
<1>1. /\ p.shown.plain = content.plain
      /\ p.shown.over = IF env \in EnvValue THEN env ELSE content.over
      /\ p.shown.secret \in Token \union {Null}
      /\ p.shown.secret = Null => KeyFromEnvironment(content.secret) = Null
      /\ p.seen = env /\ p.basis \in {content, None}
  BY OpenedIs
<1>2. KeyFromEnvironment(content.secret) = KeyIn(content.secret, env)
  BY DEF KeyFromEnvironment, KeyIn
<1> HIDE DEF p
<1>3. Shows(p)
  BY <1>1, <1>2 DEF Shows, Copies
<1> QED BY <1>3 DEF p

LEMMA SavedText ==
  ASSUME TypeOK, raw \in Content, NEW doc \in Document
  PROVE  TextIs(FileText(doc), doc, env, raw)
<1>1. /\ FileText(doc).plain = doc.plain
      /\ FileText(doc).over = IF env \in EnvValue THEN raw.over ELSE doc.over
      /\ FileText(doc).secret = TextKey(doc)
  BY FileTextIs
<1>2. \A key : KeyFromEnvironment(key) = KeyIn(key, env)
  BY DEF KeyFromEnvironment, KeyIn
<1>3. ASSUME doc.secret \in Token \union {Null} PROVE TextKey(doc) = KeyWritten(doc, env, raw)
  <2>1. Unset # Null /\ Unset \notin Token /\ Unset \notin EnvKey
    BY Sentinels
  <2>2. CASE env \in EnvKey /\ raw.secret = Unset
    BY <2>2 DEF TextKey, CandidateKey, KeyWritten
  <2>3. CASE ~(env \in EnvKey /\ raw.secret = Unset)
    <3>1. CandidateKey(doc) = DocumentKey(doc)
      BY <2>3 DEF CandidateKey
    <3>2. DocumentKey(doc) = IF doc.secret \in Token THEN KeyIn(raw.secret, env) ELSE doc.secret
      BY <1>2 DEF DocumentKey
    <3>3. DocumentKey(doc) # Unset
      BY <1>3, <2>1, <3>2 DEF KeyIn
    <3>4. BuiltKey(doc) = KeyIn(DocumentKey(doc), env)
      BY <1>2, <3>1 DEF BuiltKey
    <3> QED BY <2>3, <3>1, <3>2, <3>3, <3>4 DEF TextKey, KeyWritten
  <2> QED BY <2>2, <2>3
<1> QED BY <1>1, <1>3 DEF TextIs

\* Steps of one page, which is not the one that writes.
LEMMA PageEdits ==
  ASSUME EditInv, NEW c \in Page, job.by # c, UNCHANGED <<raw, env, job>>,
         \A d \in Page \ {c} : page'[d] = page[d], Shows(page'[c])
  PROVE  PagesShow' /\ WriterSaves'
<1>1. ASSUME NEW d \in Page PROVE Shows(page'[d])
  <2>1. CASE d = c
    BY <2>1
  <2>2. CASE d # c
    BY <2>2 DEF EditInv, PagesShow
  <2> QED BY <2>1, <2>2
<1>2. ASSUME NEW d \in Page PROVE Writes(job', page'[d], d, env', raw')
  <2>1. CASE d = c
    BY <2>1 DEF Writes
  <2>2. CASE d # c
    BY <2>2 DEF EditInv, WriterSaves
  <2> QED BY <2>1, <2>2
<1> QED BY <1>1, <1>2 DEF PagesShow, WriterSaves

LEMMA FetchEdits == ASSUME EditInv, NEW c \in Page, Fetch(c) PROVE PagesShow' /\ WriterSaves'
<1>1. /\ page \in [Page -> PageState \union {Closed}] /\ UNCHANGED <<raw, env, job>> /\ job.by # c
      /\ raw \in Content /\ epoch # 0 /\ TypeOK
  BY DEF Fetch, EditInv, Kept, Base, TypeOK, disk, server, Up
<1>2. \A d \in Page \ {c} : page'[d] = page[d]
  BY <1>1 DEF Fetch
<1>3. CASE ~Editing(c)
  <2>1. page'[c] = Opened(raw)
    BY <1>1, <1>3 DEF Fetch
  <2> QED BY <1>1, <1>2, <2>1, OpenedShows, PageEdits
<1>4. CASE Editing(c)
  <2>1. page[c] \in PageState /\ page[c] # Closed
    BY <1>1, <1>4 DEF Editing
  <2>2. /\ page'[c].shown = page[c].shown /\ page'[c].basis = page[c].basis
        /\ page'[c].seen = page[c].seen
    BY <1>1, <1>4, <2>1 DEF Fetch, PageState
  <2>3. Shows(page'[c])
    BY <2>1, <2>2 DEF EditInv, PagesShow, Shows
  <2> QED BY <1>1, <1>2, <2>3, PageEdits
<1> QED BY <1>3, <1>4

LEMMA ChangeEdits ==
  ASSUME EditInv, NEW c \in Page, NEW to \in Document, Change(c, to)
  PROVE  PagesShow' /\ WriterSaves'
<1>1. /\ page \in [Page -> PageState \union {Closed}] /\ UNCHANGED <<raw, env, job>> /\ job.by # c
      /\ page[c] # Closed
  BY DEF Change, EditInv, Kept, Base, TypeOK, disk, server
<1>2. page'[c] = [page[c] EXCEPT !.draft = to] /\ \A d \in Page \ {c} : page'[d] = page[d]
  BY <1>1 DEF Change
<1>3. page[c] \in PageState
  BY <1>1
<1>4. /\ page'[c].shown = page[c].shown /\ page'[c].seen = page[c].seen
      /\ page'[c].basis = page[c].basis
  BY <1>2, <1>3 DEF PageState
<1>5. Shows(page'[c])
  BY <1>1, <1>4 DEF EditInv, PagesShow, Shows
<1> QED BY <1>1, <1>2, <1>5, PageEdits

LEMMA SaveEdits == ASSUME EditInv, NEW c \in Page, Save(c) PROVE PagesShow' /\ WriterSaves'
<1> DEFINE doc == page[c].draft
<1>1. /\ raw \in Content /\ doc \in Document /\ doc # None /\ TypeOK
      /\ UNCHANGED <<raw, env, page>>
  BY DEF EditInv, Kept, Base, TypeOK, Save, Up, PageState, disk, server
<1>2. TextIs(FileText(doc), doc, env, raw)
  BY <1>1, SavedText
<1>3. PagesShow'
  BY <1>1 DEF EditInv, PagesShow
<1>4. ASSUME NEW d \in Page PROVE Writes(job', page'[d], d, env', raw')
  <2>1. CASE job' = job
    BY <1>1, <2>1 DEF EditInv, WriterSaves
  <2>2. CASE job'.by = c /\ job'.text = FileText(doc)
    BY <1>1, <1>2, <2>2 DEF Writes
  <2> QED BY <2>1, <2>2 DEF Save, Begin
<1> QED BY <1>3, <1>4 DEF WriterSaves

\* Steps that leave the pages alone, and either keep what is written or leave
\* no write of a page.
LEMMA OtherEdits ==
  ASSUME EditInv, UNCHANGED page,
         \/ job'.by \notin Page \/ job'.at \notin {"backup", "copy", "replace"}
         \/ /\ job'.by = job.by /\ job'.text = job.text /\ job.at \in {"backup", "copy", "replace"}
            /\ UNCHANGED <<raw, env>>
  PROVE  PagesShow' /\ WriterSaves'
BY DEF EditInv, PagesShow, WriterSaves, Writes

LEMMA WriteEdits == ASSUME EditInv, WriteStep PROVE PagesShow' /\ WriterSaves'
<1>1. job \in [at: {"idle", "backup", "copy", "replace", "load"}, by: Page \union {Nobody},
              text: Content \union {None}, old: Content \union {Missing, None}]
  BY DEF EditInv, Kept, Base, TypeOK
<1>2. CASE TruncateBackup \/ FillBackup
  <2>1. /\ job'.by = job.by /\ job'.text = job.text /\ job.at \in {"backup", "copy", "replace"}
        /\ UNCHANGED <<raw, env, page>>
    BY <1>1, <1>2 DEF TruncateBackup, FillBackup, server
  <2> QED BY <2>1, OtherEdits
<1>3. CASE Replace \/ FailWrite
  <2>1. job'.at \notin {"backup", "copy", "replace"} /\ UNCHANGED page
    BY <1>1, <1>3 DEF Replace, FailWrite, Idle, server
  <2> QED BY <2>1, OtherEdits
<1>4. CASE Finish
  <2>1. /\ file \in Content /\ epoch # 0 /\ TypeOK /\ job'.at = "idle"
    BY <1>4 DEF Finish, EditInv, Kept, Base, JobOK, Idle
  <2>2. page \in [Page -> PageState \union {Closed}] /\ (job.by = Nobody \/ job.by \in Page)
    BY <1>1, <2>1 DEF TypeOK
  <2>3. \A c \in Page : page'[c] = page[c] \/ page'[c] = Opened(file)
    BY <1>4, <2>2 DEF Finish
  <2>4. PagesShow'
    BY <2>1, <2>3, OpenedShows DEF EditInv, PagesShow
  <2>5. WriterSaves'
    BY <2>1 DEF WriterSaves, Writes
  <2> QED BY <2>4, <2>5
<1> QED BY <1>2, <1>3, <1>4 DEF WriteStep

LEMMA NextEdits == ASSUME EditInv, [Next]_vars PROVE EditInv'
<1>1. Kept'
  BY NextKept DEF EditInv
<1>2. PagesShow' /\ WriterSaves'
  <2>1. Idle.by \notin Page /\ Idle.at = "idle"
    BY Sentinels DEF Idle
  <2>2. CASE Start
    <3>1. job' = Idle /\ page' = page
      BY <2>2 DEF Start, EditInv, Kept, Base, JobOK
    <3> QED BY <2>1, <3>1, OtherEdits
  <2>3. CASE Kill
    BY <2>1, <2>3, OtherEdits DEF Kill
  <2>4. CASE PageStep
    <3>1. PICK c \in Page : Fetch(c) \/ Leave(c) \/ Save(c) \/ \E to \in Document : Change(c, to)
      BY <2>4 DEF PageStep
    <3>2. CASE Leave(c)
      <4>1. page'[c] = Closed /\ \A d \in Page \ {c} : page'[d] = page[d]
        BY <3>2 DEF Leave, EditInv, Kept, Base, TypeOK
      <4>2. Shows(page'[c])
        BY <4>1 DEF Shows
      <4> QED BY <3>2, <4>1, <4>2, PageEdits DEF Leave, server
    <3> QED BY <3>1, <3>2, FetchEdits, SaveEdits, ChangeEdits
  <2>5. CASE OtherWriter \/ Delete
    <3>1. UNCHANGED page /\ job'.by = Nobody
      BY <2>5 DEF OtherWriter, Delete, SaveByScript, Import, EditByHand, Begin, Idle
    <3> QED BY <3>1, Sentinels, OtherEdits
  <2>6. CASE UNCHANGED vars
    BY <2>6 DEF vars, EditInv, PagesShow, WriterSaves
  <2> QED BY <2>2, <2>3, <2>4, <2>5, <2>6, WriteEdits DEF Next
<1> QED BY <1>1, <1>2 DEF EditInv

\* Only the step that renames takes a write from "replace" to "load".
LEMMA ReplacingStep ==
  ASSUME Base, [Next]_vars, NEW c \in Page, ReplacedBy(c)
  PROVE  Replace
<1>1. job.at = "replace" /\ job'.at = "load" /\ job # Idle /\ Up
  BY DEF ReplacedBy, Idle, Base, JobOK
<1>2. ~Start /\ ~Kill /\ ~(UNCHANGED vars)
  BY <1>1 DEF Start, Kill, Idle, vars
<1>3. ~PageStep
  <2>1. ASSUME NEW d \in Page PROVE ~Save(d) /\ ~Fetch(d) /\ ~Leave(d) /\ \A to \in Document : ~Change(d, to)
    BY <1>1 DEF Save, Fetch, Leave, Change
  <2> QED BY <2>1 DEF PageStep
<1>4. ~OtherWriter /\ ~Delete
  BY <1>1 DEF OtherWriter, Delete, SaveByScript, Import, EditByHand
<1>5. ~TruncateBackup /\ ~FillBackup /\ ~FailWrite /\ ~Finish
  BY <1>1 DEF TruncateBackup, FillBackup, FailWrite, Finish, Idle
<1> QED BY <1>2, <1>3, <1>4, <1>5 DEF Next, WriteStep

\* A save leaves every setting that was not edited as it was in the file, the
\* secret and what the environment overrides included, if the edits were made in
\* the version it replaces, the server has read that version, the environment is
\* still the one of the document and stands in for no key that is null
\* (_candidate, config_to_file_data, SecretMasker.unmask).
THEOREM OnlyEditsAreSaved == Spec => UneditedSettingsAreKept
<1>1. Init => EditInv
  BY InitBase, Sentinels DEF EditInv, Kept, PagesShow, WriterSaves, Shows, Writes, Init,
                             WriterIsCurrent, Idle
<1>2. EditInv /\ [Next]_vars => EditInv'
  BY NextEdits
<1>3. EditInv /\ [Next]_vars =>
        [\A c \in Page : ReplacedBy(c) /\ Current(c) => Preserves(c)]_vars
  <2> SUFFICES ASSUME EditInv, [Next]_vars, NEW c \in Page, ReplacedBy(c), Current(c)
               PROVE  Preserves(c)
    OBVIOUS
  <2> DEFINE p == page[c]
  <2>1. job.by = c /\ job.at = "replace" /\ file' = job.text /\ Up
    BY ReplacingStep DEF EditInv, Kept, Base, JobOK, ReplacedBy, Replace, Idle
  <2>2. p # Closed /\ file = p.basis /\ raw = file /\ p.seen = env /\ file \in Content
    BY <2>1 DEF EditInv, Kept, Base, TypeOK, WriterIsCurrent, Current, Up
  <2>3. Shows(p) /\ Writes(job, p, c, env, raw)
    BY DEF EditInv, PagesShow, WriterSaves
  <2>4. file # None
    BY <2>2, Sentinels
  <2>5. TextIs(file', p.draft, env, file) /\ Copies(p.shown, file, env)
    BY <2>1, <2>2, <2>3, <2>4 DEF Shows, Writes
  <2>6. ~(env \in EnvKey /\ Null \in {file.secret, p.shown.secret})
    BY <2>2 DEF Current, FallsBack
  <2>7. Unset # Null /\ Unset \notin EnvKey /\ Null \notin EnvKey /\ Null \notin Token
    BY Sentinels
  <2> HIDE DEF p
  <2>8. p.draft.plain = p.shown.plain => file'.plain = file.plain
    BY <2>5 DEF TextIs, Copies
  <2>9. p.draft.over = p.shown.over => file'.over = file.over
    BY <2>5 DEF TextIs, Copies
  <2>10. ASSUME p.draft.secret = p.shown.secret PROVE SameKey(file'.secret, file.secret)
    <3>1. file'.secret = KeyWritten(p.draft, env, file)
      BY <2>5, <2>10 DEF TextIs, Copies
    <3>2. CASE env \in EnvKey
      <4>1. file.secret # Null /\ p.draft.secret \in Token
        BY <2>5, <2>6, <2>10, <3>2 DEF Copies
      <4> QED BY <2>7, <3>1, <3>2, <4>1 DEF KeyWritten, KeyIn, SameKey
    <3>3. CASE env \notin EnvKey
      BY <2>5, <2>7, <2>10, <3>1, <3>3 DEF KeyWritten, KeyIn, SameKey, Copies
    <3> QED BY <3>2, <3>3
  <2> QED BY <2>8, <2>9, <2>10 DEF Preserves, p
<1> QED BY <1>1, <1>2, <1>3, PTL DEF Spec, UneditedSettingsAreKept
============================================================================
