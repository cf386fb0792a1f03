---------------------------- MODULE ConfigStore ----------------------------
(* The configuration file and everybody who writes it: the settings page of
   the web interface (config-editor.tsx), scripts that call PUT /config
   without If-Match, an uploaded backup, and people with a text editor.  The
   server works on the file through ConfigStore (config_store.py), which runs
   on the event loop: one save at a time, but each of its system calls may be
   the last one before the process is killed.

   The content of the file is a record of three settings that stand for all:
     plain   an ordinary setting; some of its values are rejected (Rejected),
     over    a setting that an environment variable may override,
     secret  server.api_key, which pages only ever see as a token, and for which
             a variable of the environment stands in if the file has none.
   A setting that is not in the file is Unset; a key may also be written as null
   (Null).  An etag is the hash of the content, so it is the content. *)
EXTENDS Naturals

CONSTANTS
    Page,           \* open browser pages
    Plain, Rejected,  \* values of the ordinary setting; those that are invalid
    Over,           \* values people give the overridable setting
    EnvValue,       \* values the environment may give it
    Secret,         \* keys people choose
    EnvKey,         \* keys the environment may give
    Unset, Null, Missing, Torn, Closed, None, Nobody, Down,  \* sentinels
    MaxChanges, MaxEpoch  \* bounds: writes attempted, processes started

Setting == Over \union {Unset}
Key     == Secret \union {Unset, Null}
Content == [plain: Plain, over: Setting \union EnvValue, secret: Key \union EnvKey]
Own     == [plain: Plain, over: Setting, secret: Key]  \* what people write
Token   == (1 .. MaxEpoch) \X (Secret \union EnvKey)
Document == [plain: Plain, over: Setting \union EnvValue, secret: Key \union EnvKey \union Token]
Environment == EnvValue \union EnvKey \union {Unset}

ASSUME Sentinels ==
    /\ {Unset, Null, Missing, Torn, Closed, None, Nobody, Down} \cap
         (Plain \union Over \union EnvValue \union Secret \union EnvKey \union Content
            \union Page \union Document \union Token) = {}
    /\ Over \cap EnvValue = {} /\ Secret \cap EnvKey = {} /\ EnvValue \cap EnvKey = {}
    /\ (Secret \union EnvKey) \cap Token = {}
    /\ Missing # Torn /\ Unset # Null
    /\ Rejected \subseteq Plain /\ Rejected # Plain
    /\ MaxChanges \in Nat /\ MaxEpoch \in Nat

VARIABLES
    file,     \* boomarr.yml: a Content or Missing
    backup,   \* boomarr.yml.bak: a Content, Missing or Torn
    raw,      \* ConfigStore.raw, what load() read; Down while no process runs
    env,      \* the environment variable this process has, or Unset
    epoch,    \* how many processes were started: each has its own token key
    job,      \* the write that is under way: at, by, text, old
    page,     \* what each page holds: Closed, or the document shown, its etag,
              \* the settings that are locked, and the edits (draft); as history,
              \* for the document under the edits: the file it was fetched with
              \* (basis; None if the server had loaded another one), and the
              \* environment (seen)
    changes,  \* number of writes attempted
    exposed   \* history: a write was computed in which a value of the environment
              \* passes for one of the file (see EnvironmentStaysOut)

disk   == <<file, backup>>
server == <<raw, env, epoch>>
vars   == <<file, backup, raw, env, epoch, job, page, changes, exposed>>

Idle == [at |-> "idle", by |-> Nobody, text |-> None, old |-> None]
Template == [plain |-> CHOOSE p \in Plain \ Rejected : TRUE, over |-> Unset, secret |-> Unset]
Up == raw # Down
Mint(n) == changes < n /\ changes' = changes + 1

Init ==
    /\ file = Missing /\ backup = Missing
    /\ raw = Down /\ env = Unset /\ epoch = 0
    /\ job = Idle
    /\ page = [c \in Page |-> Closed]
    /\ changes = 0 /\ exposed = FALSE
----------------------------------------------------------------------------
(* Reading.  Definitions whose name ends in Bug are mutants of the definition
   after them. *)

Valid(content) == content.plain \notin Rejected

\* _apply_env_vars: the environment wins over the file.
FromEnvironment(value) == IF env \in EnvValue THEN env ELSE value

\* _api_key_from_env: the environment stands in for a key that is not there.
\* None, the value of a configuration without a key, is Null.
KeyFromEnvironment(key) ==
    IF key \notin {Unset, Null} THEN key ELSE IF env \in EnvKey THEN env ELSE Null

\* build_config: the configuration, and the settings it lists as overridden.
Effective(content) ==
    [content EXCEPT !.over = FromEnvironment(@), !.secret = KeyFromEnvironment(@)]
Overridden(content) ==
    {name \in {"over", "secret"} :
        IF name = "over" THEN env \in EnvValue ELSE env \in EnvKey /\ content.secret = Unset}

\* SecretMasker.mask: a secret leaves the server as a token of this process.
Masked(content) ==
    [content EXCEPT !.secret = IF @ = Null THEN Null ELSE <<epoch, @>>]

\* A process starts: load() creates a missing file from the template and
\* refuses an invalid one (the process exits).
Start ==
    /\ ~Up /\ epoch < MaxEpoch
    /\ file' = IF file = Missing THEN Template ELSE file
    /\ Valid(file')
    /\ env' \in Environment
    /\ raw' = file'
    /\ epoch' = epoch + 1
    /\ UNCHANGED <<backup, job, page, changes, exposed>>

\* The process is killed, possibly in the middle of a write.
Kill ==
    /\ Up
    /\ raw' = Down
    /\ job' = Idle
    /\ UNCHANGED <<file, backup, env, epoch, page, changes, exposed>>

Editing(c) == IF page[c] = Closed THEN FALSE ELSE page[c].draft # None

\* document(): the configuration that is loaded, with the etag of the file as
\* it is now.
Opened(content) ==
    [shown |-> Masked(Effective(content)), etag |-> file, locked |-> Overridden(content),
     draft |-> None, basis |-> IF file = content THEN file ELSE None, seen |-> env]

\* GET /config, at first, when the window is focused and when config.updated
\* arrives.  A page that holds edits keeps them (config-editor.tsx: draft ??
\* saved): the etag it will send and what it locks are the new ones.
Fetch(c) ==
    /\ Up /\ job.by # c
    /\ page' = [page EXCEPT ![c] =
          IF Editing(c) THEN [@ EXCEPT !.etag = file, !.locked = Overridden(raw)]
          ELSE Opened(raw)]
    /\ UNCHANGED <<disk, server, job, changes, exposed>>

\* The user edits the form; the environment's settings are locked, and a key can
\* be replaced or cleared.
Change(c, to) ==
    /\ page[c] # Closed /\ job.by # c
    /\ LET old == IF page[c].draft = None THEN page[c].shown ELSE page[c].draft IN
         /\ to.over = old.over \/ (to.over \in Setting /\ "over" \notin page[c].locked)
         /\ to.secret = old.secret \/ (to.secret \in Secret \union {Null} /\ "secret" \notin page[c].locked)
         /\ to # old
    /\ page' = [page EXCEPT ![c].draft = to]
    /\ UNCHANGED <<disk, server, job, changes, exposed>>

\* The user discards the edits or leaves.
Leave(c) ==
    /\ page[c] # Closed /\ job.by # c
    /\ page' = [page EXCEPT ![c] = Closed]
    /\ UNCHANGED <<disk, server, job, changes, exposed>>
----------------------------------------------------------------------------
(* Writing: save() and import_yaml(). *)

\* SecretMasker.unmask knows the tokens of the loaded configuration only.
Known(doc) == doc.secret \in Token => doc.secret = <<epoch, Effective(raw).secret>>

UnmaskedBug(doc) == [doc EXCEPT !.secret = IF @ \in Token THEN Unset ELSE @]
Unmasked(doc) ==
    [doc EXCEPT !.secret = IF @ \in Token THEN Effective(raw).secret ELSE @]

\* What is listed as overridden gets the value, or the absence, it had in the
\* file that was loaded.
Restored(content, names) ==
    [content EXCEPT !.over = IF "over" \in names THEN raw.over ELSE @,
                    !.secret = IF "secret" \in names THEN raw.secret ELSE @]

\* _candidate: the document as if it were the file.
Candidate(doc) == Restored(Unmasked(doc), Overridden(raw))

\* serialize: what has its default value is left out.
Minimal(content) == [content EXCEPT !.secret = IF @ = Null THEN Unset ELSE @]

\* config_to_file_data: the text that reproduces the new configuration.
FileTextEnvBug(doc) == Minimal(Effective(Candidate(doc)))
FileText(doc) ==
    Restored(Minimal(Effective(Candidate(doc))), Overridden(Candidate(doc)))

\* A key that is null, in the file that was loaded or in the document, gets its
\* value from the environment without being listed as overridden.
FallsBack(doc) == env \in EnvKey /\ Null \in {raw.secret, doc.secret}

\* ConfigConflictError unless the etag is that of the file now.
EtagMatchesBug(etag) == TRUE
EtagMatches(etag) == etag = file

Begin(who, text) ==
    job' = [at |-> "backup", by |-> who, text |-> text, old |-> None]

\* PUT /config of a page, with If-Match; refused as a conflict, for an unknown
\* secret or as invalid without any change.
Save(c) ==
    /\ Up /\ job = Idle /\ page[c] # Closed /\ page[c].draft # None
    /\ Mint(MaxChanges)
    /\ LET doc == page[c].draft IN
         IF EtagMatches(page[c].etag) /\ Known(doc) /\ Valid(Candidate(doc))
         THEN /\ Begin(c, FileText(doc))
              /\ exposed' = (exposed \/ FallsBack(doc) \/ page[c].seen # env)
         ELSE UNCHANGED <<job, exposed>>
    /\ UNCHANGED <<disk, server, page>>

\* PUT /config of a script without If-Match, with values of its own.
SaveByScript(text) ==
    /\ Up /\ job = Idle /\ Valid(text)
    /\ Mint(MaxChanges)
    /\ Begin(Nobody, FileText(text))
    /\ exposed' = (exposed \/ FallsBack(text))
    /\ UNCHANGED <<disk, server, page>>

\* POST /config/import: the uploaded text is stored as it is.
Import(text) ==
    /\ Up /\ job = Idle /\ Valid(text)
    /\ Mint(MaxChanges)
    /\ Begin(Nobody, text)
    /\ UNCHANGED <<disk, server, page, exposed>>

\* _write_text: the copy begins by truncating the backup.
TruncateBackup ==
    /\ job.at = "backup"
    /\ backup' = IF file = Missing THEN backup ELSE Torn
    /\ job' = [job EXCEPT !.at = IF file = Missing THEN "replace" ELSE "copy", !.old = file]
    /\ UNCHANGED <<file, server, page, changes, exposed>>

FillBackupBug ==
    /\ job.at = "copy"
    /\ backup' = raw
    /\ job' = [job EXCEPT !.at = "replace"]
    /\ UNCHANGED <<file, server, page, changes, exposed>>
FillBackup ==
    /\ job.at = "copy"
    /\ backup' = job.old
    /\ job' = [job EXCEPT !.at = "replace"]
    /\ UNCHANGED <<file, server, page, changes, exposed>>

\* The temporary file is written, synced and renamed over the old one.
Replace ==
    /\ job.at = "replace"
    /\ file' = job.text
    /\ job' = [job EXCEPT !.at = "load"]
    /\ UNCHANGED <<backup, server, page, changes, exposed>>

\* The disk is full or the directory read-only: the temporary file is removed.
FailWrite ==
    /\ job.at \in {"backup", "copy", "replace"}
    /\ job' = Idle
    /\ UNCHANGED <<disk, server, page, changes, exposed>>

\* load() and the answer: the page takes the document as its own and forgets
\* its edits.
Finish ==
    /\ job.at = "load"
    /\ raw' = file
    /\ page' = IF job.by = Nobody THEN page
               ELSE [page EXCEPT ![job.by] = Opened(file)]
    /\ job' = Idle
    /\ UNCHANGED <<disk, env, epoch, changes, exposed>>

\* Somebody edits, restores or deletes the file.
EditByHand(to) ==
    /\ job = Idle
    /\ to # file
    /\ Mint(MaxChanges)
    /\ file' = to
    /\ UNCHANGED <<backup, server, job, page, exposed>>

PageStep == \E c \in Page : Fetch(c) \/ Leave(c) \/ Save(c) \/ \E to \in Document : Change(c, to)
OtherWriter == \E text \in Own : SaveByScript(text) \/ Import(text) \/ EditByHand(text)
Delete == EditByHand(Missing)
WriteStep == TruncateBackup \/ FillBackup \/ Replace \/ FailWrite \/ Finish

Next == Start \/ Kill \/ PageStep \/ OtherWriter \/ Delete \/ WriteStep

Spec == Init /\ [][Next]_vars
----------------------------------------------------------------------------
(* Properties. *)

PageState == [shown: Document, etag: Content \union {Missing},
              locked: SUBSET {"over", "secret"}, draft: Document \union {None},
              basis: Content \union {None}, seen: Environment]

TypeOK ==
    /\ file \in Content \union {Missing}
    /\ backup \in Content \union {Missing, Torn}
    /\ raw \in Content \union {Down}
    /\ env \in Environment
    /\ epoch \in 0 .. MaxEpoch
    /\ job \in [at: {"idle", "backup", "copy", "replace", "load"},
                by: Page \union {Nobody}, text: Content \union {None},
                old: Content \union {Missing, None}]
    /\ page \in [Page -> PageState \union {Closed}]
    /\ changes \in 0 .. MaxChanges
    /\ exposed \in BOOLEAN

\* The page that is about to replace the file in this step.
ReplacedBy(c) == job.by = c /\ job.at = "replace" /\ job'.at = "load"

\* A save of a page replaces only the version of the file that the page fetched
\* last: what others wrote since then makes it a conflict (save, etag).
UnseenChangesAreKept ==
    [][\A c \in Page : ReplacedBy(c) => file = page[c].etag]_vars

\* A save changes what the user changed and nothing else: every setting that
\* was not edited has the value it had in the file, a masked secret and what
\* the environment overrides included (config_store.py:5).  A key that is null
\* is a key that is not there.
SameKey(x, y) == x = y \/ {x, y} \subseteq {Unset, Null}
Preserves(c) ==
    LET old == page[c].shown
        new == page[c].draft
    IN /\ new.plain = old.plain => file'.plain = file.plain
       /\ new.over = old.over => file'.over = file.over
       /\ new.secret = old.secret => SameKey(file'.secret, file.secret)

\* ... unless the edits were made in another version of the file (its page was
\* refetched under the edits), the server has not read the file, at the time of
\* the fetch or of the save, the environment was another one at the fetch, or it
\* stands in for a key that is null.
Current(c) ==
    /\ page[c].basis = file /\ raw = file
    /\ page[c].seen = env /\ ~FallsBack(page[c].shown)
UneditedSettingsAreKept ==
    [][\A c \in Page : ReplacedBy(c) /\ Current(c) => Preserves(c)]_vars

\* What the environment provides is never written to the file or its backup
\* (docs/web-ui.md:66, config_to_file_data), unless a key was null when a save
\* was computed, or a page was saved in another environment than that of its
\* document.
HasEnvironment(content) == content.over \in EnvValue \/ content.secret \in EnvKey
EnvironmentStaysOut ==
    ~exposed => /\ file # Missing => ~HasEnvironment(file)
                /\ backup \notin {Missing, Torn} => ~HasEnvironment(backup)

\* Whatever a write replaces is in the backup, whole, before it is gone, also
\* when the write is cut off (docs/web-ui.md:60).
ReplacedIsBackedUp ==
    [][job.at = "replace" /\ job'.at = "load" /\ file # Missing => backup = file]_vars
============================================================================
