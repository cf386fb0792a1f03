------------------------------- MODULE Rules -------------------------------
(* The rules of the configuration, the media files and the checks over any
   inputs: a state is one input, what it is about and the input itself, and
   nothing moves. *)
EXTENDS PathRules, MediaRules, ScanChecks

CONSTANTS
    Name,        \* names of files and directories
    Paths,       \* paths to which the rules are applied
    Layouts,     \* configurations, reduced to their paths
    MappingLists,
    AudioLists,  \* the audio tracks of files
    Groups,      \* what language filters look for
    Pictures,    \* frames, and the class their release is sold as
    LookupLists, \* when the index of Sonarr/Radarr is used, and what it would answer
    Situations   \* surroundings of a scan

VARIABLE input

\* The spellings of two languages, and of an unknown one.
Spelled == [deu |-> {"de", "ger", "deu"}, eng |-> {"en", "eng"}, und |-> {"und"}]
Languages == DOMAIN Spelled
TagOf(l) == [code: Spelled[l], region: BOOLEAN]
TextOf(l) == [word: Spelled[l], remark: {FALSE}]
             \union [word: {w \in DOMAIN LanguageName : LanguageName[w] = l}, remark: BOOLEAN]
\* A track: its language, and how ffprobe and Sonarr/Radarr spell it.
Heard == UNION {[is: {l}, tag: TagOf(l), text: TextOf(l)] : l \in Languages}
\* A wanted language, in one or several spellings.
Wanted == UNION {[is: {l}, tags: (SUBSET TagOf(l)) \ {{}}] : l \in Languages}

Classes == {480, 720, 1080, 2160}
\* A picture has the full width or height of its class, or misses two percent, and
\* is cropped in the other direction or not at all.
Frame(class, width, height) ==
    /\ 9 * width <= 16 * class + 16 /\ height <= class
    /\ 100 * 9 * width >= 98 * 16 * class \/ 100 * height >= 98 * class

ASSUME NamesMakePaths == Paths \subseteq Seq(Name)
\* The name a symlink library is given, or gets, is one name.
ASSUME LayoutsAreOfPaths ==
    \A layout \in Layouts : HasOutputs(layout) =>
        /\ \A l \in Libraries(layout) : l.input \in Seq(Name)
        /\ \A s \in Symlinks(layout) : Output(layout, s) \in Seq(Name)
ASSUME MappingsAreOfPaths ==
    MappingLists \subseteq Seq([local: Seq(Name), remote: Seq(Name)])
ASSUME AudioIsHeard ==
    /\ \A audio \in AudioLists : audio \in Seq(Heard) /\ audio # <<>>
    /\ Groups \subseteq Wanted
ASSUME PicturesAreOfClasses ==
    \A p \in Pictures : /\ p.class \in Classes /\ p.frame \in [width: Nat, height: Nat]
                        /\ Frame(p.class, p.frame.width, p.frame.height)
Tags == UNION {TagOf(l) : l \in Languages}
Texts == UNION {TextOf(l) : l \in Languages}
ASSUME UnknownIsNoAnswer ==
    /\ Unknown \notin Int /\ Unknown \notin Languages /\ Unknown \notin Tags
    /\ Unknown \notin Seq([type: {"audio"}, tag: Tags, channels: Int])
    /\ Unknown \notin Seq([type: {"video"}, cover: BOOLEAN, frame: [width: Nat, height: Nat]])
    /\ Unknown \notin [languages: Seq(Texts), channels: Int, frame: {Unknown}]
    /\ Unknown \notin [width: Nat, height: Nat]
\* What the server answers is told by the time at which it does.
ASSUME LookupsAreTimed ==
    /\ Ttl \in Nat
    /\ \A lookups \in LookupLists :
          /\ lookups \in Seq([at: Nat, answer: {Unknown} \union Nat])
          /\ \A i \in DOMAIN lookups : lookups[i].answer \in {Unknown, lookups[i].at}
ASSUME SituationsHaveScans ==
    \A s \in Situations :
        /\ s.skipReadonly \in BOOLEAN /\ s.missing \in BOOLEAN
        /\ \A l \in s.libraries : {l.isDir, l.readable, l.writable, l.outputsWritable} \subseteq BOOLEAN
        /\ s.scan \in [failed: BOOLEAN, blocked: Nat, errors: Nat, changed: Nat]

Of(subject, inputs) == [about: {subject}, is: inputs]
Init == input \in Of("layout", Layouts) \union Of("mappings", MappingLists)
                  \union Of("audio", AudioLists) \union Of("picture", Pictures)
                  \union Of("lookups", LookupLists) \union Of("situation", Situations)
Next == UNCHANGED input
Spec == Init /\ [][Next]_input

\* No accepted configuration lets two libraries share an output, or a cleanup
\* reach the files of an input (validators of config.py).
OutputsAreSafe == input.about = "layout" => TreesAreSeparate(input.is, Paths)
\* Nested mappings lead each path to the mapped directory above it and back, and
\* Plex hears of every output in its sections (map_to_remote, map_to_local).
MappedPathsAgree == input.about = "mappings" =>
    \A path \in Paths : /\ MapsLikeMounts(input.is, path)
                        /\ \A location \in Paths : SectionsAreRefreshed(input.is, {{location}}, path)
\* The spelling of a language, the prober that answers and the crop of a picture
\* do not decide where a file is linked (languages.py, probers, filters).
MediaIsJudgedByContent ==
    /\ input.about = "audio" => \A a, b \in Groups, all \in BOOLEAN :
          SpellingDoesNotCount(input.is, {a, b}, all)
    /\ input.about = "picture" => ReleasesHaveOneClass(input.is.frame, input.is.class, Classes)
\* A server is asked at most once per cache_ttl, also while it fails, and its
\* index is not used longer than that as long as it answers (ArrProber._lookup).
IndexIsReused == input.about = "lookups" => IndexIsRecentAndRare(input.is)
\* A skipped scan has its check on the health page, and notifications agree with
\* that page (preflight, run_checks, build_message).
UsersAreTold == input.about = "situation" =>
    SkippedScansAreExplained(input.is) /\ NotifiedAsChecked(input.is.scan)
=============================================================================
