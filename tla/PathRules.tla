------------------------------ MODULE PathRules ------------------------------
(* The rules about paths: output directories and their overlap (config.py), the
   translation of paths into the view of Plex, Jellyfin, Sonarr and Radarr, and
   what the hooks tell a media server (hooks.py).

   A path is the sequence of its names.  A layout is a configuration reduced to
   its paths: an output directory, and libraries with a name, an input and
   symlink libraries.  Definitions whose name ends in Bug are mutants of the
   definition after them. *)
EXTENDS Naturals, Sequences, SequencesExt, FiniteSetsExt

CONSTANT Unset   \* an option that is not given

\* is_relative_to.
Under(path, dir) == IsPrefix(dir, path)
Rest(path, dir) == SubSeq(path, Len(dir) + 1, Len(path))
----------------------------------------------------------------------------
(* Output directories. *)

OutputBase(layout, library) ==
    IF library.output # Unset THEN library.output ELSE layout.output

\* Of a symlink library without a name: its library and the suffix of its filters.
Slug(library, sym) == library.name \o "-" \o sym.suffix

SymlinkOutput(layout, library, sym) ==
    IF sym.output # Unset THEN sym.output
    ELSE Append(OutputBase(layout, library),
                IF sym.name # Unset THEN sym.name ELSE Slug(library, sym))

Libraries(layout) == ToSet(layout.libraries)
Symlinks(layout) == UNION {{<<i, j>> : j \in DOMAIN layout.libraries[i].symlinks} :
                             i \in DOMAIN layout.libraries}
Output(layout, s) == LET library == layout.libraries[s[1]]
                     IN  SymlinkOutput(layout, library, library.symlinks[s[2]])

UniqueNames(layout) ==
    \A i, j \in DOMAIN layout.libraries :
        layout.libraries[i].name = layout.libraries[j].name => i = j

\* _validate_output_paths.
HasOutputs(layout) ==
    \A l \in Libraries(layout) :
        OutputBase(layout, l) # Unset \/ \A s \in ToSet(l.symlinks) : s.output # Unset

OverlapsBug(a, b) == Under(a, b)
\* _check_path_overlap, and the comparison of two outputs.
Overlaps(a, b) == Under(a, b) \/ Under(b, a)

\* The outputs, and the bases of libraries that have one, against every input.
InputsAreApart(layout) ==
    \A input \in {l.input : l \in Libraries(layout)} :
        /\ \A s \in Symlinks(layout) : ~Overlaps(Output(layout, s), input)
        /\ \A l \in Libraries(layout) :
              LET base == OutputBase(layout, l)
              IN  base # Unset => ~Overlaps(base, input)

OutputsAreApart(layout) ==
    \A s, t \in Symlinks(layout) :
        s # t => ~Overlaps(Output(layout, s), Output(layout, t))

Accepted(layout) ==
    UniqueNames(layout) /\ HasOutputs(layout) /\ InputsAreApart(layout) /\ OutputsAreApart(layout)
----------------------------------------------------------------------------
(* Path mappings: a local directory and the remote one it is.  The code compares
   remote directories by their characters; of two that match, the one with more
   names has more. *)

ToRemote(mapping, path) == mapping.remote \o Rest(path, mapping.local)
ToLocal(mapping, path) == mapping.local \o Rest(path, mapping.remote)

\* The first of the longest, of those that match.
Longest(length) ==
    CHOOSE i \in DOMAIN length :
        \A j \in DOMAIN length : length[j] < length[i] \/ (length[j] = length[i] /\ i <= j)

LocalLengthBug(m) == 0
LocalLength(m) == Len(m.local)
RemoteLength(m) == Len(m.remote)

MapToRemote(path, mappings) ==
    LET matching == {i \in DOMAIN mappings : Under(path, mappings[i].local)}
        nearest == Longest([i \in matching |-> LocalLength(mappings[i])])
    IN  IF matching = {} THEN path ELSE ToRemote(mappings[nearest], path)

MapToLocal(path, mappings) ==
    LET matching == {i \in DOMAIN mappings : Under(path, mappings[i].remote)}
        nearest == Longest([i \in matching |-> RemoteLength(mappings[i])])
    IN  IF matching = {} THEN path ELSE ToLocal(mappings[nearest], path)
----------------------------------------------------------------------------
(* Hooks. *)

\* PlexRefreshHook: the sections that are asked to rescan an output, and where.
\* A section is the set of its locations.
Refreshes(output, sections, mappings) ==
    {<<s, MapToRemote(output, mappings)>> : s \in
        {s \in sections : \E location \in s : Overlaps(output, MapToLocal(location, mappings))}}

\* JellyfinRefreshHook: the paths of the update.
Updates(outputs, mappings) == {MapToRemote(output, mappings) : output \in outputs}
----------------------------------------------------------------------------
(* Properties of a layout, and of mappings. *)

Tree(dir, paths) == {p \in paths : Under(p, dir)}

\* In an accepted layout no path belongs to two outputs, or to an output and an
\* input, of whatever library: no cleanup deletes what another scan made, and no
\* scan finds the links of another.
TreesAreSeparate(layout, paths) ==
    Accepted(layout) =>
        /\ \A s \in Symlinks(layout), l \in Libraries(layout) :
              Tree(Output(layout, s), paths) \intersect Tree(l.input, paths) = {}
        /\ \A s, t \in Symlinks(layout) :
              s # t => Tree(Output(layout, s), paths) \intersect Tree(Output(layout, t), paths) = {}

\* Mappings are understood like mounts: the nearest mapped directory above a path
\* says where it is.  As long as no remote directory lies in another one, what
\* Sonarr reports for a path leads back to the path.
MapsLikeMounts(mappings, path) ==
    LET Mapped(k) == {i \in DOMAIN mappings : mappings[i].local = SubSeq(path, 1, k)}
        mounts == {k \in 0 .. Len(path) : Mapped(k) # {}}
        k == Max(mounts)
        m == mappings[Min(Mapped(k))]
        remote == MapToRemote(path, mappings)
    IN  mounts # {} =>
            /\ remote = m.remote \o SubSeq(path, k + 1, Len(path))
            /\ (\A i, j \in DOMAIN mappings : i # j => ~Under(mappings[i].remote, mappings[j].remote))
               => MapToLocal(remote, mappings) = path

\* Every Plex section that holds an output is asked to rescan it, unless a mapped
\* directory lies in the location of the section (then no local path is the
\* location), or mapped directories lie in each other or take the place of an
\* unmapped output.
SectionsAreRefreshed(mappings, sections, output) ==
    \A s \in sections, location \in UNION sections :
        /\ location \in s /\ Under(MapToRemote(output, mappings), location)
        /\ \/ \E i \in DOMAIN mappings : Under(output, mappings[i].local)
           \/ \A i \in DOMAIN mappings : ~Overlaps(mappings[i].remote, output)
        /\ \A i \in DOMAIN mappings :
              /\ ~(Under(mappings[i].remote, location) /\ mappings[i].remote # location)
              /\ \A j \in DOMAIN mappings :
                    i # j => ~Overlaps(mappings[i].remote, mappings[j].remote)
        => <<s, MapToRemote(output, mappings)>> \in Refreshes(output, sections, mappings)
=============================================================================
