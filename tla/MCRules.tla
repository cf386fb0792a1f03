------------------------------ MODULE MCRules ------------------------------
(* Small inputs for the rules. *)
EXTENDS Rules

Names == {"a", "b"}
SmallPaths(n) == UNION {[1 .. k -> Names] : k \in 1 .. n}
Places == {<<"a">>, <<"a", "a">>, <<"b">>}

SymlinkLibrary == [output: Places, name: {Unset}, suffix: {"x"}]
                  \union [output: {Unset}, name: {"b", Unset}, suffix: {"x"}]
Library(name) == [name: {name}, input: Places, output: Places \union {Unset},
                  symlinks: UNION {[1 .. k -> SymlinkLibrary] : k \in 1 .. 2}]

MCName == Names \union {"l-x", "m-x"}
MCPaths == SmallPaths(3) \union {<<"a", "l-x">>, <<"b", "l-x">>, <<"b", "m-x">>}
MCLayouts == [output: {Unset, <<"b">>},
              libraries: {<<l, m>> : l \in Library("l"), m \in Library("l") \union Library("m")}]

Mapping == [local: SmallPaths(2), remote: SmallPaths(2)]
MCMappingLists == {<<m>> : m \in Mapping} \union (Mapping \X Mapping)

MCAudioLists == UNION {[1 .. k -> Heard] : k \in 1 .. 2}
MCGroups == UNION {[is: {l}, tags: {{t} : t \in TagOf(l)} \union {TagOf(l)}] : l \in Languages}

Picture(c, w, h) == [class |-> c, frame |-> [width |-> w, height |-> h]]
MCPictures == {Picture(480, 720, 480), Picture(480, 640, 480), Picture(480, 848, 360), Picture(720, 1280, 720),
               Picture(720, 1280, 534), Picture(720, 960, 720), Picture(1080, 1920, 1080),
               Picture(1080, 1916, 1076), Picture(1080, 1920, 800), Picture(1080, 1440, 1080),
               Picture(2160, 3840, 2160), Picture(2160, 3840, 1600), Picture(2160, 3836, 2072)}

\* Up to three lookups.
Timed(ls) == [i \in DOMAIN ls |-> [ls[i] EXCEPT !.answer = IF @ = Unknown THEN Unknown ELSE ls[i].at]]
MCLookupLists == {Timed(ls) : ls \in
    {l \in UNION {[1 .. k -> [at: 0 .. 6, answer: {TRUE, Unknown}]] : k \in 1 .. 3} :
        \A i, j \in DOMAIN l : i < j => l[i].at <= l[j].at}}

Source == [isDir: BOOLEAN, readable: BOOLEAN, writable: BOOLEAN, outputsWritable: BOOLEAN]
Scan == [failed: BOOLEAN, blocked: 0 .. 1, errors: 0 .. 1, changed: 0 .. 1]
MCSituations == [libraries: {s \in SUBSET Source : Cardinality(s) <= 2},
                 skipReadonly: BOOLEAN, missing: BOOLEAN, configWritable: {FALSE}, database: {"readonly"},
                 method: {"none", "external"}, proxies: {FALSE}, account: {FALSE}, restart: {TRUE}, scan: Scan]
=============================================================================
