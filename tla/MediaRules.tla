------------------------------ MODULE MediaRules ------------------------------
(* What Boomarr knows of a media file and which filters it passes: language
   codes and names (languages.py), the tracks ffprobe and Sonarr/Radarr report
   (probers/), the filters (filters/), and the index of Sonarr/Radarr that is
   reused for a while.

   A language tag is a code with or without a region (de-DE); a name is one with
   or without a remark ("Spanish (Latino)").  The tables hold one language with
   all three codes and one with two.  Definitions whose name ends in Bug are
   mutants of the definition after them. *)
EXTENDS Integers, Sequences, SequencesExt

CONSTANTS
    Unknown,  \* no answer, no track, no such language
    Ttl       \* cache_ttl of the index of Sonarr/Radarr

Alpha2 == [de |-> "deu", en |-> "eng"]
Bibliographic == [ger |-> "deu"]
LanguageName == [german |-> "deu", english |-> "eng"]
Lookup(table, code) == IF code \in DOMAIN table THEN table[code] ELSE code

NormalizeBug(tag) == IF tag.region THEN tag.code
                     ELSE Lookup(Alpha2, Lookup(Bibliographic, tag.code))
\* Two letters are looked up in one table, others in the other; no code is in
\* both.  The region does not count, and unknown codes stand for themselves.
Normalize(tag) == Lookup(Alpha2, Lookup(Bibliographic, tag.code))

\* language_from_name_or_code: a code with a remark is no code.
FromName(text) ==
    CASE text.word \in DOMAIN LanguageName -> LanguageName[text.word]
      [] text.word \notin DOMAIN LanguageName /\ text.remark -> Unknown
      [] OTHER -> Normalize([code |-> text.word, region |-> FALSE])
----------------------------------------------------------------------------
(* Probers.  A track is its language and channels, a frame its size; a file is
   its streams and the entry of Sonarr/Radarr. *)

Track(language, channels) == [language |-> language, channels |-> channels]
Untagged == [code |-> "und", region |-> FALSE]

\* FFProbeProber: the audio streams, and the video streams but cover art.
AudioTracks(streams) ==
    {Track(IF s.tag = Unknown THEN Untagged ELSE s.tag, s.channels) :
        s \in {s \in ToSet(streams) : s.type = "audio"}}
VideoTracks(streams) == {s.frame : s \in {s \in ToSet(streams) : s.type = "video" /\ ~s.cover}}

\* No answer if the file is gone, ffprobe fails or takes too long.
FFProbe(streams) ==
    IF streams = Unknown THEN Unknown
    ELSE [audio |-> AudioTracks(streams), video |-> VideoTracks(streams)]

\* 5.1 channels, as tenths, are 6.
ParsedChannels(tenths) ==
    IF tenths = Unknown \/ tenths <= 0 THEN Unknown ELSE (tenths \div 10) + (tenths % 10)
ParsedLanguages(texts) == {FromName(t) : t \in ToSet(texts)} \ {Unknown}

\* media_info_from_arr: one track per language, all with the same channels; no
\* answer for a file without languages or without an entry.
Arr(entry) ==
    IF entry = Unknown \/ (entry # Unknown /\ ParsedLanguages(entry.languages) = {})
    THEN Unknown
    ELSE [audio |-> {Track([code |-> l, region |-> FALSE], ParsedChannels(entry.channels)) :
                        l \in ParsedLanguages(entry.languages)},
          video |-> IF entry.frame = Unknown THEN {} ELSE {entry.frame}]
----------------------------------------------------------------------------
(* Filters. *)

\* A language filter: the codes that count as each of its languages, and whether
\* one or all must be there.
Codes(tags) == {Normalize(t) : t \in tags}
LanguageMatches(groups, all, media) ==
    LET found == {Normalize(t.language) : t \in media.audio} IN
    /\ media.audio # {}
    /\ IF all THEN \A g \in groups : Codes(g) \intersect found # {}
              ELSE Codes(UNION groups) \intersect found # {}

Larger(a, b) == IF a >= b THEN a ELSE b
\* Python rounds a half to the even number.
Rounded(w) == LET q == (9 * w) \div 16  r == (9 * w) % 16
              IN  IF r > 8 \/ (r = 8 /\ q % 2 = 1) THEN q + 1 ELSE q
\* The height the frame would have at 16:9.
EffectiveHeight(frame) == Larger(frame.height, Rounded(frame.width))

\* With five percent of tolerance; 0 is no bound.
HeightMatches(min, max, media) ==
    LET heights == {EffectiveHeight(f) : f \in media.video}
        height == CHOOSE h \in heights : \A g \in heights : g <= h
    IN  /\ heights # {}
        /\ min > 0 => 100 * height >= 95 * min
        /\ max > 0 => 100 * height <= 105 * max

\* A track without a number of channels has none.
ChannelsMatch(min, media) ==
    \E t \in media.audio : IF t.channels = Unknown THEN min <= 0 ELSE t.channels >= min

\* PostProbeFilter.matches.
Inverted(invert, result) == result # invert
----------------------------------------------------------------------------
(* The index of Sonarr/Radarr: what it holds, when it was fetched, or that an
   attempt failed, and the times of the requests. *)

NoIndex == [holds |-> Unknown, fetched |-> Unknown, asked |-> <<>>]

RefreshBug(index, now, answer) ==
    IF answer = Unknown THEN [index EXCEPT !.asked = Append(@, now)]
    ELSE [holds |-> answer, fetched |-> now, asked |-> Append(index.asked, now)]
\* A server that does not answer is left alone as long as one that does.
Refresh(index, now, answer) ==
    [holds |-> IF answer = Unknown THEN index.holds ELSE answer,
     fetched |-> now, asked |-> Append(index.asked, now)]

Stale(index, now) == IF index.fetched = Unknown THEN TRUE ELSE now - index.fetched > Ttl
Found(index, now, answer) == IF Stale(index, now) THEN Refresh(index, now, answer) ELSE index

\* After lookups at times of the given steps, with what the server would answer.
Indexed(lookups) ==
    LET index[n \in 0 .. Len(lookups)] ==
            IF n = 0 THEN NoIndex ELSE Found(index[n - 1], lookups[n].at, lookups[n].answer)
    IN  index[Len(lookups)]
----------------------------------------------------------------------------
(* Properties. *)

\* Whatever spelling the file, Sonarr and the configuration use: a file passes a
\* language filter if it has the languages and the inverse of the filter if not, no
\* matter which prober answers; and both give it the same number of channels.
SpellingDoesNotCount(audio, groups, all) ==
    LET spoken == {a.is : a \in ToSet(audio)}
        wanted == IF all THEN \A g \in groups : g.is \in spoken ELSE \E g \in groups : g.is \in spoken
        filter == {g.tags : g \in groups}
        probed == FFProbe([i \in DOMAIN audio |->
                     [type |-> "audio", tag |-> audio[i].tag, channels |-> 6]])
        listed == Arr([languages |-> [i \in DOMAIN audio |-> audio[i].text],
                       channels |-> 51, frame |-> Unknown])
    IN  \A media \in {probed, listed} :
            /\ \A invert \in BOOLEAN :
                  Inverted(invert, LanguageMatches(filter, all, media)) <=> (wanted # invert)
            /\ ChannelsMatch(6, media) /\ ~ChannelsMatch(7, media)

\* A release counts as what it is sold as, cropped or not: it passes exactly the
\* bounds of its class, so no file is in the libraries of two classes.
ReleasesHaveOneClass(frame, class, classes) ==
    LET media == FFProbe(<<[type |-> "video", cover |-> FALSE, frame |-> frame],
                           [type |-> "video", cover |-> TRUE, frame |-> [width |-> 4000, height |-> 4000]]>>)
    IN  \A c \in classes : /\ HeightMatches(c, 0, media) <=> class >= c
                           /\ HeightMatches(0, c, media) <=> class <= c

\* However lookups and failures follow each other, Sonarr is asked for its
\* library at most once per cache_ttl, and the index is no older than that
\* unless the server failed since.
IndexIsRecentAndRare(lookups) ==
    LET index == Indexed(lookups)
        now == Last(lookups).at
    IN  lookups # <<>> =>
        /\ \A i, j \in DOMAIN index.asked : i < j => index.asked[j] - index.asked[i] > Ttl
        /\ (\A i \in DOMAIN lookups : lookups[i].answer # Unknown) => now - index.holds <= Ttl
=============================================================================
