------------------------------ MODULE TrackInfo ------------------------------
(* What the players show of a track: the playlist a radio address names        *)
(* (playlist_load), and the title, artist and album read from the first bytes  *)
(* of a file (web_radio.c and sd_player/tags.c share the parser).  A round of   *)
(* a loop is a step.  The bytes of a file are chosen where they are read, once  *)
(* each; offsets count bytes, the widths of the fields are scaled down.         *)
EXTENDS Naturals, Sequences

CONSTANTS
    Window,     \* TAG_PROBE_BYTES
    Header,     \* an ID3 tag header or frame header (10 bytes)
    Word,       \* a length field of a FLAC block (4 bytes)
    Safe,       \* one more than a syncsafe size holds (2^28)
    Mod,        \* one more than a 32-bit size or a size_t holds (2^32)
    Entries,    \* MAX_PLAYLIST
    Lines,      \* bound: lines of a playlist
    Tracks      \* bound: tracks begun

\* A size of 28 or 24 bits added to an offset in the window does not wrap.
ASSUME WidthAssumption == /\ {Window, Header, Word, Safe, Mod, Entries, Lines, Tracks} \subseteq Nat \ {0}
                          /\ Window + Word + Header + Safe <= Mod

VARIABLES
    at,      \* what the task is doing
    list,    \* s_pl and the locals of playlist_load
    cur,     \* the locals of the probe and of the parsers
    tags,    \* the caller's buffers for title, artist and album
    shown,   \* s_ti
    log      \* history: tracks begun, the furthest byte read or written

vars == <<at, list, cur, tags, shown, log>>

Fields == {"title", "artist", "album"}
Blank == [f \in Fields |-> ""]
Nothing == [of |-> 0, from |-> "none"]
NoList == [entries |-> <<>>, pending |-> 0, line |-> 0, after |-> 0]
NoCursor == [who |-> "none", got |-> 0, pos |-> 0, end |-> 0, wide |-> FALSE, left |-> 0]
AtRest == [f \in Fields |-> Nothing]

Init == at = "rest" /\ list = NoList /\ cur = NoCursor /\ tags = Blank /\ shown = AtRest
        /\ log = [tracks |-> 0, reach |-> 0]

-----------------------------------------------------------------------------
(* playlist_load.                                                            *)

LoadBegin == /\ at = "rest" /\ log.tracks < Tracks
             /\ at' = "lines" /\ list' = NoList /\ UNCHANGED <<cur, tags, shown, log>>

ALine == at = "lines" /\ list.line < Lines /\ UNCHANGED <<cur, tags, shown, log>>
Read == [list EXCEPT !.line = @ + 1]

\* an empty line, a directive, or an #EXTINF without a comma: nothing changes
OtherLine == ALine /\ list' = Read /\ at' = at
\* #EXTINF: what follows the comma, blank or not, waits for the next address
ExtInf(text) == ALine /\ list' = [Read EXCEPT !.pending = IF text THEN Read.line ELSE 0] /\ at' = at

\* Mutant: a skipped address leaves its title to the next one.
SkippedKeeping == [Read EXCEPT !.after = Read.line]
\* a relative address without a base, or too long with it: left out with its title
Skipped == [Read EXCEPT !.after = Read.line, !.pending = 0]
\* a full list: the rest of the text is not read (s_pl.truncated, only shown)
Address(usable) ==
    /\ ALine
    /\ IF Len(list.entries) >= Entries THEN list' = [NoList EXCEPT !.entries = list.entries] /\ at' = "listed"
       ELSE /\ at' = at
            /\ list' = IF ~usable THEN Skipped
                       ELSE [Skipped EXCEPT !.entries = Append(@, [title |-> list.pending, after |-> list.after])]

\* the text ends; a list without an address is refused
LoadEnd == /\ at = "lines"
           /\ at' = IF list.entries = <<>> THEN "rest" ELSE "listed"
           /\ list' = [NoList EXCEPT !.entries = list.entries]
           /\ UNCHANGED <<cur, tags, shown, log>>

-----------------------------------------------------------------------------
(* track_begin and the probe.                                                *)

\* Mutant: the artist and the album of the last track stay.
FallbackTitleOnly(from) ==
    [shown EXCEPT !["title"] = [of |-> log.tracks + 1, from |-> from]]
\* the title of the playlist or of the address or file name, never none
Fallback(from) ==
    [f \in Fields |-> IF f = "title" THEN [of |-> log.tracks + 1, from |-> from] ELSE Nothing]

Begin(who, from) ==
    /\ log.tracks < Tracks
    /\ shown' = Fallback(from)
    /\ log' = [tracks |-> log.tracks + 1, reach |-> 0]
    /\ cur' = [NoCursor EXCEPT !.who = who]
    /\ tags' = Blank
    /\ at' = "probe" /\ UNCHANGED list

\* title_from_url: what is left of the last segment of the address, if anything
UrlTitle(segment) == IF segment = "" THEN "unknown" ELSE "address"
\* the radio plays entry i, any one after a skip; a single address is not probed
RadioBegin == \E i \in 1..Len(list.entries), segment \in {"", "song"} :
    /\ at \in {"listed", "shown"} /\ cur.who # "sd"
    /\ Begin("radio", IF list.entries[i].title # 0 THEN "extinf" ELSE UrlTitle(segment))
\* sd_title_from_name: a file has a name; an extension that is none of audio stays
SdBegin == at \in {"rest", "shown"} /\ cur.who # "radio" /\ list.entries = <<>> /\ Begin("sd", "name")

\* a stop clears list and track (memset of s_ti)
Stop == /\ at \in {"shown", "listed"}
        /\ at' = "rest" /\ list' = NoList /\ cur' = NoCursor /\ tags' = Blank /\ shown' = AtRest
        /\ log' = [log EXCEPT !.reach = 0]

\* tags found replace the fallback, field by field
Finish == /\ at' = "shown"
          /\ shown' = [f \in Fields |-> IF tags[f] = "text" THEN [of |-> log.tracks, from |-> "tag"] ELSE shown[f]]
          /\ cur' = [NoCursor EXCEPT !.who = cur.who] /\ tags' = Blank
          /\ log' = [log EXCEPT !.reach = 0] /\ UNCHANGED list

\* no memory, no file, no answer: the fallback stays
ProbeFails == at = "probe" /\ Finish

Reached(n) == log' = [log EXCEPT !.reach = IF n > @ THEN n ELSE @]
\* fetch_event_handler: a piece is kept while it fits and is in time; fread reads
\* as much as there is
FetchData == \E n \in 1..Window, late \in BOOLEAN :
    /\ at = "probe" /\ cur.got < Window
    /\ LET keep == ~late /\ cur.got + n <= Window
       IN /\ cur' = IF keep THEN [cur EXCEPT !.got = @ + n] ELSE cur
          /\ Reached(cur'.got)
          /\ at' = IF ~keep \/ cur'.got = Window \/ cur.who = "sd" THEN "fetched" ELSE at
    /\ UNCHANGED <<list, tags, shown>>
FetchEnds == at = "probe" /\ at' = "fetched" /\ UNCHANGED <<list, cur, tags, shown, log>>

\* what the file begins with: a tag may be longer than what was fetched
TagEnd(size) == IF Header + size > cur.got THEN cur.got ELSE Header + size
\* only the SD player looks at the version of the tag
Versions == IF cur.who = "sd" THEN BOOLEAN ELSE {FALSE}
Id3Begin == \E size \in 0..Safe - 1, extended \in BOOLEAN, wide \in Versions :
    /\ at = "fetched"
    /\ IF cur.got < Header \/ extended THEN Finish
       ELSE /\ cur' = [cur EXCEPT !.pos = Header, !.end = TagEnd(size), !.wide = wide]
            /\ at' = "id3" /\ Reached(Header) /\ UNCHANGED <<list, tags, shown>>
FlacBegin ==
    /\ at = "fetched" /\ cur.got >= Word
    /\ cur' = [cur EXCEPT !.pos = Word] /\ at' = "flac"
    /\ Reached(Word) /\ UNCHANGED <<list, tags, shown>>
OtherBegin == at = "fetched" /\ Finish

-----------------------------------------------------------------------------
(* tag_parse_id3v2 and tag_parse_vorbis.                                     *)

Texts == [field : Fields \cup {"other"}, text : {"", "text"}]
\* copy_trim: a blank text empties the field
Stored(t) == IF t.field \in Fields THEN [tags EXCEPT ![t.field] = t.text] ELSE tags

\* Mutant: the sum is compared, and a 32-bit sum wraps.
FitsBySum(size, room) == (cur.end - room + size) % Mod <= cur.end
\* the size against what is left, not a sum that may wrap: version 2.3 has all 32
\* bits (the radio takes every size for syncsafe, and compares the sum)
Fits(size, room) == size <= room

\* a frame; padding, or a size of nothing or of more than is left, ends the tag
Id3Frame ==
    /\ at = "id3"
    /\ IF cur.pos + Header > cur.end THEN Finish
       ELSE \/ Finish
            \/ \E size \in 0..(IF cur.wide THEN Mod ELSE Safe) - 1, t \in Texts, utf8 \in BOOLEAN :
                 LET body == cur.pos + Header
                 IN IF size = 0 \/ ~Fits(size, cur.end - body) THEN Finish
                    ELSE /\ cur' = [cur EXCEPT !.pos = body + size]
                         /\ tags' = IF size >= 2 /\ utf8 THEN Stored(t) ELSE tags
                         /\ Reached(body + size)
                         /\ UNCHANGED <<at, list, shown>>

\* a metadata block; the one with the comments is read, once, if it is whole
FlacBlock ==
    /\ at = "flac"
    /\ IF cur.pos + Word > cur.got THEN Finish
       ELSE \E size \in 0..Safe - 1, kind \in {"comments", "other", "last"} :
              LET body == cur.pos + Word
              IN IF kind = "last" \/ body + size > cur.got THEN Finish
                 ELSE /\ cur' = [cur EXCEPT !.pos = IF kind = "comments" THEN body ELSE body + size,
                                            !.end = body + size]
                      /\ at' = IF kind = "comments" THEN "vendor" ELSE "flac"
                      /\ Reached(body) /\ UNCHANGED <<list, tags, shown>>

\* A length field at cur.pos, and what it leaves of the block.
Room == cur.end - cur.pos
HasWord(room) == room >= Word
\* the vendor string, then the number of comments
FlacVendor == \E size \in 0..Mod - 1, n \in 0..Window :
    /\ at = "vendor"
    /\ IF ~HasWord(Room) \/ ~Fits(size, Room - Word) \/ ~HasWord(Room - Word - size) THEN Finish
       ELSE /\ cur' = [cur EXCEPT !.pos = @ + Word + size + Word, !.left = n]
            /\ Reached(cur.pos + Word + size + Word)
            /\ at' = "comments" /\ UNCHANGED <<list, tags, shown>>

\* KEY=VALUE; the comments that are announced but not there are not read
FlacComment ==
    /\ at = "comments"
    /\ IF cur.left = 0 \/ ~HasWord(Room) THEN Finish
       ELSE \E size \in 0..Mod - 1, t \in Texts :
              IF ~Fits(size, Room - Word) THEN Finish
              ELSE /\ cur' = [cur EXCEPT !.pos = @ + Word + size, !.left = @ - 1]
                   /\ tags' = IF size > 0 THEN Stored(t) ELSE tags
                   /\ Reached(cur.pos + Word + size)
                   /\ UNCHANGED <<at, list, shown>>

Load == \/ LoadBegin \/ LoadEnd \/ OtherLine
        \/ \E b \in BOOLEAN : ExtInf(b) \/ Address(b)
Parse == Id3Begin \/ FlacBegin \/ OtherBegin \/ Id3Frame \/ FlacBlock \/ FlacVendor \/ FlacComment
Next == Load \/ RadioBegin \/ SdBegin \/ Stop \/ ProbeFails \/ FetchData \/ FetchEnds \/ Parse

\* The task that loads is scheduled, and the fetch has a time-out.
Fairness == WF_vars(FetchEnds) /\ WF_vars(Parse)
Spec == Init /\ [][Next]_vars /\ Fairness

-----------------------------------------------------------------------------
(* Properties.                                                               *)

\* Whatever sizes a file claims, nothing outside the bytes that were fetched is
\* read, and nothing outside the buffer is written (tag_parse_id3v2,
\* tag_parse_vorbis, fetch_event_handler).
ReadsInside == log.reach <= cur.got /\ cur.got <= Window /\ Len(list.entries) <= Entries

\* What is shown of a track is its own: no artist or title of an earlier track,
\* and the title of a playlist line never moves to another address (track_begin,
\* playlist_load).
OwnTitles == /\ \A f \in Fields : shown[f] # Nothing => shown[f].of = log.tracks
             /\ at = "shown" => shown["title"] # Nothing
             /\ \A i \in 1..Len(list.entries) : LET e == list.entries[i] IN e.title # 0 => e.title > e.after

\* Reading the tags ends, whatever the file claims.
ProbeEnds == (at = "probe") ~> (at = "shown")
=============================================================================
