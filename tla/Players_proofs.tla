--------------------------- MODULE Players_proofs ---------------------------
(* Proofs about the players.  TrackInfo, for windows, fields and lists of    *)
(* every size: the parsers stay inside what was fetched, and a title inside  *)
(* its track.  I2sOwner, for every number of operations: the sources that    *)
(* share the I2S channel hand it to each other.  Players, for playlists and   *)
(* rings of every length: one task of each kind lives, and songs follow in   *)
(* order.                                                                    *)
EXTENDS Players, SequenceTheorems, TLAPS

(* The values of the variables, as far as the proofs need them.              *)
Cursors == [who : {"none", "radio", "sd"}, got : Nat, pos : Nat, end : Nat, wide : BOOLEAN, left : Nat]
Logs == [tracks : Nat, reach : Nat]
Typed == cur \in Cursors /\ log \in Logs

(* Where the cursor may be: in the bytes fetched, and while a tag or a block *)
(* is read, not past its end.                                                *)
Held == log.reach <= cur.got /\ cur.got <= Window
Placed == /\ at = "flac" => cur.pos <= cur.got
          /\ at \in {"id3", "vendor", "comments"} => cur.pos <= cur.end /\ cur.end <= cur.got
CursorInv == Typed /\ Held /\ Placed

-----------------------------------------------------------------------------
(* A cursor put back, wherever the task goes to look at no file.             *)
LEMMA Rewound ==
  ASSUME WidthAssumption, log' \in Logs, log'.reach = 0,
         NEW w \in {"none", "radio", "sd"}, cur' = [NoCursor EXCEPT !.who = w],
         at' \notin {"flac", "id3", "vendor", "comments"}
  PROVE  CursorInv'
<1>1. cur' \in Cursors /\ cur'.got = 0
  BY DEF NoCursor, Cursors
<1>2. Window \in Nat
  BY DEF WidthAssumption
<1> QED
  BY <1>1, <1>2 DEF CursorInv, Typed, Held, Placed, Logs

LEMMA FinishStep ==
  ASSUME WidthAssumption, CursorInv, Finish
  PROVE  CursorInv'
<1>1. log' \in Logs /\ log'.reach = 0
  BY DEF Finish, CursorInv, Typed, Logs
<1>2. cur.who \in {"none", "radio", "sd"} /\ cur' = [NoCursor EXCEPT !.who = cur.who] /\ at' = "shown"
  BY DEF Finish, CursorInv, Typed, Cursors
<1> QED
  BY <1>1, <1>2, Rewound

(* A step forward: the cursor stays inside what was fetched.                 *)
LEMMA Advanced ==
  ASSUME CursorInv, NEW n \in Nat, n <= cur'.got, cur' \in Cursors, cur'.got <= Window,
         cur.got <= cur'.got, Reached(n), Placed'
  PROVE  CursorInv'
<1>1. log.reach \in Nat /\ log.reach <= cur.got /\ log \in Logs
  BY DEF CursorInv, Typed, Held, Logs
<1>2. log' = [log EXCEPT !.reach = IF n > @ THEN n ELSE @]
  BY DEF Reached
<1>3. log' \in Logs /\ log'.reach \in {n, log.reach}
  BY <1>1, <1>2 DEF Logs
<1>4. cur.got \in Nat /\ cur'.got \in Nat
  BY DEF CursorInv, Typed, Cursors
<1>5. log'.reach <= cur'.got
  BY <1>1, <1>3, <1>4
<1> QED
  BY <1>3, <1>5 DEF CursorInv, Typed, Held

(* What stays put is still inside.                                           *)
LEMMA CursorStays ==
  ASSUME CursorInv, UNCHANGED <<cur, log>>,
         at' = at \/ at' \notin {"flac", "id3", "vendor", "comments"}
  PROVE  CursorInv'
BY DEF CursorInv, Typed, Held, Placed

-----------------------------------------------------------------------------
(* The playlist and the choice of a track look at no file.                   *)
NoFile == UNCHANGED <<cur, log>> /\ (at' = at \/ at' \in {"lines", "listed", "rest"})

LEMMA LoadCursor ==
  ASSUME CursorInv, Load
  PROVE  CursorInv'
<1>1. NoFile
  <2>1. CASE LoadBegin
    BY <2>1 DEF LoadBegin, NoFile
  <2>2. CASE LoadEnd
    BY <2>2 DEF LoadEnd, NoFile
  <2>3. CASE OtherLine
    BY <2>3 DEF OtherLine, ALine, NoFile
  <2>4. ASSUME NEW b \in BOOLEAN, ExtInf(b) \/ Address(b) PROVE NoFile
    <3>1. CASE ExtInf(b)
      BY <3>1 DEF ExtInf, ALine, NoFile
    <3>2. CASE Address(b)
      BY <3>2 DEF Address, ALine, NoFile
    <3> QED
      BY <2>4, <3>1, <3>2
  <2> QED
    BY <2>1, <2>2, <2>3, <2>4 DEF Load
<1> QED
  BY <1>1, CursorStays DEF NoFile

LEMMA BeginCursor ==
  ASSUME WidthAssumption, CursorInv, RadioBegin \/ SdBegin \/ Stop
  PROVE  CursorInv'
<1>1. CASE Stop
  <2>1. log' \in Logs /\ log'.reach = 0
    BY <1>1 DEF Stop, CursorInv, Typed, Logs
  <2>2. cur' = [NoCursor EXCEPT !.who = "none"] /\ at' = "rest"
    BY <1>1 DEF Stop, NoCursor
  <2> QED
    BY <2>1, <2>2, Rewound
<1>2. CASE RadioBegin \/ SdBegin
  <2>1. PICK w \in {"radio", "sd"}, from \in {"extinf", "address", "unknown", "name"} : Begin(w, from)
    BY <1>2 DEF RadioBegin, SdBegin, UrlTitle
  <2>2. log' \in Logs /\ log'.reach = 0
    BY <2>1 DEF Begin, CursorInv, Typed, Logs
  <2>3. cur' = [NoCursor EXCEPT !.who = w] /\ at' = "probe"
    BY <2>1 DEF Begin
  <2> QED
    BY <2>2, <2>3, Rewound
<1> QED
  BY <1>1, <1>2

(* A piece of the file is kept only while it fits.                           *)
LEMMA FetchCursor ==
  ASSUME WidthAssumption, CursorInv, FetchData
  PROVE  CursorInv'
<1>1. PICK n \in 1..Window, late \in BOOLEAN :
        LET keep == ~late /\ cur.got + n <= Window
        IN /\ cur' = IF keep THEN [cur EXCEPT !.got = @ + n] ELSE cur
           /\ Reached(cur'.got)
           /\ at' = IF ~keep \/ cur'.got = Window \/ cur.who = "sd" THEN "fetched" ELSE at
  BY DEF FetchData
<1>2. at = "probe" /\ Window \in Nat
  BY DEF FetchData, WidthAssumption
<1>3. cur \in Cursors /\ cur.got \in Nat /\ cur.got <= Window
  BY DEF CursorInv, Typed, Held, Cursors
<1>4. cur' \in Cursors /\ cur'.got <= Window /\ cur.got <= cur'.got
  <2>1. CASE cur' = cur
    BY <2>1, <1>3
  <2>2. CASE cur' = [cur EXCEPT !.got = @ + n] /\ cur.got + n <= Window
    <3>1. cur.got + n \in Nat
      BY <1>2, <1>3
    <3>2. cur' = [cur EXCEPT !.got = cur.got + n]
      BY <2>2
    <3>3. cur'.got = cur.got + n
      BY <3>2, <1>3 DEF Cursors
    <3>4. cur' \in Cursors
      BY <3>1, <3>2, <1>3 DEF Cursors
    <3> QED
      BY <3>1, <3>3, <3>4, <2>2, <1>2, <1>3
  <2> QED
    BY <1>1, <2>1, <2>2
<1>5. at' \in {"fetched", "probe"}
  BY <1>1, <1>2
<1>6. Placed' /\ cur'.got \in Nat /\ cur'.got <= cur'.got
  BY <1>4, <1>5 DEF Placed, Cursors
<1> QED
  BY <1>1, <1>4, <1>6, Advanced

-----------------------------------------------------------------------------
(* The parsers.                                                              *)
LEMMA BeginParse ==
  ASSUME WidthAssumption, CursorInv, Id3Begin \/ FlacBegin \/ OtherBegin
  PROVE  CursorInv'
<1>1. Window \in Nat /\ Header \in Nat /\ Word \in Nat
  BY DEF WidthAssumption
<1>2. cur \in Cursors /\ cur.got \in Nat /\ cur.got <= Window
  BY DEF CursorInv, Typed, Held, Cursors
<1>3. CASE Finish
  BY <1>3, FinishStep
<1>4. CASE Id3Begin /\ ~Finish
  <2>1. PICK size \in 0..Safe - 1, extended \in BOOLEAN, v \in Versions :
          IF cur.got < Header \/ extended THEN Finish
          ELSE /\ cur' = [cur EXCEPT !.pos = Header, !.end = TagEnd(size), !.wide = v]
               /\ at' = "id3" /\ Reached(Header) /\ UNCHANGED <<list, tags, shown>>
    BY <1>4 DEF Id3Begin
  <2>2. /\ cur.got >= Header /\ at' = "id3" /\ Reached(Header)
        /\ cur' = [cur EXCEPT !.pos = Header, !.end = TagEnd(size), !.wide = v]
    BY <2>1, <1>4, <1>1, <1>2
  <2> DEFINE e == TagEnd(size)
  <2>e. e \in Nat /\ Header <= e /\ e <= cur.got
    BY <2>2, <1>1, <1>2 DEF TagEnd, WidthAssumption
  <2>v. v \in BOOLEAN
    BY DEF Versions
  <2> HIDE DEF e
  <2>3. cur' \in Cursors /\ cur'.got = cur.got /\ cur'.pos = Header /\ cur'.end = e
    <3>1. cur' = [cur EXCEPT !.pos = Header, !.end = e, !.wide = v]
      BY <2>2 DEF e
    <3> QED
      BY <3>1, <2>e, <2>v, <1>1, <1>2 DEF Cursors
  <2>4. Placed'
    BY <2>2, <2>e, <2>3, <1>1, <1>2 DEF Placed
  <2>5. Header <= cur'.got /\ cur'.got <= Window /\ cur.got <= cur'.got
    BY <2>2, <2>3, <1>1, <1>2
  <2> QED
    BY <2>2, <2>3, <2>4, <2>5, <1>1, Advanced
<1>5. CASE FlacBegin
  <2>1. cur' = [cur EXCEPT !.pos = Word] /\ at' = "flac" /\ Reached(Word) /\ cur.got >= Word
    BY <1>5 DEF FlacBegin
  <2>2. cur' \in Cursors /\ cur'.got = cur.got /\ cur'.pos = Word
    BY <2>1, <1>1, <1>2 DEF Cursors
  <2>3. Placed'
    BY <2>1, <2>2, <1>1, <1>2 DEF Placed
  <2>4. Word <= cur'.got /\ cur'.got <= Window /\ cur.got <= cur'.got
    BY <2>1, <2>2, <1>1, <1>2
  <2> QED
    BY <2>1, <2>2, <2>3, <2>4, <1>1, Advanced
<1> QED
  BY <1>3, <1>4, <1>5 DEF OtherBegin

LEMMA Id3Step ==
  ASSUME WidthAssumption, CursorInv, Id3Frame
  PROVE  CursorInv'
<1>1. Header \in Nat /\ Mod \in Nat /\ Safe \in Nat
  BY DEF WidthAssumption
<1>2. /\ cur \in Cursors /\ cur.got \in Nat /\ cur.pos \in Nat /\ cur.end \in Nat /\ cur.got <= Window
      /\ at = "id3" /\ cur.pos <= cur.end /\ cur.end <= cur.got
  BY DEF Id3Frame, CursorInv, Typed, Held, Placed, Cursors
<1>3. CASE Finish
  BY <1>3, FinishStep
<1>4. CASE ~Finish
  <2> DEFINE body == cur.pos + Header
  <2>1. PICK size \in 0..(IF cur.wide THEN Mod ELSE Safe) - 1 :
          /\ body <= cur.end /\ size <= cur.end - body
          /\ cur' = [cur EXCEPT !.pos = body + size]
          /\ Reached(body + size) /\ at' = at
    BY <1>4, <1>1, <1>2 DEF Id3Frame, Fits
  <2>2. size \in Nat /\ body + size \in Nat /\ body + size <= cur.end
    BY <2>1, <1>1, <1>2
  <2>3. cur' \in Cursors /\ cur'.got = cur.got /\ cur'.end = cur.end /\ cur'.pos = body + size
    BY <2>1, <2>2, <1>2 DEF Cursors
  <2>4. Placed'
    BY <2>1, <2>2, <2>3, <1>2 DEF Placed
  <2>5. Window \in Nat /\ body + size <= cur'.got /\ cur'.got <= Window /\ cur.got <= cur'.got
    BY <2>2, <2>3, <1>2 DEF WidthAssumption
  <2> QED
    BY <2>1, <2>2, <2>3, <2>4, <2>5, Advanced
<1> QED
  BY <1>3, <1>4

LEMMA BlockStep ==
  ASSUME WidthAssumption, CursorInv, FlacBlock
  PROVE  CursorInv'
<1>1. Word \in Nat /\ Safe \in Nat /\ Window \in Nat
  BY DEF WidthAssumption
<1>2. /\ cur \in Cursors /\ cur.got \in Nat /\ cur.pos \in Nat /\ cur.end \in Nat /\ cur.got <= Window
      /\ at = "flac" /\ cur.pos <= cur.got
  BY DEF FlacBlock, CursorInv, Typed, Held, Placed, Cursors
<1>3. CASE Finish
  BY <1>3, FinishStep
<1>4. CASE ~Finish
  <2> DEFINE body == cur.pos + Word
  <2>1. PICK size \in 0..Safe - 1, kind \in {"comments", "other"} :
          /\ body + size <= cur.got
          /\ cur' = [cur EXCEPT !.pos = IF kind = "comments" THEN body ELSE body + size, !.end = body + size]
          /\ at' = IF kind = "comments" THEN "vendor" ELSE "flac"
          /\ Reached(body)
    <3>1. PICK size \in 0..Safe - 1, kind \in {"comments", "other", "last"} :
            IF kind = "last" \/ body + size > cur.got THEN Finish
            ELSE /\ cur' = [cur EXCEPT !.pos = IF kind = "comments" THEN body ELSE body + size, !.end = body + size]
                 /\ at' = IF kind = "comments" THEN "vendor" ELSE "flac"
                 /\ Reached(body)
      BY <1>4 DEF FlacBlock
    <3>2. kind # "last" /\ ~(body + size > cur.got)
      BY <3>1, <1>4
    <3>3. body + size <= cur.got
      BY <3>2, <1>1, <1>2
    <3> QED
      BY <3>1, <3>2, <3>3
  <2>2. size \in Nat /\ body \in Nat /\ body + size \in Nat /\ body <= body + size
    BY <2>1, <1>1, <1>2
  <2>3. PICK p \in {body, body + size} : cur' = [cur EXCEPT !.pos = p, !.end = body + size]
    BY <2>1
  <2>4. cur' \in Cursors /\ cur'.got = cur.got /\ cur'.end = body + size /\ cur'.pos = p
    BY <2>2, <2>3, <1>2 DEF Cursors
  <2>5. Placed'
    <3>1. p <= body + size /\ body + size <= cur.got
      BY <2>1, <2>2, <2>3, <1>2
    <3>2. at' \in {"vendor", "flac"}
      BY <2>1
    <3> QED
      BY <2>2, <2>3, <2>4, <3>1, <3>2, <1>2 DEF Placed
  <2>6. body <= cur'.got /\ cur'.got <= Window /\ cur.got <= cur'.got
    BY <2>1, <2>2, <2>4, <1>1, <1>2
  <2> QED
    BY <2>1, <2>2, <2>4, <2>5, <2>6, Advanced
<1> QED
  BY <1>3, <1>4

LEMMA VendorStep ==
  ASSUME WidthAssumption, CursorInv, FlacVendor
  PROVE  CursorInv'
<1>1. Word \in Nat /\ Mod \in Nat /\ Window \in Nat
  BY DEF WidthAssumption
<1>2. /\ cur \in Cursors /\ cur.got \in Nat /\ cur.pos \in Nat /\ cur.end \in Nat /\ cur.got <= Window
      /\ at = "vendor" /\ cur.pos <= cur.end /\ cur.end <= cur.got
  BY DEF FlacVendor, CursorInv, Typed, Held, Placed, Cursors
<1>3. CASE Finish
  BY <1>3, FinishStep
<1>4. CASE ~Finish
  <2>1. PICK size \in 0..Mod - 1, n \in 0..Window :
          /\ HasWord(Room) /\ Fits(size, Room - Word) /\ HasWord(Room - Word - size)
          /\ cur' = [cur EXCEPT !.pos = @ + Word + size + Word, !.left = n]
          /\ Reached(cur.pos + Word + size + Word)
          /\ at' = "comments"
    BY <1>4 DEF FlacVendor
  <2> DEFINE p == cur.pos + Word + size + Word
  <2>2. p \in Nat /\ p <= cur.end /\ n \in Nat
    BY <2>1, <1>1, <1>2 DEF HasWord, Fits, Room
  <2>3. cur' \in Cursors /\ cur'.got = cur.got /\ cur'.end = cur.end /\ cur'.pos = p
    <3>1. cur' = [cur EXCEPT !.pos = p, !.left = n]
      BY <2>1
    <3> QED
      BY <3>1, <2>2, <1>2 DEF Cursors
  <2>4. Placed'
    BY <2>1, <2>2, <2>3, <1>2 DEF Placed
  <2>5. p <= cur'.got /\ cur'.got <= Window /\ cur.got <= cur'.got
    BY <2>2, <2>3, <1>1, <1>2
  <2> QED
    BY <2>1, <2>2, <2>3, <2>4, <2>5, Advanced
<1> QED
  BY <1>3, <1>4

LEMMA CommentStep ==
  ASSUME WidthAssumption, CursorInv, FlacComment
  PROVE  CursorInv'
<1>1. Word \in Nat /\ Mod \in Nat /\ Window \in Nat
  BY DEF WidthAssumption
<1>2. /\ cur \in Cursors /\ cur.got \in Nat /\ cur.pos \in Nat /\ cur.end \in Nat /\ cur.left \in Nat
      /\ cur.got <= Window /\ at = "comments" /\ cur.pos <= cur.end /\ cur.end <= cur.got
  BY DEF FlacComment, CursorInv, Typed, Held, Placed, Cursors
<1>3. CASE Finish
  BY <1>3, FinishStep
<1>4. CASE ~Finish
  <2>1. PICK size \in 0..Mod - 1 :
          /\ cur.left # 0 /\ HasWord(Room) /\ Fits(size, Room - Word)
          /\ cur' = [cur EXCEPT !.pos = @ + Word + size, !.left = @ - 1]
          /\ Reached(cur.pos + Word + size)
          /\ at' = at
    BY <1>4 DEF FlacComment
  <2> DEFINE p == cur.pos + Word + size
  <2>2. p \in Nat /\ p <= cur.end /\ cur.left - 1 \in Nat
    BY <2>1, <1>1, <1>2 DEF HasWord, Fits, Room
  <2>3. cur' \in Cursors /\ cur'.got = cur.got /\ cur'.end = cur.end /\ cur'.pos = p
    <3>1. cur' = [cur EXCEPT !.pos = p, !.left = cur.left - 1]
      BY <2>1
    <3> QED
      BY <3>1, <2>2, <1>2 DEF Cursors
  <2>4. Placed'
    BY <2>1, <2>2, <2>3, <1>2 DEF Placed
  <2>5. p <= cur'.got /\ cur'.got <= Window /\ cur.got <= cur'.got
    BY <2>2, <2>3, <1>1, <1>2
  <2> QED
    BY <2>1, <2>2, <2>3, <2>4, <2>5, Advanced
<1> QED
  BY <1>3, <1>4

-----------------------------------------------------------------------------
(* The playlist never outgrows its array, and a title waiting for an address *)
(* stands after the last address, taken or left out.                         *)
Entry == {e \in [title : Nat, after : Nat] : e.title # 0 => e.title > e.after}
Waiting == {l \in [entries : Seq(Entry), pending : Nat, line : Nat, after : Nat] :
              /\ Len(l.entries) <= Entries /\ l.pending <= l.line /\ l.after <= l.line
              /\ l.pending # 0 => l.pending > l.after}
ListInv == list \in Waiting

LEMMA ReadLine ==
  ASSUME ListInv
  PROVE  Read \in Waiting /\ Read.line = list.line + 1 /\ Read.entries = list.entries
<1>1. list.line + 1 \in Nat /\ list.pending <= list.line + 1 /\ list.after <= list.line + 1
  BY DEF ListInv, Waiting
<1> QED
  BY <1>1 DEF ListInv, Waiting, Read

LEMMA EmptyList ==
  ASSUME WidthAssumption
  PROVE  NoList \in Waiting
<1>1. <<>> \in Seq(Entry) /\ Len(<<>>) = 0
  OBVIOUS
<1>2. Entries \in Nat
  BY DEF WidthAssumption
<1> QED
  BY <1>1, <1>2 DEF NoList, Waiting

(* The locals of playlist_load go, its entries stay.                         *)
LEMMA KeptList ==
  ASSUME ListInv
  PROVE  [NoList EXCEPT !.entries = list.entries] \in Waiting
<1> DEFINE l == [NoList EXCEPT !.entries = list.entries]
<1>1. l = [entries |-> list.entries, pending |-> 0, line |-> 0, after |-> 0]
  BY DEF NoList
<1>2. list.entries \in Seq(Entry) /\ Len(list.entries) <= Entries
  BY DEF ListInv, Waiting
<1> QED
  BY <1>1, <1>2 DEF Waiting

LEMMA SkipLine ==
  ASSUME ListInv
  PROVE  Skipped \in Waiting /\ Skipped.entries = list.entries
<1> DEFINE n == list.line + 1
<1>1. list \in [entries : Seq(Entry), pending : Nat, line : Nat, after : Nat]
      /\ n \in Nat /\ Len(list.entries) <= Entries
  BY DEF ListInv, Waiting
<1>2. Skipped = [list EXCEPT !.line = n, !.after = n, !.pending = 0]
  BY <1>1 DEF Skipped, Read
<1> HIDE DEF n
<1>3. Skipped = [entries |-> list.entries, pending |-> 0, line |-> n, after |-> n]
  BY <1>1, <1>2
<1>4. n <= n /\ 0 <= n
  BY <1>1
<1> QED
  BY <1>1, <1>3, <1>4 DEF Waiting

LEMMA TakeLine ==
  ASSUME ListInv, WidthAssumption, Len(list.entries) < Entries
  PROVE  [Skipped EXCEPT !.entries = Append(@, [title |-> list.pending, after |-> list.after])] \in Waiting
<1> DEFINE e == [title |-> list.pending, after |-> list.after]
           s == Append(list.entries, e)
<1>1. e \in Entry
  BY DEF ListInv, Waiting, Entry
<1>2. list.entries \in Seq(Entry) /\ Entries \in Nat
  BY DEF ListInv, Waiting, WidthAssumption
<1>3. s \in Seq(Entry) /\ Len(s) = Len(list.entries) + 1 /\ Len(list.entries) \in Nat
  BY <1>1, <1>2
<1>4. Len(s) <= Entries
  BY <1>2, <1>3
<1>5. Skipped \in Waiting /\ Skipped.entries = list.entries
  BY SkipLine
<1> HIDE DEF s
<1>6. [Skipped EXCEPT !.entries = s] \in Waiting
  BY <1>3, <1>4, <1>5 DEF Waiting
<1>7. [Skipped EXCEPT !.entries = Append(@, e)] = [Skipped EXCEPT !.entries = s]
  BY <1>5 DEF s
<1> QED
  BY <1>6, <1>7

LEMMA ListStep ==
  ASSUME WidthAssumption, ListInv, [Next]_vars
  PROVE  ListInv'
<1>1. CASE list' = list
  BY <1>1 DEF ListInv
<1>2. CASE LoadBegin \/ Stop
  BY <1>2, EmptyList DEF LoadBegin, Stop, ListInv
<1>3. CASE LoadEnd
  BY <1>3, KeptList DEF LoadEnd, ListInv
<1>4. CASE OtherLine
  BY <1>4, ReadLine DEF OtherLine, ListInv
<1>5. ASSUME NEW b \in BOOLEAN, ExtInf(b) PROVE ListInv'
  <2>1. Read \in Waiting /\ Read.line = list.line + 1 /\ list.line \in Nat /\ Read.after = list.after
        /\ list.after \in Nat /\ list.after <= list.line
    BY ReadLine DEF ListInv, Waiting, Read
  <2>2. PICK p \in {0, Read.line} : list' = [Read EXCEPT !.pending = p]
    BY <1>5 DEF ExtInf
  <2>3. p \in Nat /\ p <= Read.line /\ (p # 0 => p > Read.after)
    BY <2>1, <2>2
  <2> QED
    BY <2>1, <2>2, <2>3 DEF ListInv, Waiting
<1>6. ASSUME NEW b \in BOOLEAN, Address(b) PROVE ListInv'
  <2>1. CASE list' = [NoList EXCEPT !.entries = list.entries]
    BY <2>1, KeptList DEF ListInv
  <2>2. CASE list' = Skipped
    BY <2>2, SkipLine DEF ListInv
  <2>3. CASE /\ Len(list.entries) < Entries
             /\ list' = [Skipped EXCEPT !.entries = Append(@, [title |-> list.pending, after |-> list.after])]
    BY <2>3, TakeLine DEF ListInv
  <2>4. Len(list.entries) \in Nat /\ Entries \in Nat
    BY DEF ListInv, Waiting, WidthAssumption
  <2>5. CASE Len(list.entries) >= Entries
    BY <1>6, <2>1, <2>5 DEF Address
  <2>6. CASE Len(list.entries) < Entries
    <3>1. ~(Len(list.entries) >= Entries)
      BY <2>4, <2>6
    <3>2. CASE b
      BY <1>6, <2>3, <2>6, <3>1, <3>2 DEF Address
    <3>3. CASE ~b
      BY <1>6, <2>2, <3>1, <3>3 DEF Address
    <3> QED
      BY <3>2, <3>3
  <2> QED
    BY <2>4, <2>5, <2>6
<1>7. Finish => list' = list
  BY DEF Finish
<1>8. (RadioBegin \/ SdBegin) => list' = list
  BY DEF RadioBegin, SdBegin, Begin
<1>9. (ProbeFails \/ FetchData \/ FetchEnds) => list' = list
  BY <1>7 DEF ProbeFails, FetchData, FetchEnds
<1>10. Parse => list' = list
  BY <1>7 DEF Parse, Id3Begin, FlacBegin, OtherBegin, Id3Frame, FlacBlock, FlacVendor, FlacComment
<1>11. CASE Load
  BY <1>11, <1>2, <1>3, <1>4, <1>5, <1>6 DEF Load
<1>12. CASE UNCHANGED vars
  BY <1>12, <1>1 DEF vars
<1> QED
  BY <1>1, <1>2, <1>8, <1>9, <1>10, <1>11, <1>12 DEF Next

-----------------------------------------------------------------------------
(* All that is invariant about the bytes and the playlist.                   *)
LEMMA CursorStep ==
  ASSUME WidthAssumption, CursorInv, [Next]_vars
  PROVE  CursorInv'
<1>1. CASE Load
  BY <1>1, LoadCursor
<1>2. CASE RadioBegin \/ SdBegin \/ Stop
  BY <1>2, BeginCursor
<1>3. CASE ProbeFails
  BY <1>3, FinishStep DEF ProbeFails
<1>4. CASE FetchData
  BY <1>4, FetchCursor
<1>5. CASE FetchEnds
  BY <1>5, CursorStays DEF FetchEnds
<1>6. CASE Parse
  BY <1>6, BeginParse, Id3Step, BlockStep, VendorStep, CommentStep DEF Parse
<1>7. CASE UNCHANGED vars
  BY <1>7, CursorStays DEF vars
<1> QED
  BY <1>1, <1>2, <1>3, <1>4, <1>5, <1>6, <1>7 DEF Next

(* Whatever sizes a file claims, the parsers read no byte that was not       *)
(* fetched, the fetch writes none outside its buffer, and the playlist never *)
(* outgrows its array (tags.c, web_radio.c).                                 *)
THEOREM StaysInside == Spec => []ReadsInside
<1> USE WidthAssumption
<1>1. Init => CursorInv /\ ListInv
  <2> SUFFICES ASSUME Init PROVE CursorInv /\ ListInv
    OBVIOUS
  <2>1. CursorInv
    BY DEF Init, CursorInv, Typed, Held, Placed, Cursors, Logs, NoCursor, WidthAssumption
  <2>2. ListInv
    BY EmptyList DEF Init, ListInv
  <2> QED
    BY <2>1, <2>2
<1>2. CursorInv /\ ListInv /\ [Next]_vars => (CursorInv /\ ListInv)'
  BY CursorStep, ListStep
<1>3. CursorInv /\ ListInv => ReadsInside
  BY DEF CursorInv, Held, ListInv, Waiting, ReadsInside
<1> QED
  BY <1>1, <1>2, <1>3, PTL DEF Spec

-----------------------------------------------------------------------------
(* What is shown belongs to the track in force, and a track has a title.     *)
Idle == {"rest", "lines", "listed"}
Sources == {"none", "tag", "extinf", "address", "unknown", "name"}
Titles == [of : Nat, from : Sources]
Mine == \A f \in Fields : shown[f] # Nothing => shown[f].of = log.tracks
Titled == at \notin Idle => shown["title"] # Nothing
ShownInv == shown \in [Fields -> Titles] /\ Mine /\ Titled

LEMMA TitleOf ==
  ASSUME NEW n \in Nat, NEW from \in Sources, from # "none"
  PROVE  LET t == [of |-> n, from |-> from] IN t \in Titles /\ t.of = n /\ t # Nothing /\ Nothing \in Titles
<1> DEFINE t == [of |-> n, from |-> from]
<1>1. t.from = from /\ Nothing.from = "none"
  BY DEF Nothing
<1>2. Nothing \in Titles /\ t \in Titles /\ t.of = n
  BY DEF Nothing, Titles, Sources
<1> HIDE DEF t
<1>3. t # Nothing
  BY <1>1
<1> QED
  BY <1>2, <1>3 DEF t

(* A step that leaves the track alone.                                       *)
SameTrack == shown' = shown /\ log'.tracks = log.tracks /\ (at' \in Idle \/ at \notin Idle)

LEMMA SameTrackStep ==
  ASSUME ShownInv, SameTrack
  PROVE  ShownInv'
BY DEF ShownInv, SameTrack, Mine, Titled

(* Finish keeps the title the track began with, or takes the tag's.          *)
LEMMA FinishShown ==
  ASSUME Typed, ShownInv, Finish, at \notin Idle
  PROVE  ShownInv'
<1> DEFINE own == [of |-> log.tracks, from |-> "tag"]
<1>1. own \in Titles /\ own.of = log.tracks /\ own # Nothing
  BY TitleOf DEF Typed, Logs, Sources
<1>2. shown' = [f \in Fields |-> IF tags[f] = "text" THEN own ELSE shown[f]]
  BY DEF Finish
<1> HIDE DEF own
<1>3. log'.tracks = log.tracks
  BY DEF Finish, Typed, Logs
<1>4. shown' \in [Fields -> Titles]
  BY <1>1, <1>2 DEF ShownInv
<1>5. Mine'
  BY <1>1, <1>2, <1>3 DEF ShownInv, Mine
<1>6. shown["title"] # Nothing /\ "title" \in Fields
  BY DEF ShownInv, Titled, Fields
<1>7. shown'["title"] # Nothing
  BY <1>1, <1>2, <1>6
<1> QED
  BY <1>4, <1>5, <1>7 DEF ShownInv, Titled

LEMMA BeginShown ==
  ASSUME Typed, NEW w, NEW from \in Sources, from # "none", Begin(w, from)
  PROVE  ShownInv'
<1> DEFINE n == log.tracks + 1
           own == [of |-> n, from |-> from]
<1>1. n \in Nat
  BY DEF Typed, Logs
<1>2. log'.tracks = n
  BY DEF Begin
<1> HIDE DEF n
<1>3. own \in Titles /\ own.of = n /\ own # Nothing /\ Nothing \in Titles
  BY <1>1, TitleOf
<1>4. shown' = [f \in Fields |-> IF f = "title" THEN own ELSE Nothing]
  BY DEF Begin, Fallback, n
<1> HIDE DEF own
<1>5. shown' \in [Fields -> Titles]
  BY <1>3, <1>4
<1>6. Mine'
  BY <1>2, <1>3, <1>4 DEF Mine
<1>7. shown'["title"] # Nothing
  BY <1>3, <1>4 DEF Fields
<1> QED
  BY <1>5, <1>6, <1>7 DEF ShownInv, Titled

LEMMA ShownStep ==
  ASSUME Typed, ShownInv, [Next]_vars
  PROVE  ShownInv'
<1>1. CASE SameTrack
  BY <1>1, SameTrackStep
<1>2. CASE Load
  <2>1. SameTrack
    <3>1. CASE LoadBegin \/ LoadEnd
      BY <3>1 DEF LoadBegin, LoadEnd, Idle, SameTrack
    <3>2. CASE OtherLine
      BY <3>2 DEF OtherLine, ALine, Idle, SameTrack
    <3>3. ASSUME NEW b \in BOOLEAN, ExtInf(b) PROVE SameTrack
      BY <3>3 DEF ExtInf, ALine, Idle, SameTrack
    <3>4. ASSUME NEW b \in BOOLEAN, Address(b) PROVE SameTrack
      BY <3>4 DEF Address, ALine, Idle, SameTrack
    <3> QED
      BY <1>2, <3>1, <3>2, <3>3, <3>4 DEF Load
  <2> QED
    BY <2>1, <1>1
<1>3. CASE RadioBegin
  <2>1. PICK i \in 1..Len(list.entries), segment \in {"", "song"} :
          Begin("radio", IF list.entries[i].title # 0 THEN "extinf" ELSE UrlTitle(segment))
    BY <1>3 DEF RadioBegin
  <2>2. PICK from \in {"extinf", "address", "unknown"} : Begin("radio", from)
    BY <2>1 DEF UrlTitle
  <2> QED
    BY <2>2, BeginShown DEF Sources
<1>4. CASE SdBegin
  BY <1>4, BeginShown DEF SdBegin, Sources
<1>5. CASE Stop
  <2>1. \A f \in Fields : shown'[f] = Nothing
    BY <1>5 DEF Stop, AtRest
  <2>2. shown' \in [Fields -> Titles]
    BY <1>5 DEF Stop, AtRest, Nothing, Titles, Sources
  <2>3. at' \in Idle
    BY <1>5 DEF Stop, Idle
  <2> QED
    BY <2>1, <2>2, <2>3 DEF ShownInv, Mine, Titled
<1>6. CASE Finish /\ at \notin Idle
  BY <1>6, FinishShown
<1>7. CASE FetchEnds \/ UNCHANGED vars
  BY <1>7, <1>1 DEF FetchEnds, vars, SameTrack, Idle
<1>8. CASE ProbeFails \/ (Parse /\ Finish)
  <2>1. Finish /\ at \notin Idle
    BY <1>8 DEF ProbeFails, Parse, Id3Begin, FlacBegin, OtherBegin, Id3Frame, FlacBlock, FlacVendor,
                FlacComment, Idle
  <2> QED
    BY <2>1, <1>6
<1>9. CASE FetchData \/ (Parse /\ ~Finish)
  <2>1. shown' = shown /\ at \notin Idle /\ \E n : Reached(n)
    BY <1>9 DEF FetchData, Parse, Id3Begin, FlacBegin, OtherBegin, Id3Frame, FlacBlock, FlacVendor,
                FlacComment, Idle
  <2>2. log'.tracks = log.tracks
    BY <2>1 DEF Reached, Typed, Logs
  <2> QED
    BY <2>1, <2>2, <1>1 DEF SameTrack
<1> QED
  BY <1>2, <1>3, <1>4, <1>5, <1>7, <1>8, <1>9 DEF Next

(* No track shows the title, artist or album of another, every track shows a *)
(* title, and in a playlist a title belongs to the address that follows it   *)
(* (track_begin, playlist_load).                                             *)
THEOREM TitlesAreOwn == Spec => []OwnTitles
<1> USE WidthAssumption
<1> DEFINE Inv == CursorInv /\ ListInv /\ ShownInv
<1>1. Init => Inv
  <2> SUFFICES ASSUME Init PROVE Inv
    OBVIOUS
  <2>1. CursorInv
    BY DEF Init, CursorInv, Typed, Held, Placed, Cursors, Logs, NoCursor, WidthAssumption
  <2>2. ListInv
    BY EmptyList DEF Init, ListInv
  <2>3. ShownInv
    <3>1. \A f \in Fields : shown[f] = Nothing
      BY DEF Init, AtRest
    <3>2. shown \in [Fields -> Titles]
      BY DEF Init, AtRest, Nothing, Titles, Sources
    <3>3. at \in Idle
      BY DEF Init, Idle
    <3> QED
      BY <3>1, <3>2, <3>3 DEF ShownInv, Mine, Titled
  <2> QED
    BY <2>1, <2>2, <2>3
<1>2. Inv /\ [Next]_vars => Inv'
  BY CursorStep, ListStep, ShownStep DEF CursorInv
<1>3. Inv => OwnTitles
  <2> SUFFICES ASSUME Inv PROVE OwnTitles
    OBVIOUS
  <2>1. \A i \in 1..Len(list.entries) : list.entries[i] \in Entry
    BY DEF ListInv, Waiting
  <2>2. at = "shown" => shown["title"] # Nothing
    BY DEF ShownInv, Titled, Idle
  <2> QED
    BY <2>1, <2>2 DEF OwnTitles, ShownInv, Mine, Entry
<1> QED
  BY <1>1, <1>2, <1>3, PTL DEF Spec

-----------------------------------------------------------------------------
(* What is left of a program from its step k on.                           *)
Suffix(P, k) == SubSeq(P, k, Len(P))

LEMMA SuffixIs ==
  ASSUME NEW A, NEW P \in Seq(A), NEW k \in 1 .. Len(P) + 1
  PROVE  /\ Suffix(P, k) \in Seq(A) /\ Len(Suffix(P, k)) = Len(P) + 1 - k
         /\ \A i \in 1 .. Len(P) + 1 - k : Suffix(P, k)[i] = P[k + i - 1]
         /\ k = Len(P) + 1 => Suffix(P, k) = <<>>
         /\ k <= Len(P) => Suffix(P, k) # <<>>
<1>1. Len(P) \in Nat
  OBVIOUS
<1>2. /\ Suffix(P, k) \in Seq(A) /\ Len(Suffix(P, k)) = Len(P) + 1 - k
      /\ \A i \in 1 .. Len(P) + 1 - k : Suffix(P, k)[i] = P[k + i - 1]
  BY <1>1, SubSeqProperties DEF Suffix
<1> QED
  BY <1>1, <1>2, EmptySeq

(* Its first step, what is left after that, and after three.               *)
LEMMA SuffixMoves ==
  ASSUME NEW A, NEW P \in Seq(A), NEW k \in 1 .. Len(P)
  PROVE  /\ Suffix(P, k) # <<>> /\ Head(Suffix(P, k)) = P[k]
         /\ Tail(Suffix(P, k)) = Suffix(P, k + 1)
         /\ k + 3 <= Len(P) + 1 => SubSeq(Suffix(P, k), 4, Len(Suffix(P, k))) = Suffix(P, k + 3)
<1>1. Len(P) \in Nat /\ k \in Nat
  OBVIOUS
<1>2. Suffix(P, k) # <<>> /\ Suffix(P, k) \in Seq(A) /\ Len(Suffix(P, k)) = Len(P) + 1 - k
  BY <1>1, SuffixIs
<1>3. Head(Suffix(P, k)) = P[k] /\ Tail(Suffix(P, k)) = Suffix(P, k + 1)
  <2>1. Len(P) \in k .. Len(P)
    BY <1>1
  <2> QED
    BY <2>1, HeadTailOfSubSeq DEF Suffix
<1>4. CASE k + 3 <= Len(P)
  <2>1. 4 \in 1 .. Len(P) - k + 1 /\ Len(P) + 1 - k \in 1 .. Len(P) - k + 1 /\ Len(P) \in 1 .. Len(P)
    BY <1>1, <1>4
  <2>2. SubSeq(SubSeq(P, k, Len(P)), 4, Len(P) + 1 - k) = SubSeq(P, k + 4 - 1, k + (Len(P) + 1 - k) - 1)
    BY <2>1, SubSeqOfSubSeq
  <2>3. k + 4 - 1 = k + 3 /\ k + (Len(P) + 1 - k) - 1 = Len(P)
    BY <1>1
  <2> QED
    BY <1>2, <1>3, <2>2, <2>3 DEF Suffix
<1>5. CASE k + 3 = Len(P) + 1
  <2>1. SubSeq(Suffix(P, k), 4, Len(Suffix(P, k))) = <<>>
    BY <1>1, <1>2, <1>5, SubSeqEmpty
  <2>2. Suffix(P, k + 3) = <<>>
    BY <1>1, <1>5, SubSeqEmpty DEF Suffix
  <2> QED
    BY <1>2, <1>3, <2>1, <2>2
<1> QED
  BY <1>1, <1>2, <1>3, <1>4, <1>5

-----------------------------------------------------------------------------
(* The programs, step by step.                                             *)
Steps == [op : {"stop", "restop", "check", "rate", "start", "claim", "take", "go", "services",
                "btrate", "btgo", "btend"},
          p : {"", "radio", "sd", "off", "on"}]

LEMMA PlayProgram ==
  ASSUME NEW p \in Players
  PROVE  /\ PlayOf(p) \in Seq(Steps) /\ Len(PlayOf(p)) = 5
         /\ PlayOf(p)[1] = Do("stop", Other(p)) /\ PlayOf(p)[2] = Do("restop", p)
         /\ PlayOf(p)[3] = Do("claim", p) /\ PlayOf(p)[4] = Do("take", "") /\ PlayOf(p)[5] = Do("go", p)
<1>1. CASE p = "radio"
  BY <1>1 DEF PlayOf, Steps, Do, Other
<1>2. CASE p = "sd"
  BY <1>2 DEF PlayOf, Steps, Do, Other
<1> QED
  BY <1>1, <1>2 DEF Players

(* Two programs one after the other.                                       *)
LEMMA Joined ==
  ASSUME NEW s \in Seq(Steps), NEW r \in Seq(Steps)
  PROVE  /\ s \o r \in Seq(Steps) /\ Len(s \o r) = Len(s) + Len(r)
         /\ \A i \in 1 .. Len(s) : (s \o r)[i] = s[i]
         /\ \A i \in Len(s) + 1 .. Len(s) + Len(r) : (s \o r)[i] = r[i - Len(s)]
<1>1. /\ s \o r \in Seq(Steps) /\ Len(s \o r) = Len(s) + Len(r)
      /\ \A i \in 1 .. Len(s) + Len(r) : (s \o r)[i] = IF i <= Len(s) THEN s[i] ELSE r[i - Len(s)]
  BY ConcatProperties
<1>2. Len(s) \in Nat /\ Len(r) \in Nat
  OBVIOUS
<1> QED
  BY <1>1, <1>2

LEMMA ResumeProgram ==
  /\ Resume \in Seq(Steps) /\ Len(Resume) = 3
  /\ Resume[1] = Do("check", "") /\ Resume[2] = Do("rate", "") /\ Resume[3] = Do("start", "")
BY DEF Resume, Steps, Do

LEMMA StopProgram ==
  ASSUME NEW p \in Players
  PROVE  /\ StopOf(p) \in Seq(Steps) /\ Len(StopOf(p)) = 4
         /\ StopOf(p)[1] = Do("stop", p) /\ StopOf(p)[2] = Do("check", "")
         /\ StopOf(p)[3] = Do("rate", "") /\ StopOf(p)[4] = Do("start", "")
<1>1. PICK s : s = <<Do("stop", p)>>
  OBVIOUS
<1>2. s \in Seq(Steps) /\ Len(s) = 1 /\ s[1] = Do("stop", p)
  <2>1. Do("stop", p) \in Steps
    BY DEF Steps, Do, Players
  <2> QED
    BY <1>1, <2>1
<1>3. StopOf(p) = s \o Resume
  BY <1>1 DEF StopOf
<1>4. /\ StopOf(p) \in Seq(Steps) /\ Len(StopOf(p)) = 4 /\ StopOf(p)[1] = s[1]
      /\ \A i \in 2 .. 4 : StopOf(p)[i] = Resume[i - 1]
  <2>1. PICK r : r = Resume
    OBVIOUS
  <2>2. r \in Seq(Steps) /\ Len(r) = 3
    BY <2>1, ResumeProgram
  <2>3. /\ s \o r \in Seq(Steps) /\ Len(s \o r) = Len(s) + Len(r)
        /\ \A i \in 1 .. Len(s) : (s \o r)[i] = s[i]
        /\ \A i \in Len(s) + 1 .. Len(s) + Len(r) : (s \o r)[i] = r[i - Len(s)]
    BY <1>2, <2>2, Joined
  <2> QED
    BY <1>2, <1>3, <2>1, <2>2, <2>3
<1>5. /\ StopOf(p)[2] = Resume[1] /\ StopOf(p)[3] = Resume[2] /\ StopOf(p)[4] = Resume[3]
  BY <1>4
<1> QED
  BY <1>2, <1>4, <1>5, ResumeProgram

LEMMA YieldProgram ==
  /\ YieldAll \in Seq(Steps) /\ Len(YieldAll) = 8
  /\ YieldAll[1] = Do("stop", "radio") /\ YieldAll[2] = Do("check", "")
  /\ YieldAll[3] = Do("rate", "") /\ YieldAll[4] = Do("start", "")
  /\ YieldAll[5] = Do("stop", "sd") /\ YieldAll[6] = Do("check", "")
  /\ YieldAll[7] = Do("rate", "") /\ YieldAll[8] = Do("start", "")
<1>1. PICK s : s = StopOf("radio")
  OBVIOUS
<1>2. PICK h : h = <<Do("stop", "sd")>>
  OBVIOUS
<1>3. PICK u : u = s \o h
  OBVIOUS
<1>4. /\ s \in Seq(Steps) /\ Len(s) = 4 /\ s[1] = Do("stop", "radio")
      /\ s[2] = Do("check", "") /\ s[3] = Do("rate", "") /\ s[4] = Do("start", "")
  <2>1. "radio" \in Players
    BY DEF Players
  <2> QED
    BY <1>1, <2>1, StopProgram
<1>5. h \in Seq(Steps) /\ Len(h) = 1 /\ h[1] = Do("stop", "sd")
  <2>1. Do("stop", "sd") \in Steps
    BY DEF Steps, Do
  <2> QED
    BY <1>2, <2>1
<1>6. u \in Seq(Steps) /\ Len(u) = 5 /\ (\A i \in 1 .. 4 : u[i] = s[i]) /\ u[5] = h[1]
  <2>1. /\ s \o h \in Seq(Steps) /\ Len(s \o h) = Len(s) + Len(h)
        /\ \A i \in 1 .. Len(s) : (s \o h)[i] = s[i]
        /\ \A i \in Len(s) + 1 .. Len(s) + Len(h) : (s \o h)[i] = h[i - Len(s)]
    BY <1>4, <1>5, Joined
  <2>2. /\ u \in Seq(Steps) /\ Len(u) = Len(s) + Len(h)
        /\ \A i \in 1 .. Len(s) : u[i] = s[i]
        /\ \A i \in Len(s) + 1 .. Len(s) + Len(h) : u[i] = h[i - Len(s)]
    BY <1>3, <2>1
  <2>3. Len(s) = 4 /\ Len(h) = 1
    BY <1>4, <1>5
  <2>4. u[5] = h[5 - 4]
    BY <2>2, <2>3
  <2> QED
    BY <2>2, <2>3, <2>4
<1>7. YieldAll = u \o Resume
  BY <1>1, <1>2, <1>3 DEF YieldAll, StopOf
<1>8. /\ YieldAll \in Seq(Steps) /\ Len(YieldAll) = 8
      /\ \A i \in 1 .. 5 : YieldAll[i] = u[i]
      /\ \A i \in 6 .. 8 : YieldAll[i] = Resume[i - 5]
  <2>1. PICK r : r = Resume
    OBVIOUS
  <2>2. r \in Seq(Steps) /\ Len(r) = 3
    BY <2>1, ResumeProgram
  <2>3. /\ u \o r \in Seq(Steps) /\ Len(u \o r) = Len(u) + Len(r)
        /\ \A i \in 1 .. Len(u) : (u \o r)[i] = u[i]
        /\ \A i \in Len(u) + 1 .. Len(u) + Len(r) : (u \o r)[i] = r[i - Len(u)]
    BY <1>6, <2>2, Joined
  <2> QED
    BY <1>6, <1>7, <2>1, <2>2, <2>3
<1>9. /\ YieldAll[1] = s[1] /\ YieldAll[2] = s[2] /\ YieldAll[3] = s[3] /\ YieldAll[4] = s[4]
      /\ YieldAll[5] = h[1]
      /\ YieldAll[6] = Resume[1] /\ YieldAll[7] = Resume[2] /\ YieldAll[8] = Resume[3]
  BY <1>6, <1>8
<1> QED
  BY <1>4, <1>5, <1>8, <1>9, ResumeProgram

LEMMA UpProgram ==
  /\ BtUp \in Seq(Steps) /\ Len(BtUp) = 5
  /\ BtUp[1] = Do("services", "off") /\ BtUp[2] = Do("stop", "radio") /\ BtUp[3] = Do("stop", "sd")
  /\ BtUp[4] = Do("btrate", "") /\ BtUp[5] = Do("btgo", "")
BY DEF BtUp, Steps, Do

LEMMA DownProgram ==
  /\ BtDown \in Seq(Steps) /\ Len(BtDown) = 2
  /\ BtDown[1] = Do("btend", "") /\ BtDown[2] = Do("services", "on")
BY DEF BtDown, Steps, Do

-----------------------------------------------------------------------------
(* Who holds the channel.                                                  *)
Inactive(p) == ~pl[p].active /\ ~pl[p].task
AllInactive == \A p \in Players : Inactive(p)
NoTask == \A p \in Players : ~pl[p].task
AirPlays == out.task = "run" /\ out.running /\ out.rate = "base" /\ AllInactive
Released == out.task = "none" /\ ~owns
Shared == AirPlays \/ Released
Settled == started /\ (AirPlays \/ (Released /\ ~calls.session))
Silent == ~started /\ out.task = "none" /\ ~calls.session
Between == IF bt.on THEN Silent /\ AllInactive ELSE Settled
Claiming == owns /\ AllInactive /\ (AirPlays \/ out.task = "none")

(* What a caller has achieved before step k of its program.                *)
PlayStage(p, k) ==
  /\ ~bt.on /\ started /\ ~calls.session
  /\ k \in 1 .. 3 => Shared
  /\ k = 2 => Inactive(Other(p))
  /\ k = 3 => AllInactive
  /\ k \in 4 .. 5 => NoTask /\ pl[p].active
  /\ k = 5 => Released
StopStage(k) ==
  /\ ~bt.on /\ started
  /\ k \in 1 .. 2 => Settled
  /\ k \in 3 .. 4 => Claiming /\ (calls.session => AirPlays)
  /\ k = 4 => out.rate = "base"
YieldStage(k) ==
  /\ ~bt.on /\ started
  /\ k \in {1, 2, 5, 6} => Shared
  /\ k \in {2, 5} => Inactive("radio")
  /\ k = 6 => AllInactive
  /\ k \in {3, 4, 7, 8} => Claiming
  /\ k \in {4, 8} => out.rate = "base"
UpStage(k) ==
  /\ bt.on /\ ~calls.session
  /\ k = 1 => started /\ (out.task = "none" \/ AllInactive)
  /\ k > 1 => Silent
  /\ k = 3 => Inactive("radio")
  /\ k > 3 => AllInactive
DownStage(k) == ~bt.on /\ Silent /\ AllInactive /\ (k = 2 => out.rate = "base")
NetStage == ~bt.on /\ Settled

Plays(c) == \E p \in Players, k \in 1 .. 5 : todo[c] = Suffix(PlayOf(p), k) /\ PlayStage(p, k)
Stops(c) == \E p \in Players, k \in 1 .. 4 : todo[c] = Suffix(StopOf(p), k) /\ StopStage(k)
Yields(c) == \E k \in 1 .. 8 : todo[c] = Suffix(YieldAll, k) /\ YieldStage(k)
GoesUp(c) == \E k \in 1 .. 5 : todo[c] = Suffix(BtUp, k) /\ UpStage(k)
GoesDown(c) == \E k \in 1 .. 2 : todo[c] = Suffix(BtDown, k) /\ DownStage(k)
Restarts(c) == todo[c] = <<Do("services", "on")>> /\ NetStage
Stage(c) == Plays(c) \/ Stops(c) \/ Yields(c) \/ GoesUp(c) \/ GoesDown(c) \/ Restarts(c)

(* As long as the history is clean, at most one caller is at work, and its *)
(* program has brought the channel as far as its stage says.               *)
ChannelTyped ==
  /\ DOMAIN out = {"task", "running", "rate"} /\ out.task \in {"none", "run"}
  /\ DOMAIN pl = Players
  /\ \A p \in Players : DOMAIN pl[p] = {"active", "task", "rated"} /\ (pl[p].task => pl[p].active)
  /\ DOMAIN bt = {"on", "writer"} /\ DOMAIN todo = Callers
Alone(c) == todo[c] # <<>> /\ \A d \in Callers \ {c} : todo[d] = <<>>
State == (Rest /\ Between) \/ \E c \in Callers : Alone(c) /\ Stage(c)
OwnerInv ==
  /\ DOMAIN calls = {"ops", "clean", "session"} /\ calls.clean \in BOOLEAN
  /\ calls.clean => ChannelTyped /\ State

LEMMA OwnerStarts == OwnerInit => OwnerInv
<1> SUFFICES ASSUME OwnerInit PROVE OwnerInv
  OBVIOUS
<1>1. DOMAIN calls = {"ops", "clean", "session"} /\ calls.clean \in BOOLEAN
  BY DEF OwnerInit
<1>2. ChannelTyped
  BY DEF OwnerInit, ChannelTyped
<1>3. Rest /\ Between
  BY DEF OwnerInit, Rest, Between, Settled, AirPlays, AllInactive, Inactive
<1> QED
  BY <1>1, <1>2, <1>3 DEF OwnerInv, State

-----------------------------------------------------------------------------
(* The steps, by what they do.                                             *)

(* A caller that is alone and moves on to s, or is done.                   *)
Moves(c, s) == todo' = [todo EXCEPT ![c] = s]
LEMMA MovesOn ==
  ASSUME NEW c \in Callers, ChannelTyped, Alone(c), NEW s, Moves(c, s)
  PROVE  /\ DOMAIN todo' = Callers /\ todo'[c] = s
         /\ s # <<>> => Alone(c)'
         /\ s = <<>> => Rest'
BY DEF ChannelTyped, Alone, Moves, Rest

(* Which action the next step of a program is.                             *)
LEMMA StepByName ==
  ASSUME OwnerInv, NEW c \in Callers, Step(c), calls'.clean, NEW h, h = Head(todo[c])
  PROVE  /\ h.op \in {"stop", "restop"} => StepStop(c)
         /\ h.op = "check" => StepCheck(c)
         /\ h.op = "rate" => StepRate(c)
         /\ h.op = "start" => StepStart(c)
         /\ h.op = "claim" => StepClaim(c)
         /\ h.op = "take" => StopOutput(c) \/ StepTake(c)
         /\ h.op = "go" => StepGo(c)
         /\ h.op = "services" /\ h.p = "off" => StopOutput(c) \/ StepServicesOff(c)
         /\ h.op = "services" /\ h.p = "on" => StepServicesOn(c)
         /\ h.op = "btrate" => StepBtRate(c)
         /\ h.op = "btgo" => StepBtGo(c)
         /\ h.op = "btend" => StepBtEnd(c)
<1>1. ~StepStopTimeout(c)
  BY DEF OwnerInv, StepStopTimeout
<1>2. /\ \A o : At(c, o) => h.op = o
      /\ Arg(c) = h.p
  BY DEF At, Arg
<1>3. /\ StepStop(c) => h.op \in {"stop", "restop"}
      /\ StepCheck(c) => h.op = "check"
      /\ StepRate(c) => h.op = "rate"
      /\ StepStart(c) => h.op = "start"
      /\ StepClaim(c) => h.op = "claim"
      /\ StopOutput(c) => h.op = "take" \/ (h.op = "services" /\ h.p = "off")
      /\ StepTake(c) => h.op = "take"
      /\ StepGo(c) => h.op = "go"
      /\ StepServicesOff(c) => h.op = "services" /\ h.p = "off"
      /\ StepServicesOn(c) => h.op = "services" /\ h.p = "on"
      /\ StepBtRate(c) => h.op = "btrate"
      /\ StepBtGo(c) => h.op = "btgo"
      /\ StepBtEnd(c) => h.op = "btend"
  BY <1>2 DEF StepStop, StepCheck, StepRate, StepStart, StepClaim, StopOutput, StepTake, StepGo,
              StepServicesOff, StepServicesOn, StepBtRate, StepBtGo, StepBtEnd
<1> QED
  BY <1>1, <1>3 DEF Step

(* Where the next step leaves the program.                                 *)
LEMMA StepInPlace ==
  ASSUME NEW P \in Seq(Steps), NEW k \in 1 .. Len(P), NEW c \in Callers, todo[c] = Suffix(P, k)
  PROVE  /\ Head(todo[c]) = P[k] /\ Arg(c) = P[k].p
         /\ Done(c) => Moves(c, Suffix(P, k + 1))
         /\ k + 3 <= Len(P) + 1 => SubSeq(todo[c], 4, Len(todo[c])) = Suffix(P, k + 3)
<1>1. /\ Head(todo[c]) = P[k] /\ Tail(todo[c]) = Suffix(P, k + 1)
      /\ k + 3 <= Len(P) + 1 => SubSeq(todo[c], 4, Len(todo[c])) = Suffix(P, k + 3)
  BY SuffixMoves
<1>2. Done(c) => todo' = [todo EXCEPT ![c] = Tail(todo[c])]
  BY DEF Done
<1> QED
  BY <1>1, <1>2 DEF Moves, Arg

(* Where a caller that moves on to step j is then, if there is a step j.    *)
LEMMA SuffixEnds ==
  ASSUME NEW P \in Seq(Steps), NEW c \in Callers, ChannelTyped, Alone(c), NEW j \in 1 .. Len(P) + 1,
         Moves(c, Suffix(P, j))
  PROVE  /\ DOMAIN todo' = Callers /\ todo'[c] = Suffix(P, j)
         /\ j <= Len(P) => Alone(c)'
         /\ j = Len(P) + 1 => Rest'
BY SuffixIs, MovesOn

(* The same, for a caller that has done step k.                            *)
LEMMA StepEnds ==
  ASSUME NEW P \in Seq(Steps), NEW c \in Callers, ChannelTyped, Alone(c), NEW k \in 1 .. Len(P),
         Moves(c, Suffix(P, k + 1))
  PROVE  /\ DOMAIN todo' = Callers /\ todo'[c] = Suffix(P, k + 1)
         /\ k < Len(P) => Alone(c)'
         /\ k = Len(P) => Rest'
<1>1. Len(P) \in Nat
  OBVIOUS
<1>2. PICK j : j = k + 1
  OBVIOUS
<1>3. j \in 1 .. Len(P) + 1 /\ Moves(c, Suffix(P, j))
  BY <1>1, <1>2
<1>4. /\ DOMAIN todo' = Callers /\ todo'[c] = Suffix(P, j)
      /\ j <= Len(P) => Alone(c)'
      /\ j = Len(P) + 1 => Rest'
  BY <1>3, SuffixEnds
<1> QED
  BY <1>1, <1>2, <1>4

(* What the switches of a player and of the output leave alone.            *)
LEMMA PlayerSwitch ==
  ASSUME ChannelTyped, NEW p \in Players, NEW b, pl' = [pl EXCEPT ![p].active = b]
  PROVE  /\ DOMAIN pl' = Players
         /\ \A q \in Players : /\ DOMAIN pl'[q] = {"active", "task", "rated"}
                               /\ pl'[q].task = pl[q].task
                               /\ pl'[q].active = IF q = p THEN b ELSE pl[q].active
BY DEF ChannelTyped

-----------------------------------------------------------------------------
(* The programs, step by step.                                             *)

LEMMA PlayKeeps ==
  ASSUME OwnerInv, ChannelTyped, NEW c \in Callers, Alone(c), Step(c), calls'.clean,
         NEW p \in Players, NEW k \in 1 .. 5, todo[c] = Suffix(PlayOf(p), k), PlayStage(p, k)
  PROVE  ChannelTyped' /\ State' /\ UNCHANGED calls
<1>1. PICK P : P = PlayOf(p)
  OBVIOUS
<1>2. /\ P \in Seq(Steps) /\ Len(P) = 5 /\ todo[c] = Suffix(P, k) /\ k \in 1 .. Len(P)
      /\ P[1] = Do("stop", Other(p)) /\ P[2] = Do("restop", p)
      /\ P[3] = Do("claim", p) /\ P[4] = Do("take", "") /\ P[5] = Do("go", p)
  BY <1>1, PlayProgram
<1>3. PICK h : h = Head(todo[c])
  OBVIOUS
<1>4. /\ Head(todo[c]) = P[k] /\ Arg(c) = P[k].p
      /\ Done(c) => Moves(c, Suffix(P, k + 1))
  BY <1>2, StepInPlace
<1>5. ASSUME Moves(c, Suffix(P, k + 1)), k < 5, PlayStage(p, k + 1)'
      PROVE  DOMAIN todo' = Callers /\ State'
  <2>1. Len(P) = 5 /\ k < Len(P)
    BY <1>2, <1>5
  <2>2. DOMAIN todo' = Callers /\ todo'[c] = Suffix(P, k + 1) /\ Alone(c)'
    BY <1>2, <1>5, <2>1, StepEnds
  <2>3. PICK j : j = k + 1
    OBVIOUS
  <2>4. j \in 1 .. 5 /\ todo'[c] = Suffix(P, j) /\ PlayStage(p, j)'
    BY <1>5, <2>2, <2>3
  <2>5. Plays(c)'
    BY <1>1, <2>4 DEF Plays
  <2> QED
    BY <2>2, <2>5 DEF State, Stage
<1>6. Other(p) \in Players /\ Other(p) # p /\ \A q \in Players : q \in {p, Other(p)}
  BY DEF Players, Other
<1>7. CASE k = 1
  <2>1. h = P[1] /\ P[1] = Do("stop", Other(p)) /\ Arg(c) = P[1].p
    BY <1>2, <1>3, <1>4, <1>7
  <2>2. h.op = "stop" /\ Arg(c) = Other(p)
    BY <2>1 DEF Do
  <2>3. StepStop(c)
    BY <1>3, <2>2, StepByName
  <2>4. pl' = [pl EXCEPT ![Other(p)].active = FALSE] /\ ~pl[Other(p)].task
    BY <2>2, <2>3 DEF StepStop
  <2>5. Moves(c, Suffix(P, k + 1)) /\ UNCHANGED <<out, owns, started, bt, calls>>
    BY <1>4, <2>3 DEF StepStop
  <2>6. /\ DOMAIN pl' = Players
        /\ \A q \in Players : /\ DOMAIN pl'[q] = {"active", "task", "rated"}
                              /\ pl'[q].task = pl[q].task
                              /\ pl'[q].active = IF q = Other(p) THEN FALSE ELSE pl[q].active
    BY <1>6, <2>4, PlayerSwitch
  <2>7. PlayStage(p, 2)'
    BY <1>6, <1>7, <2>4, <2>5, <2>6 DEF PlayStage, Shared, AirPlays, Released, AllInactive, Inactive
  <2> QED
    BY <1>5, <1>6, <1>7, <2>4, <2>5, <2>6, <2>7 DEF ChannelTyped
<1>8. CASE k = 2
  <2>1. h = P[2] /\ P[2] = Do("restop", p) /\ Arg(c) = P[2].p
    BY <1>2, <1>3, <1>4, <1>8
  <2>2. h.op = "restop" /\ Arg(c) = p
    BY <2>1 DEF Do
  <2>3. StepStop(c)
    BY <1>3, <2>2, StepByName
  <2>4. pl' = [pl EXCEPT ![p].active = FALSE] /\ ~pl[p].task
    BY <2>2, <2>3 DEF StepStop
  <2>5. Moves(c, Suffix(P, k + 1)) /\ UNCHANGED <<out, owns, started, bt, calls>>
    BY <1>4, <2>3 DEF StepStop
  <2>6. /\ DOMAIN pl' = Players
        /\ \A q \in Players : /\ DOMAIN pl'[q] = {"active", "task", "rated"}
                              /\ pl'[q].task = pl[q].task
                              /\ pl'[q].active = IF q = p THEN FALSE ELSE pl[q].active
    BY <2>4, PlayerSwitch
  <2>7. PlayStage(p, 3)'
    BY <1>6, <1>8, <2>4, <2>5, <2>6 DEF PlayStage, Shared, AirPlays, Released, AllInactive, Inactive
  <2> QED
    BY <1>5, <1>6, <1>8, <2>4, <2>5, <2>6, <2>7 DEF ChannelTyped
<1>9. CASE k = 3
  <2>1. h = P[3] /\ P[3] = Do("claim", p) /\ Arg(c) = P[3].p
    BY <1>2, <1>3, <1>4, <1>9
  <2>2. h.op = "claim" /\ Arg(c) = p
    BY <2>1 DEF Do
  <2>3. StepClaim(c)
    BY <1>3, <2>2, StepByName
  <2>4. pl' = [pl EXCEPT ![p].active = TRUE]
    BY <2>2, <2>3 DEF StepClaim
  <2>5. Moves(c, Suffix(P, k + 1)) /\ UNCHANGED <<out, owns, started, bt, calls>>
    BY <1>4, <2>3 DEF StepClaim
  <2>6. /\ DOMAIN pl' = Players
        /\ \A q \in Players : /\ DOMAIN pl'[q] = {"active", "task", "rated"}
                              /\ pl'[q].task = pl[q].task
                              /\ pl'[q].active = IF q = p THEN TRUE ELSE pl[q].active
    BY <2>4, PlayerSwitch
  <2>7. /\ \A q \in Players : ~pl[q].task
        /\ ~bt.on /\ started /\ ~calls.session
    BY <1>9 DEF PlayStage, AllInactive, Inactive
  <2>8. NoTask' /\ pl'[p].active
    BY <2>6, <2>7 DEF NoTask
  <2>9. PlayStage(p, 4)'
    BY <2>5, <2>7, <2>8 DEF PlayStage
  <2>10. DOMAIN todo' = Callers /\ State'
    BY <1>5, <1>9, <2>5, <2>9
  <2>11. \A q \in Players : ~pl'[q].task /\ DOMAIN pl'[q] = {"active", "task", "rated"}
    BY <2>6, <2>7
  <2>12. ChannelTyped'
    BY <2>5, <2>6, <2>10, <2>11 DEF ChannelTyped
  <2> QED
    BY <2>5, <2>10, <2>12
<1>10. CASE k = 4
  <2>1. h = Do("take", "")
    BY <1>2, <1>3, <1>4, <1>10
  <2>2. h.op = "take"
    BY <2>1 DEF Do
  <2>3. CASE StopOutput(c)
    <3>1. out' = [out EXCEPT !.running = FALSE] /\ UNCHANGED <<owns, started, pl, bt, todo, calls>>
      BY <2>3 DEF StopOutput
    <3>2. ChannelTyped'
      BY <3>1 DEF ChannelTyped
    <3>3. PlayStage(p, k)'
      BY <1>10, <3>1 DEF PlayStage, NoTask
    <3>4. todo'[c] = Suffix(P, k)
      BY <1>2, <3>1
    <3>5. Plays(c)'
      BY <1>1, <3>3, <3>4 DEF Plays
    <3>6. Alone(c)'
      BY <3>1 DEF Alone
    <3> QED
      BY <3>1, <3>2, <3>5, <3>6 DEF State, Stage
  <2>4. CASE StepTake(c)
    <3>1. ~Handle /\ owns' = FALSE /\ Moves(c, Suffix(P, k + 1)) /\ UNCHANGED <<out, started, pl, bt, calls>>
      BY <1>4, <2>4 DEF StepTake
    <3>2. PlayStage(p, 5)'
      BY <1>10, <3>1 DEF PlayStage, NoTask, Released, Handle
    <3> QED
      BY <1>5, <1>10, <3>1, <3>2 DEF ChannelTyped
  <2> QED
    BY <1>3, <2>2, <2>3, <2>4, StepByName
<1>11. CASE k = 5
  <2>1. h = P[5] /\ P[5] = Do("go", p) /\ Arg(c) = P[5].p
    BY <1>2, <1>3, <1>4, <1>11
  <2>2. h.op = "go" /\ Arg(c) = p
    BY <2>1 DEF Do
  <2>3. StepGo(c)
    BY <1>3, <2>2, StepByName
  <2>4. /\ pl' = [pl EXCEPT ![p].task = TRUE, ![p].rated = FALSE] /\ Moves(c, Suffix(P, k + 1))
        /\ UNCHANGED <<out, owns, started, bt, calls>>
    BY <1>4, <2>2, <2>3 DEF StepGo
  <2>5. Len(P) = 5 /\ k = Len(P)
    BY <1>2, <1>11
  <2>6. DOMAIN todo' = Callers /\ Rest'
    BY <1>2, <2>4, <2>5, StepEnds
  <2>7. ChannelTyped'
    BY <1>11, <2>4, <2>6 DEF ChannelTyped, PlayStage
  <2>8. Between'
    BY <1>11, <2>4 DEF Between, Settled, Released, PlayStage
  <2> QED
    BY <2>4, <2>6, <2>7, <2>8 DEF State
<1> QED
  BY <1>7, <1>8, <1>9, <1>10, <1>11

LEMMA StopKeeps ==
  ASSUME OwnerInv, ChannelTyped, NEW c \in Callers, Alone(c), Step(c), calls'.clean,
         NEW p \in Players, NEW k \in 1 .. 4, todo[c] = Suffix(StopOf(p), k), StopStage(k)
  PROVE  ChannelTyped' /\ State' /\ UNCHANGED calls
<1>1. PICK P : P = StopOf(p)
  OBVIOUS
<1>2. /\ P \in Seq(Steps) /\ Len(P) = 4 /\ todo[c] = Suffix(P, k) /\ k \in 1 .. Len(P)
      /\ P[1] = Do("stop", p) /\ P[2] = Do("check", "")
      /\ P[3] = Do("rate", "") /\ P[4] = Do("start", "")
  BY <1>1, StopProgram
<1>3. PICK h : h = Head(todo[c])
  OBVIOUS
<1>4. /\ Head(todo[c]) = P[k] /\ Arg(c) = P[k].p
      /\ Done(c) => Moves(c, Suffix(P, k + 1))
      /\ k + 3 <= Len(P) + 1 => SubSeq(todo[c], 4, Len(todo[c])) = Suffix(P, k + 3)
  BY <1>2, StepInPlace
<1>5. ASSUME Moves(c, Suffix(P, k + 1)), k < 4, StopStage(k + 1)'
      PROVE  DOMAIN todo' = Callers /\ State'
  <2>1. Len(P) = 4 /\ k < Len(P)
    BY <1>2, <1>5
  <2>2. DOMAIN todo' = Callers /\ todo'[c] = Suffix(P, k + 1) /\ Alone(c)'
    BY <1>2, <1>5, <2>1, StepEnds
  <2>3. PICK j : j = k + 1
    OBVIOUS
  <2>4. j \in 1 .. 4 /\ todo'[c] = Suffix(P, j) /\ StopStage(j)'
    BY <1>5, <2>2, <2>3
  <2>5. Stops(c)'
    BY <1>1, <2>4 DEF Stops
  <2> QED
    BY <2>2, <2>5 DEF State, Stage
<1>6. CASE k = 1
  <2>1. h = P[1] /\ P[1] = Do("stop", p) /\ Arg(c) = P[1].p
    BY <1>2, <1>3, <1>4, <1>6
  <2>2. h.op = "stop" /\ Arg(c) = p
    BY <2>1 DEF Do
  <2>3. StepStop(c)
    BY <1>3, <2>2, StepByName
  <2>4. pl' = [pl EXCEPT ![p].active = FALSE] /\ ~pl[p].task
    BY <2>2, <2>3 DEF StepStop
  <2>5. Moves(c, Suffix(P, k + 1)) /\ UNCHANGED <<out, owns, started, bt, calls>>
    BY <1>4, <2>3 DEF StepStop
  <2>6. /\ DOMAIN pl' = Players
        /\ \A q \in Players : /\ DOMAIN pl'[q] = {"active", "task", "rated"}
                              /\ pl'[q].task = pl[q].task
                              /\ pl'[q].active = IF q = p THEN FALSE ELSE pl[q].active
    BY <2>4, PlayerSwitch
  <2>7. StopStage(2)'
    BY <1>6, <2>4, <2>5, <2>6 DEF StopStage, Settled, AirPlays, Released, AllInactive, Inactive
  <2> QED
    BY <1>5, <1>6, <2>4, <2>5, <2>6, <2>7 DEF ChannelTyped
<1>7. CASE k = 2
  <2>1. h = Do("check", "")
    BY <1>2, <1>3, <1>4, <1>7
  <2>2. h.op = "check"
    BY <2>1 DEF Do
  <2>3. StepCheck(c)
    BY <1>3, <2>2, StepByName
  <2>4. UNCHANGED <<out, started, pl, bt, calls>>
    BY <2>3 DEF StepCheck
  <2>5. CASE owns \/ \E q \in Players : pl[q].active
    <3>1. owns' = owns /\ todo' = [todo EXCEPT ![c] = SubSeq(@, 4, Len(@))]
      BY <2>3, <2>5 DEF StepCheck
    <3>2. Len(P) = 4
      BY <1>2
    <3>3. SubSeq(todo[c], 4, Len(todo[c])) = Suffix(P, 5)
      BY <1>4, <1>7, <3>2
    <3>4. Moves(c, Suffix(P, 5))
      BY <3>1, <3>3 DEF Moves
    <3>5. 5 \in 1 .. Len(P) + 1 /\ 5 = Len(P) + 1
      BY <3>2
    <3>6. DOMAIN todo' = Callers /\ Rest'
      BY <1>2, <3>4, <3>5, SuffixEnds
    <3>7. Between'
      BY <1>7, <2>4, <3>1 DEF StopStage, Between, Settled, AirPlays, Released, AllInactive, Inactive
    <3> QED
      BY <2>4, <3>6, <3>7 DEF State, ChannelTyped
  <2>6. CASE ~(owns \/ \E q \in Players : pl[q].active)
    <3>1. owns' = TRUE /\ Moves(c, Suffix(P, k + 1))
      BY <1>4, <2>3, <2>6 DEF StepCheck
    <3>2. AllInactive
      BY <2>6 DEF AllInactive, Inactive, ChannelTyped
    <3>3. StopStage(3)'
      BY <1>7, <2>4, <3>1, <3>2
      DEF StopStage, Claiming, Settled, AirPlays, Released, AllInactive, Inactive
    <3> QED
      BY <1>5, <1>7, <2>4, <3>1, <3>3 DEF ChannelTyped
  <2> QED
    BY <2>5, <2>6
<1>8. CASE k = 3
  <2>1. h = Do("rate", "")
    BY <1>2, <1>3, <1>4, <1>8
  <2>2. h.op = "rate"
    BY <2>1 DEF Do
  <2>3. StepRate(c)
    BY <1>3, <2>2, StepByName
  <2>4. /\ out' = [out EXCEPT !.rate = "base"] /\ Moves(c, Suffix(P, k + 1))
        /\ UNCHANGED <<owns, started, pl, bt, calls>>
    BY <1>4, <2>3 DEF StepRate
  <2>5. /\ DOMAIN out' = {"task", "running", "rate"} /\ out'.task = out.task
        /\ out'.running = out.running /\ out'.rate = "base" /\ out'.task \in {"none", "run"}
    BY <2>4 DEF ChannelTyped
  <2>6. StopStage(4)'
    BY <1>8, <2>4, <2>5 DEF StopStage, Claiming, AirPlays, AllInactive, Inactive
  <2> QED
    BY <1>5, <1>8, <2>4, <2>5, <2>6 DEF ChannelTyped
<1>9. CASE k = 4
  <2>1. h = Do("start", "")
    BY <1>2, <1>3, <1>4, <1>9
  <2>2. h.op = "start"
    BY <2>1 DEF Do
  <2>3. StepStart(c)
    BY <1>3, <2>2, StepByName
  <2>4. out' = Started(out) /\ Moves(c, Suffix(P, k + 1)) /\ UNCHANGED <<owns, started, pl, bt, calls>>
    BY <1>4, <2>3 DEF StepStart
  <2>5. out.rate = "base" /\ Claiming /\ ~bt.on /\ started
    BY <1>9 DEF StopStage
  <2>6. /\ DOMAIN out' = {"task", "running", "rate"}
        /\ out'.task = "run" /\ out'.running /\ out'.rate = "base"
    BY <2>4, <2>5 DEF ChannelTyped, Started, Claiming, AirPlays
  <2>7. Len(P) = 4 /\ k = Len(P)
    BY <1>2, <1>9
  <2>8. DOMAIN todo' = Callers /\ Rest'
    BY <1>2, <2>4, <2>7, StepEnds
  <2>9. Between'
    BY <2>4, <2>5, <2>6 DEF Between, Settled, Claiming, AirPlays, AllInactive, Inactive
  <2> QED
    BY <2>4, <2>6, <2>8, <2>9 DEF State, ChannelTyped
<1> QED
  BY <1>6, <1>7, <1>8, <1>9

LEMMA YieldKeeps ==
  ASSUME OwnerInv, ChannelTyped, NEW c \in Callers, Alone(c), Step(c), calls'.clean,
         NEW k \in 1 .. 8, todo[c] = Suffix(YieldAll, k), YieldStage(k)
  PROVE  ChannelTyped' /\ State' /\ UNCHANGED calls
<1>1. PICK P : P = YieldAll
  OBVIOUS
<1>2. /\ P \in Seq(Steps) /\ Len(P) = 8 /\ todo[c] = Suffix(P, k) /\ k \in 1 .. Len(P)
      /\ P[1] = Do("stop", "radio") /\ P[2] = Do("check", "")
      /\ P[3] = Do("rate", "") /\ P[4] = Do("start", "")
      /\ P[5] = Do("stop", "sd") /\ P[6] = Do("check", "")
      /\ P[7] = Do("rate", "") /\ P[8] = Do("start", "")
  BY <1>1, YieldProgram
<1>3. PICK h : h = Head(todo[c])
  OBVIOUS
<1>4. /\ Head(todo[c]) = P[k] /\ Arg(c) = P[k].p
      /\ Done(c) => Moves(c, Suffix(P, k + 1))
      /\ k + 3 <= Len(P) + 1 => SubSeq(todo[c], 4, Len(todo[c])) = Suffix(P, k + 3)
  BY <1>2, StepInPlace
<1>5. ASSUME NEW j \in 1 .. 8, Moves(c, Suffix(P, j)), YieldStage(j)'
      PROVE  DOMAIN todo' = Callers /\ State'
  <2>1. Len(P) = 8
    BY <1>2
  <2>2. j \in 1 .. Len(P) + 1 /\ j <= Len(P)
    BY <2>1
  <2>3. DOMAIN todo' = Callers /\ todo'[c] = Suffix(P, j) /\ Alone(c)'
    BY <1>2, <1>5, <2>2, SuffixEnds
  <2>4. Yields(c)'
    BY <1>1, <1>5, <2>3 DEF Yields
  <2> QED
    BY <2>3, <2>4 DEF State, Stage
<1>6. ASSUME Moves(c, Suffix(P, 9)), Between' PROVE DOMAIN todo' = Callers /\ State'
  <2>1. Len(P) = 8
    BY <1>2
  <2>2. 9 \in 1 .. Len(P) + 1 /\ 9 = Len(P) + 1
    BY <2>1
  <2>3. DOMAIN todo' = Callers /\ Rest'
    BY <1>2, <1>6, <2>2, SuffixEnds
  <2> QED
    BY <1>6, <2>3 DEF State
<1>7. ~bt.on /\ started
  BY DEF YieldStage
<1>8. \A q \in Players : q \in {"radio", "sd"}
  BY DEF Players
<1>9. CASE k \in {1, 5}
  <2>1. PICK p \in Players : h = Do("stop", p) /\ p = IF k = 1 THEN "radio" ELSE "sd"
    BY <1>2, <1>3, <1>4, <1>9 DEF Players
  <2>2. h.op = "stop" /\ h.p = p
    BY <2>1 DEF Do
  <2>3. StepStop(c)
    BY <1>3, <2>2, StepByName
  <2>4. pl' = [pl EXCEPT ![p].active = FALSE] /\ ~pl[p].task
    BY <1>3, <2>2, <2>3 DEF StepStop, Arg
  <2>5. Moves(c, Suffix(P, k + 1)) /\ UNCHANGED <<out, owns, started, bt, calls>>
    BY <1>4, <2>3 DEF StepStop
  <2>6. /\ DOMAIN pl' = Players
        /\ \A q \in Players : /\ DOMAIN pl'[q] = {"active", "task", "rated"}
                              /\ pl'[q].task = pl[q].task
                              /\ pl'[q].active = IF q = p THEN FALSE ELSE pl[q].active
    BY <2>4, PlayerSwitch
  <2>7. Shared' /\ Inactive(p)' /\ (\A q \in Players : Inactive(q) => Inactive(q)')
    BY <1>9, <2>4, <2>5, <2>6
    DEF YieldStage, Shared, AirPlays, Released, AllInactive, Inactive
  <2>8. ChannelTyped' \/ DOMAIN todo' # Callers
    BY <2>4, <2>5, <2>6 DEF ChannelTyped
  <2>9. CASE k = 1
    <3>1. YieldStage(2)' /\ Moves(c, Suffix(P, 2))
      BY <1>7, <2>1, <2>5, <2>7, <2>9 DEF YieldStage
    <3> QED
      BY <1>5, <2>5, <2>8, <3>1
  <2>10. CASE k = 5
    <3>1. Inactive("radio") /\ "radio" \in Players
      BY <2>10 DEF YieldStage, Players
    <3>2. AllInactive'
      BY <1>8, <2>1, <2>7, <2>10, <3>1 DEF AllInactive
    <3>3. YieldStage(6)' /\ Moves(c, Suffix(P, 6))
      BY <1>7, <2>5, <2>7, <2>10, <3>2 DEF YieldStage
    <3> QED
      BY <1>5, <2>5, <2>8, <3>3
  <2> QED
    BY <1>9, <2>9, <2>10
<1>10. CASE k \in {2, 6}
  <2>1. h = Do("check", "")
    BY <1>2, <1>3, <1>4, <1>10
  <2>2. h.op = "check"
    BY <2>1 DEF Do
  <2>3. StepCheck(c)
    BY <1>3, <2>2, StepByName
  <2>4. UNCHANGED <<out, started, pl, bt, calls>>
    BY <2>3 DEF StepCheck
  <2>5. DOMAIN todo' = Callers => ChannelTyped'
    BY <2>4 DEF ChannelTyped
  <2>6. CASE owns \/ \E q \in Players : pl[q].active
    <3>1. owns' = owns /\ todo' = [todo EXCEPT ![c] = SubSeq(@, 4, Len(@))]
      BY <2>3, <2>6 DEF StepCheck
    <3>2. Len(P) = 8
      BY <1>2
    <3>3. SubSeq(todo[c], 4, Len(todo[c])) = Suffix(P, k + 3)
      BY <1>4, <1>10, <3>2
    <3>4. Moves(c, Suffix(P, k + 3))
      BY <3>1, <3>3 DEF Moves
    <3>5. CASE k = 2
      <4>1. YieldStage(5)'
        BY <1>7, <2>4, <3>1, <3>5
        DEF YieldStage, Shared, AirPlays, Released, AllInactive, Inactive
      <4>2. Moves(c, Suffix(P, 5))
        BY <3>4, <3>5
      <4> QED
        BY <1>5, <2>4, <2>5, <4>1, <4>2
    <3>6. CASE k = 6
      <4>1. Between'
        BY <1>7, <2>4, <2>6, <3>1, <3>6
        DEF YieldStage, Between, Settled, Shared, AirPlays, Released, AllInactive, Inactive
      <4>2. Moves(c, Suffix(P, 9))
        BY <3>4, <3>6
      <4> QED
        BY <1>6, <2>4, <2>5, <4>1, <4>2
    <3> QED
      BY <1>10, <3>5, <3>6
  <2>7. CASE ~(owns \/ \E q \in Players : pl[q].active)
    <3>1. owns' = TRUE /\ Moves(c, Suffix(P, k + 1))
      BY <1>4, <2>3, <2>7 DEF StepCheck
    <3>2. AllInactive
      BY <2>7 DEF AllInactive, Inactive, ChannelTyped
    <3>3. Claiming'
      BY <1>10, <2>4, <3>1, <3>2
      DEF YieldStage, Claiming, Shared, AirPlays, Released, AllInactive, Inactive
    <3>4. YieldStage(k + 1)' /\ k + 1 \in 1 .. 8
      BY <1>7, <1>10, <2>4, <3>3 DEF YieldStage
    <3> QED
      BY <1>5, <2>4, <2>5, <3>1, <3>4
  <2> QED
    BY <2>6, <2>7
<1>11. CASE k \in {3, 7}
  <2>1. h = Do("rate", "")
    BY <1>2, <1>3, <1>4, <1>11
  <2>2. h.op = "rate"
    BY <2>1 DEF Do
  <2>3. StepRate(c)
    BY <1>3, <2>2, StepByName
  <2>4. /\ out' = [out EXCEPT !.rate = "base"] /\ Moves(c, Suffix(P, k + 1))
        /\ UNCHANGED <<owns, started, pl, bt, calls>>
    BY <1>4, <2>3 DEF StepRate
  <2>5. /\ DOMAIN out' = {"task", "running", "rate"} /\ out'.task = out.task
        /\ out'.running = out.running /\ out'.rate = "base" /\ out'.task \in {"none", "run"}
    BY <2>4 DEF ChannelTyped
  <2>6. Claiming'
    BY <1>11, <2>4, <2>5 DEF YieldStage, Claiming, AirPlays, AllInactive, Inactive
  <2>7. YieldStage(k + 1)' /\ k + 1 \in 1 .. 8
    BY <1>7, <1>11, <2>4, <2>5, <2>6 DEF YieldStage
  <2>8. DOMAIN todo' = Callers /\ State'
    BY <1>5, <2>4, <2>7
  <2> QED
    BY <2>4, <2>5, <2>8 DEF ChannelTyped
<1>12. CASE k \in {4, 8}
  <2>1. h = Do("start", "")
    BY <1>2, <1>3, <1>4, <1>12
  <2>2. h.op = "start"
    BY <2>1 DEF Do
  <2>3. StepStart(c)
    BY <1>3, <2>2, StepByName
  <2>4. out' = Started(out) /\ Moves(c, Suffix(P, k + 1)) /\ UNCHANGED <<owns, started, pl, bt, calls>>
    BY <1>4, <2>3 DEF StepStart
  <2>5. out.rate = "base" /\ Claiming
    BY <1>12 DEF YieldStage
  <2>6. /\ DOMAIN out' = {"task", "running", "rate"}
        /\ out'.task = "run" /\ out'.running /\ out'.rate = "base"
    BY <2>4, <2>5 DEF ChannelTyped, Started, Claiming, AirPlays
  <2>7. AirPlays'
    BY <2>4, <2>5, <2>6 DEF Claiming, AirPlays, AllInactive, Inactive
  <2>8. CASE k = 4
    <3>1. YieldStage(5)'
      BY <1>7, <2>4, <2>7 DEF YieldStage, Shared, AirPlays, AllInactive, Players
    <3>2. Moves(c, Suffix(P, 5))
      BY <2>4, <2>8
    <3> QED
      BY <1>5, <2>4, <2>6, <3>1, <3>2 DEF ChannelTyped
  <2>9. CASE k = 8
    <3>1. Between'
      BY <1>7, <2>4, <2>7 DEF Between, Settled
    <3>2. Moves(c, Suffix(P, 9))
      BY <2>4, <2>9
    <3> QED
      BY <1>6, <2>4, <2>6, <3>1, <3>2 DEF ChannelTyped
  <2> QED
    BY <1>12, <2>8, <2>9
<1> QED
  BY <1>9, <1>10, <1>11, <1>12

LEMMA UpKeeps ==
  ASSUME OwnerInv, ChannelTyped, NEW c \in Callers, Alone(c), Step(c), calls'.clean,
         NEW k \in 1 .. 5, todo[c] = Suffix(BtUp, k), UpStage(k)
  PROVE  ChannelTyped' /\ State' /\ UNCHANGED calls
<1>1. PICK P : P = BtUp
  OBVIOUS
<1>2. /\ P \in Seq(Steps) /\ Len(P) = 5 /\ todo[c] = Suffix(P, k) /\ k \in 1 .. Len(P)
      /\ P[1] = Do("services", "off") /\ P[2] = Do("stop", "radio") /\ P[3] = Do("stop", "sd")
      /\ P[4] = Do("btrate", "") /\ P[5] = Do("btgo", "")
  BY <1>1, UpProgram
<1>3. PICK h : h = Head(todo[c])
  OBVIOUS
<1>4. /\ Head(todo[c]) = P[k] /\ Arg(c) = P[k].p
      /\ Done(c) => Moves(c, Suffix(P, k + 1))
  BY <1>2, StepInPlace
<1>5. ASSUME Moves(c, Suffix(P, k + 1)), k < 5, UpStage(k + 1)'
      PROVE  DOMAIN todo' = Callers /\ State'
  <2>1. Len(P) = 5 /\ k < Len(P)
    BY <1>2, <1>5
  <2>2. DOMAIN todo' = Callers /\ todo'[c] = Suffix(P, k + 1) /\ Alone(c)'
    BY <1>2, <1>5, <2>1, StepEnds
  <2>3. PICK j : j = k + 1
    OBVIOUS
  <2>4. j \in 1 .. 5 /\ todo'[c] = Suffix(P, j) /\ UpStage(j)'
    BY <1>5, <2>2, <2>3
  <2>5. GoesUp(c)'
    BY <1>1, <2>4 DEF GoesUp
  <2> QED
    BY <2>2, <2>5 DEF State, Stage
<1>6. bt.on /\ ~calls.session
  BY DEF UpStage
<1>7. CASE k = 1
  <2>1. h = Do("services", "off")
    BY <1>2, <1>3, <1>4, <1>7
  <2>2. h.op = "services" /\ h.p = "off"
    BY <2>1 DEF Do
  <2>3. CASE StopOutput(c)
    <3>1. out' = [out EXCEPT !.running = FALSE] /\ UNCHANGED <<owns, started, pl, bt, todo, calls>>
      BY <2>3 DEF StopOutput
    <3>2. ChannelTyped'
      BY <3>1 DEF ChannelTyped
    <3>3. out'.task = out.task
      BY <3>1 DEF ChannelTyped
    <3>4. UpStage(k)'
      BY <1>7, <3>1, <3>3 DEF UpStage, AllInactive, Inactive
    <3>5. todo'[c] = Suffix(P, k)
      BY <1>2, <3>1
    <3>6. GoesUp(c)'
      BY <1>1, <3>4, <3>5 DEF GoesUp
    <3>7. Alone(c)'
      BY <3>1 DEF Alone
    <3> QED
      BY <3>1, <3>2, <3>6, <3>7 DEF State, Stage
  <2>4. CASE StepServicesOff(c)
    <3>1. /\ ~started \/ ~Handle
          /\ started' = FALSE /\ Moves(c, Suffix(P, k + 1)) /\ UNCHANGED <<out, owns, pl, bt, calls>>
      BY <1>4, <2>4 DEF StepServicesOff
    <3>2. UpStage(2)'
      BY <1>6, <1>7, <3>1 DEF UpStage, Silent, Handle
    <3> QED
      BY <1>5, <1>7, <3>1, <3>2 DEF ChannelTyped
  <2> QED
    BY <1>3, <2>2, <2>3, <2>4, StepByName
<1>8. CASE k \in {2, 3}
  <2>1. PICK p \in Players : h = Do("stop", p) /\ p = IF k = 2 THEN "radio" ELSE "sd"
    BY <1>2, <1>3, <1>4, <1>8 DEF Players
  <2>2. h.op = "stop" /\ h.p = p
    BY <2>1 DEF Do
  <2>3. StepStop(c)
    BY <1>3, <2>2, StepByName
  <2>4. pl' = [pl EXCEPT ![p].active = FALSE] /\ ~pl[p].task
    BY <1>3, <2>2, <2>3 DEF StepStop, Arg
  <2>5. Moves(c, Suffix(P, k + 1)) /\ UNCHANGED <<out, owns, started, bt, calls>>
    BY <1>4, <2>3 DEF StepStop
  <2>6. /\ DOMAIN pl' = Players
        /\ \A q \in Players : /\ DOMAIN pl'[q] = {"active", "task", "rated"}
                              /\ pl'[q].task = pl[q].task
                              /\ pl'[q].active = IF q = p THEN FALSE ELSE pl[q].active
    BY <2>4, PlayerSwitch
  <2>7. Inactive(p)' /\ (\A q \in Players : Inactive(q) => Inactive(q)')
    BY <2>4, <2>6 DEF Inactive
  <2>8. Silent'
    BY <1>8, <2>5 DEF UpStage, Silent
  <2>9. CASE k = 2
    <3>1. UpStage(3)'
      BY <1>6, <2>1, <2>5, <2>7, <2>8, <2>9 DEF UpStage
    <3>2. DOMAIN todo' = Callers /\ State'
      BY <1>5, <2>5, <2>9, <3>1
    <3> QED
      BY <2>4, <2>5, <2>6, <3>2 DEF ChannelTyped
  <2>10. CASE k = 3
    <3>1. Inactive("radio") /\ \A q \in Players : q \in {"radio", "sd"}
      BY <2>10 DEF UpStage, Players
    <3>2. AllInactive'
      BY <2>1, <2>7, <2>10, <3>1 DEF AllInactive, Players
    <3>3. UpStage(4)'
      BY <1>6, <2>5, <2>8, <3>2 DEF UpStage
    <3>4. DOMAIN todo' = Callers /\ State'
      BY <1>5, <2>5, <2>10, <3>3
    <3> QED
      BY <2>4, <2>5, <2>6, <3>4 DEF ChannelTyped
  <2> QED
    BY <1>8, <2>9, <2>10
<1>9. CASE k = 4
  <2>1. h = Do("btrate", "")
    BY <1>2, <1>3, <1>4, <1>9
  <2>2. h.op = "btrate"
    BY <2>1 DEF Do
  <2>3. StepBtRate(c)
    BY <1>3, <2>2, StepByName
  <2>4. Silent /\ AllInactive
    BY <1>9 DEF UpStage
  <2>5. /\ out' = [out EXCEPT !.rate = "base"] /\ owns' = FALSE /\ Moves(c, Suffix(P, k + 1))
        /\ UNCHANGED <<started, pl, bt, calls>>
    BY <1>4, <2>3, <2>4 DEF StepBtRate, Silent, Handle
  <2>6. /\ DOMAIN out' = {"task", "running", "rate"} /\ out'.task = out.task
        /\ out'.task \in {"none", "run"}
    BY <2>5 DEF ChannelTyped
  <2>7. UpStage(5)'
    BY <1>6, <2>4, <2>5, <2>6 DEF UpStage, Silent, AllInactive, Inactive
  <2> QED
    BY <1>5, <1>9, <2>5, <2>6, <2>7 DEF ChannelTyped
<1>10. CASE k = 5
  <2>1. h = Do("btgo", "")
    BY <1>2, <1>3, <1>4, <1>10
  <2>2. h.op = "btgo"
    BY <2>1 DEF Do
  <2>3. StepBtGo(c)
    BY <1>3, <2>2, StepByName
  <2>4. /\ bt' = [bt EXCEPT !.writer = TRUE] /\ Moves(c, Suffix(P, k + 1))
        /\ UNCHANGED <<out, owns, started, pl, calls>>
    BY <1>4, <2>3 DEF StepBtGo
  <2>5. DOMAIN bt' = {"on", "writer"} /\ bt'.on
    BY <1>6, <2>4 DEF ChannelTyped
  <2>6. Len(P) = 5 /\ k = Len(P)
    BY <1>2, <1>10
  <2>7. DOMAIN todo' = Callers /\ Rest'
    BY <1>2, <2>4, <2>6, StepEnds
  <2>8. Between'
    BY <1>10, <2>4, <2>5 DEF Between, UpStage, Silent, AllInactive, Inactive
  <2> QED
    BY <2>4, <2>5, <2>7, <2>8 DEF State, ChannelTyped
<1> QED
  BY <1>7, <1>8, <1>9, <1>10

(* start_airplay_services brings AirPlay back, whoever calls it last.      *)
LEMMA ServicesComeBack ==
  ASSUME ChannelTyped, NEW c \in Callers, StepServicesOn(c), ~bt.on,
         Settled \/ (Silent /\ AllInactive /\ out.rate = "base")
  PROVE  /\ UNCHANGED <<owns, pl, bt, calls>> /\ Between'
         /\ DOMAIN out' = {"task", "running", "rate"} /\ out'.task \in {"none", "run"}
<1>1. UNCHANGED <<owns, pl, bt, calls>>
  BY DEF StepServicesOn
<1>2. CASE Settled
  <2>1. UNCHANGED <<out, started>>
    BY <1>2 DEF StepServicesOn, Settled
  <2> QED
    BY <1>1, <1>2, <2>1 DEF ChannelTyped, Between, Settled, AirPlays, Released, AllInactive, Inactive
<1>3. CASE Silent /\ AllInactive /\ out.rate = "base"
  <2>1. out' = Started(out) /\ started'
    BY <1>3 DEF StepServicesOn, Silent
  <2>2. /\ DOMAIN out' = {"task", "running", "rate"}
        /\ out'.task = "run" /\ out'.running /\ out'.rate = "base"
    BY <1>3, <2>1 DEF ChannelTyped, Started, Silent
  <2> QED
    BY <1>1, <1>3, <2>1, <2>2 DEF Between, Settled, AirPlays, AllInactive, Inactive
<1> QED
  BY <1>2, <1>3

LEMMA DownKeeps ==
  ASSUME OwnerInv, ChannelTyped, NEW c \in Callers, Alone(c), Step(c), calls'.clean,
         NEW k \in 1 .. 2, todo[c] = Suffix(BtDown, k), DownStage(k)
  PROVE  ChannelTyped' /\ State' /\ UNCHANGED calls
<1>1. PICK P : P = BtDown
  OBVIOUS
<1>2. /\ P \in Seq(Steps) /\ Len(P) = 2 /\ todo[c] = Suffix(P, k) /\ k \in 1 .. Len(P)
      /\ P[1] = Do("btend", "") /\ P[2] = Do("services", "on")
  BY <1>1, DownProgram
<1>3. PICK h : h = Head(todo[c])
  OBVIOUS
<1>4. /\ Head(todo[c]) = P[k] /\ Arg(c) = P[k].p
      /\ Done(c) => Moves(c, Suffix(P, k + 1))
  BY <1>2, StepInPlace
<1>5. Len(P) = 2
  BY <1>2
<1>6. CASE k = 1
  <2>1. h = Do("btend", "")
    BY <1>2, <1>3, <1>4, <1>6
  <2>2. h.op = "btend"
    BY <2>1 DEF Do
  <2>3. StepBtEnd(c)
    BY <1>3, <2>2, StepByName
  <2>4. /\ bt' = [bt EXCEPT !.writer = FALSE] /\ out' = [out EXCEPT !.rate = "base"]
        /\ Moves(c, Suffix(P, k + 1)) /\ UNCHANGED <<owns, started, pl, calls>>
    BY <1>4, <2>3 DEF StepBtEnd
  <2>5. /\ DOMAIN out' = {"task", "running", "rate"} /\ out'.task = out.task
        /\ out'.rate = "base" /\ out'.task \in {"none", "run"}
        /\ DOMAIN bt' = {"on", "writer"} /\ bt'.on = bt.on
    BY <2>4 DEF ChannelTyped
  <2>6. DownStage(2)'
    BY <2>4, <2>5 DEF DownStage, Silent, AllInactive, Inactive
  <2>7. k < Len(P)
    BY <1>5, <1>6
  <2>8. DOMAIN todo' = Callers /\ todo'[c] = Suffix(P, k + 1) /\ Alone(c)'
    BY <1>2, <2>4, <2>7, StepEnds
  <2>9. todo'[c] = Suffix(P, 2)
    BY <1>6, <2>8
  <2>10. GoesDown(c)'
    BY <1>1, <2>6, <2>9 DEF GoesDown
  <2> QED
    BY <2>4, <2>5, <2>8, <2>10 DEF State, Stage, ChannelTyped
<1>7. CASE k = 2
  <2>1. h = Do("services", "on")
    BY <1>2, <1>3, <1>4, <1>7
  <2>2. h.op = "services" /\ h.p = "on"
    BY <2>1 DEF Do
  <2>3. StepServicesOn(c)
    BY <1>3, <2>2, StepByName
  <2>4. ~bt.on /\ Silent /\ AllInactive /\ out.rate = "base"
    BY <1>7 DEF DownStage
  <2>5. /\ UNCHANGED <<owns, pl, bt, calls>> /\ Between'
        /\ DOMAIN out' = {"task", "running", "rate"} /\ out'.task \in {"none", "run"}
    BY <2>3, <2>4, ServicesComeBack
  <2>6. Moves(c, Suffix(P, k + 1))
    BY <1>4, <2>3 DEF StepServicesOn
  <2>7. k = Len(P)
    BY <1>5, <1>7
  <2>8. DOMAIN todo' = Callers /\ Rest'
    BY <1>2, <2>6, <2>7, StepEnds
  <2> QED
    BY <2>5, <2>8 DEF State, ChannelTyped
<1> QED
  BY <1>6, <1>7

LEMMA RestartKeeps ==
  ASSUME OwnerInv, ChannelTyped, NEW c \in Callers, Alone(c), Step(c), calls'.clean, Restarts(c)
  PROVE  ChannelTyped' /\ State' /\ UNCHANGED calls
<1>1. PICK h : h = Head(todo[c])
  OBVIOUS
<1>2. todo[c] = <<Do("services", "on")>> /\ ~bt.on /\ Settled
  BY DEF Restarts, NetStage
<1>3. h = Do("services", "on") /\ Tail(todo[c]) = <<>>
  BY <1>1, <1>2
<1>4. h.op = "services" /\ h.p = "on"
  BY <1>3 DEF Do
<1>5. StepServicesOn(c)
  BY <1>1, <1>4, StepByName
<1>6. /\ UNCHANGED <<owns, pl, bt, calls>> /\ Between'
      /\ DOMAIN out' = {"task", "running", "rate"} /\ out'.task \in {"none", "run"}
  BY <1>2, <1>5, ServicesComeBack
<1>7. PICK s : s = <<>> /\ Moves(c, s)
  BY <1>3, <1>5 DEF StepServicesOn, Done, Moves
<1>8. DOMAIN todo' = Callers /\ Rest'
  BY <1>7, MovesOn
<1> QED
  BY <1>6, <1>8 DEF State, ChannelTyped

LEMMA StepsKeep ==
  ASSUME OwnerInv, NEW c \in Callers, Step(c), calls'.clean
  PROVE  ChannelTyped' /\ State' /\ UNCHANGED calls
<1>1. calls.clean \/ StepStopTimeout(c) \/ UNCHANGED calls
  BY DEF Step, StepStop, StepCheck, StepRate, StepStart, StepClaim, StopOutput, StepTake, StepGo,
         StepServicesOff, StepServicesOn, StepBtRate, StepBtGo, StepBtEnd
<1>2. ~StepStopTimeout(c)
  BY DEF OwnerInv, StepStopTimeout
<1>3. ChannelTyped /\ State
  BY <1>1, <1>2 DEF OwnerInv
<1>4. todo[c] # <<>>
  BY <1>2 DEF Step, StepStop, StepCheck, StepRate, StepStart, StepClaim, StopOutput, StepTake,
              StepGo, StepServicesOff, StepServicesOn, StepBtRate, StepBtGo, StepBtEnd, At
<1>5. PICK d \in Callers : Alone(d) /\ Stage(d)
  BY <1>3, <1>4 DEF State, Rest
<1>6. d = c
  BY <1>4, <1>5 DEF Alone
<1>7. Alone(c) /\ Stage(c)
  BY <1>5, <1>6
<1>8. CASE Plays(c)
  <2>1. PICK p \in Players, k \in 1 .. 5 : todo[c] = Suffix(PlayOf(p), k) /\ PlayStage(p, k)
    BY <1>8 DEF Plays
  <2> QED
    BY <1>3, <1>7, <2>1, PlayKeeps
<1>9. CASE Stops(c)
  <2>1. PICK p \in Players, k \in 1 .. 4 : todo[c] = Suffix(StopOf(p), k) /\ StopStage(k)
    BY <1>9 DEF Stops
  <2> QED
    BY <1>3, <1>7, <2>1, StopKeeps
<1>10. CASE Yields(c)
  <2>1. PICK k \in 1 .. 8 : todo[c] = Suffix(YieldAll, k) /\ YieldStage(k)
    BY <1>10 DEF Yields
  <2> QED
    BY <1>3, <1>7, <2>1, YieldKeeps
<1>11. CASE GoesUp(c)
  <2>1. PICK k \in 1 .. 5 : todo[c] = Suffix(BtUp, k) /\ UpStage(k)
    BY <1>11 DEF GoesUp
  <2> QED
    BY <1>3, <1>7, <2>1, UpKeeps
<1>12. CASE GoesDown(c)
  <2>1. PICK k \in 1 .. 2 : todo[c] = Suffix(BtDown, k) /\ DownStage(k)
    BY <1>12 DEF GoesDown
  <2> QED
    BY <1>3, <1>7, <2>1, DownKeeps
<1>13. CASE Restarts(c)
  BY <1>3, <1>7, <1>13, RestartKeeps
<1> QED
  BY <1>7, <1>8, <1>9, <1>10, <1>11, <1>12, <1>13 DEF Stage

-----------------------------------------------------------------------------
(* The calls.                                                              *)

LEMMA WholeProgram ==
  ASSUME NEW P \in Seq(Steps), Len(P) > 0
  PROVE  Suffix(P, 1) = P /\ P # <<>>
BY SubSeqFull, EmptySeq DEF Suffix

(* A clean call starts at rest, and its caller is alone with its program.  *)
LEMMA CallBegins ==
  ASSUME OwnerInv, NEW c \in Callers, NEW P, P # <<>>, NEW s, BeginCall(c, P, s), calls'.clean
  PROVE  /\ ChannelTyped /\ Rest /\ Between /\ (bt.on => c = "bt")
         /\ DOMAIN todo' = Callers /\ todo'[c] = P /\ Alone(c)'
         /\ calls'.session = s /\ DOMAIN calls' = {"ops", "clean", "session"}
         /\ UNCHANGED <<out, owns, started, pl>>
<1>1. /\ todo' = [todo EXCEPT ![c] = P]
      /\ calls' = [calls EXCEPT !.ops = @ + 1, !.clean = @ /\ Rest /\ (bt.on => c = "bt"), !.session = s]
      /\ UNCHANGED <<out, owns, started, pl>>
  BY DEF BeginCall
<1>2. DOMAIN calls = {"ops", "clean", "session"}
  BY DEF OwnerInv
<1>3. calls.clean /\ Rest /\ (bt.on => c = "bt") /\ DOMAIN calls' = {"ops", "clean", "session"}
  BY <1>1, <1>2
<1>4. calls'.session = s
  BY <1>1, <1>2
<1>5. ChannelTyped /\ State
  BY <1>3 DEF OwnerInv
<1>6. Between
  BY <1>3, <1>5 DEF State, Alone, Rest
<1>7. DOMAIN todo' = Callers /\ todo'[c] = P /\ Alone(c)'
  BY <1>1, <1>3, <1>5 DEF ChannelTyped, Alone, Rest
<1> QED
  BY <1>1, <1>3, <1>4, <1>5, <1>6, <1>7

LEMMA CallsKeep ==
  ASSUME OwnerInv, calls'.clean,
         \/ \E p \in Players : WebPlay(p) \/ WebStop(p)
         \/ RtspYield \/ BtConnect \/ BtDisconnect \/ NetworkUp
  PROVE  ChannelTyped' /\ State' /\ DOMAIN calls' = {"ops", "clean", "session"}
<1>1. "web" \in Callers /\ "rtsp" \in Callers /\ "bt" \in Callers /\ "net" \in Callers
  BY DEF Callers
<1>2. ASSUME NEW p \in Players, WebPlay(p)
      PROVE  ChannelTyped' /\ State' /\ DOMAIN calls' = {"ops", "clean", "session"}
  <2>1. PICK P : P = PlayOf(p)
    OBVIOUS
  <2>2. P \in Seq(Steps) /\ Len(P) > 0
    <3>1. P \in Seq(Steps) /\ Len(P) = 5
      BY <2>1, PlayProgram
    <3> QED
      BY <3>1
  <2>3. P # <<>> /\ P = Suffix(P, 1)
    BY <2>2, WholeProgram
  <2>4. BeginCall("web", P, FALSE) /\ UNCHANGED bt
    BY <1>2, <2>1 DEF WebPlay
  <2>5. /\ ChannelTyped /\ Rest /\ Between /\ ~bt.on
        /\ DOMAIN todo' = Callers /\ todo'["web"] = P /\ Alone("web")'
        /\ calls'.session = FALSE /\ DOMAIN calls' = {"ops", "clean", "session"}
        /\ UNCHANGED <<out, owns, started, pl>>
    BY <1>1, <2>3, <2>4, CallBegins
  <2>6. PlayStage(p, 1)'
    BY <2>4, <2>5
    DEF PlayStage, Shared, Between, Settled, AirPlays, Released, AllInactive, Inactive
  <2>7. Plays("web")'
    BY <2>1, <2>3, <2>5, <2>6 DEF Plays
  <2> QED
    BY <1>1, <2>4, <2>5, <2>7 DEF State, Stage, ChannelTyped
<1>3. ASSUME NEW p \in Players, WebStop(p)
      PROVE  ChannelTyped' /\ State' /\ DOMAIN calls' = {"ops", "clean", "session"}
  <2>1. PICK P : P = StopOf(p)
    OBVIOUS
  <2>2. P \in Seq(Steps) /\ Len(P) > 0
    <3>1. P \in Seq(Steps) /\ Len(P) = 4
      BY <2>1, StopProgram
    <3> QED
      BY <3>1
  <2>3. P # <<>> /\ P = Suffix(P, 1)
    BY <2>2, WholeProgram
  <2>4. PICK s : s = calls.session /\ BeginCall("web", P, s) /\ UNCHANGED bt
    BY <1>3, <2>1 DEF WebStop
  <2>5. /\ ChannelTyped /\ Rest /\ Between /\ ~bt.on
        /\ DOMAIN todo' = Callers /\ todo'["web"] = P /\ Alone("web")'
        /\ calls'.session = s /\ DOMAIN calls' = {"ops", "clean", "session"}
        /\ UNCHANGED <<out, owns, started, pl>>
    BY <1>1, <2>3, <2>4, CallBegins
  <2>6. StopStage(1)'
    BY <2>4, <2>5 DEF StopStage, Between, Settled, AirPlays, Released, AllInactive, Inactive
  <2>7. Stops("web")'
    BY <2>1, <2>3, <2>5, <2>6 DEF Stops
  <2> QED
    BY <1>1, <2>4, <2>5, <2>7 DEF State, Stage, ChannelTyped
<1>4. ASSUME RtspYield
      PROVE  ChannelTyped' /\ State' /\ DOMAIN calls' = {"ops", "clean", "session"}
  <2>1. PICK P : P = YieldAll
    OBVIOUS
  <2>2. P \in Seq(Steps) /\ Len(P) > 0
    <3>1. P \in Seq(Steps) /\ Len(P) = 8
      BY <2>1, YieldProgram
    <3> QED
      BY <3>1
  <2>3. P # <<>> /\ P = Suffix(P, 1)
    BY <2>2, WholeProgram
  <2>4. BeginCall("rtsp", P, TRUE) /\ UNCHANGED bt
    BY <1>4, <2>1 DEF RtspYield
  <2>5. /\ ChannelTyped /\ Rest /\ Between /\ ~bt.on
        /\ DOMAIN todo' = Callers /\ todo'["rtsp"] = P /\ Alone("rtsp")'
        /\ calls'.session = TRUE /\ DOMAIN calls' = {"ops", "clean", "session"}
        /\ UNCHANGED <<out, owns, started, pl>>
    BY <1>1, <2>3, <2>4, CallBegins
  <2>6. YieldStage(1)'
    BY <2>4, <2>5
    DEF YieldStage, Shared, Between, Settled, AirPlays, Released, AllInactive, Inactive
  <2>7. Yields("rtsp")'
    BY <2>1, <2>3, <2>5, <2>6 DEF Yields
  <2> QED
    BY <1>1, <2>4, <2>5, <2>7 DEF State, Stage, ChannelTyped
<1>5. ASSUME BtConnect
      PROVE  ChannelTyped' /\ State' /\ DOMAIN calls' = {"ops", "clean", "session"}
  <2>1. PICK P : P = BtUp
    OBVIOUS
  <2>2. P \in Seq(Steps) /\ Len(P) > 0
    <3>1. P \in Seq(Steps) /\ Len(P) = 5
      BY <2>1, UpProgram
    <3> QED
      BY <3>1
  <2>3. P # <<>> /\ P = Suffix(P, 1)
    BY <2>2, WholeProgram
  <2>4. ~bt.on /\ BeginCall("bt", P, FALSE) /\ bt' = [bt EXCEPT !.on = TRUE]
    BY <1>5, <2>1 DEF BtConnect
  <2>5. /\ ChannelTyped /\ Rest /\ Between
        /\ DOMAIN todo' = Callers /\ todo'["bt"] = P /\ Alone("bt")'
        /\ calls'.session = FALSE /\ DOMAIN calls' = {"ops", "clean", "session"}
        /\ UNCHANGED <<out, owns, started, pl>>
    BY <1>1, <2>3, <2>4, CallBegins
  <2>6. DOMAIN bt' = {"on", "writer"} /\ bt'.on
    BY <2>4, <2>5 DEF ChannelTyped
  <2>7. UpStage(1)'
    BY <2>4, <2>5, <2>6
    DEF UpStage, Between, Settled, AirPlays, Released, AllInactive, Inactive
  <2>8. GoesUp("bt")'
    BY <2>1, <2>3, <2>5, <2>7 DEF GoesUp
  <2> QED
    BY <1>1, <2>5, <2>6, <2>8 DEF State, Stage, ChannelTyped
<1>6. ASSUME BtDisconnect
      PROVE  ChannelTyped' /\ State' /\ DOMAIN calls' = {"ops", "clean", "session"}
  <2>1. PICK P : P = BtDown
    OBVIOUS
  <2>2. P \in Seq(Steps) /\ Len(P) > 0
    <3>1. P \in Seq(Steps) /\ Len(P) = 2
      BY <2>1, DownProgram
    <3> QED
      BY <3>1
  <2>3. P # <<>> /\ P = Suffix(P, 1)
    BY <2>2, WholeProgram
  <2>4. bt.on /\ BeginCall("bt", P, FALSE) /\ bt' = [bt EXCEPT !.on = FALSE]
    BY <1>6, <2>1 DEF BtDisconnect
  <2>5. /\ ChannelTyped /\ Rest /\ Between
        /\ DOMAIN todo' = Callers /\ todo'["bt"] = P /\ Alone("bt")'
        /\ calls'.session = FALSE /\ DOMAIN calls' = {"ops", "clean", "session"}
        /\ UNCHANGED <<out, owns, started, pl>>
    BY <1>1, <2>3, <2>4, CallBegins
  <2>6. DOMAIN bt' = {"on", "writer"} /\ ~bt'.on
    BY <2>4, <2>5 DEF ChannelTyped
  <2>7. DownStage(1)'
    BY <2>4, <2>5, <2>6 DEF DownStage, Between, Silent, AllInactive, Inactive
  <2>8. GoesDown("bt")'
    BY <2>1, <2>3, <2>5, <2>7 DEF GoesDown
  <2> QED
    BY <1>1, <2>5, <2>6, <2>8 DEF State, Stage, ChannelTyped
<1>7. ASSUME NetworkUp
      PROVE  ChannelTyped' /\ State' /\ DOMAIN calls' = {"ops", "clean", "session"}
  <2>1. PICK P : P = <<Do("services", "on")>>
    OBVIOUS
  <2>2. P # <<>>
    BY <2>1
  <2>3. PICK s : s = calls.session /\ BeginCall("net", P, s) /\ UNCHANGED bt
    BY <1>7, <2>1 DEF NetworkUp
  <2>4. /\ ChannelTyped /\ Rest /\ Between /\ ~bt.on
        /\ DOMAIN todo' = Callers /\ todo'["net"] = P /\ Alone("net")'
        /\ calls'.session = s /\ DOMAIN calls' = {"ops", "clean", "session"}
        /\ UNCHANGED <<out, owns, started, pl>>
    BY <1>1, <2>2, <2>3, CallBegins
  <2>5. NetStage'
    BY <2>3, <2>4 DEF NetStage, Between, Settled, AirPlays, Released, AllInactive, Inactive
  <2>6. Restarts("net")'
    BY <2>1, <2>4, <2>5 DEF Restarts
  <2> QED
    BY <1>1, <2>3, <2>4, <2>6 DEF State, Stage, ChannelTyped
<1> QED
  BY <1>2, <1>3, <1>4, <1>5, <1>6, <1>7

-----------------------------------------------------------------------------
(* The tasks, which run whatever the callers do: what they leave alone is   *)
(* all that the stages say.                                                *)
Kept ==
  /\ UNCHANGED <<owns, started, bt, todo, calls>>
  /\ AirPlays => AirPlays'
  /\ out.task = "none" => out'.task = "none"
  /\ \A p \in Players : Inactive(p) => Inactive(p)'
  /\ NoTask => NoTask' /\ \A p \in Players : pl[p].active => pl'[p].active
  /\ AllInactive /\ out.rate = "base" => out'.rate = "base"

LEMMA KeptHolds ==
  ASSUME Kept
  PROVE  /\ Shared => Shared'
         /\ AllInactive => AllInactive'
         /\ Settled => Settled'
         /\ Silent => Silent'
         /\ Claiming => Claiming'
         /\ Released => Released'
BY DEF Kept, Shared, AllInactive, Settled, Silent, Claiming, Released

LEMMA KeptState ==
  ASSUME Kept, State
  PROVE  State'
<1>1. /\ Shared => Shared'
      /\ AllInactive => AllInactive'
      /\ Settled => Settled'
      /\ Silent => Silent'
      /\ Claiming => Claiming'
      /\ Released => Released'
  BY KeptHolds
<1>2. Rest => Rest'
  BY DEF Kept, Rest
<1>3. Between => Between'
  BY <1>1 DEF Kept, Between
<1>4. \A c \in Callers : Alone(c) => Alone(c)'
  BY DEF Kept, Alone
<1>5. ASSUME NEW c \in Callers, Stage(c) PROVE Stage(c)'
  <2>1. UNCHANGED todo[c]
    BY DEF Kept
  <2>2. CASE Plays(c)
    <3>1. PICK p \in Players, k \in 1 .. 5 : todo[c] = Suffix(PlayOf(p), k) /\ PlayStage(p, k)
      BY <2>2 DEF Plays
    <3>2. Other(p) \in Players
      BY DEF Other, Players
    <3>3. PlayStage(p, k)'
      BY <1>1, <3>1, <3>2 DEF PlayStage, Kept
    <3> QED
      BY <2>1, <3>1, <3>3 DEF Stage, Plays
  <2>3. CASE Stops(c)
    <3>1. PICK p \in Players, k \in 1 .. 4 : todo[c] = Suffix(StopOf(p), k) /\ StopStage(k)
      BY <2>3 DEF Stops
    <3>2. StopStage(k)'
      BY <1>1, <3>1 DEF StopStage, Kept, Claiming
    <3> QED
      BY <2>1, <3>1, <3>2 DEF Stage, Stops
  <2>4. CASE Yields(c)
    <3>1. PICK k \in 1 .. 8 : todo[c] = Suffix(YieldAll, k) /\ YieldStage(k)
      BY <2>4 DEF Yields
    <3>2. "radio" \in Players
      BY DEF Players
    <3>3. YieldStage(k)'
      BY <1>1, <3>1, <3>2 DEF YieldStage, Kept, Claiming
    <3> QED
      BY <2>1, <3>1, <3>3 DEF Stage, Yields
  <2>5. CASE GoesUp(c)
    <3>1. PICK k \in 1 .. 5 : todo[c] = Suffix(BtUp, k) /\ UpStage(k)
      BY <2>5 DEF GoesUp
    <3>2. "radio" \in Players
      BY DEF Players
    <3>3. UpStage(k)'
      BY <1>1, <3>1, <3>2 DEF UpStage, Kept
    <3> QED
      BY <2>1, <3>1, <3>3 DEF Stage, GoesUp
  <2>6. CASE GoesDown(c)
    <3>1. PICK k \in 1 .. 2 : todo[c] = Suffix(BtDown, k) /\ DownStage(k)
      BY <2>6 DEF GoesDown
    <3>2. DownStage(k)'
      BY <1>1, <3>1 DEF DownStage, Kept
    <3> QED
      BY <2>1, <3>1, <3>2 DEF Stage, GoesDown
  <2>7. CASE Restarts(c)
    BY <1>1, <2>1, <2>7 DEF Stage, Restarts, NetStage, Kept
  <2> QED
    BY <1>5, <2>2, <2>3, <2>4, <2>5, <2>6, <2>7 DEF Stage
<1> QED
  BY <1>2, <1>3, <1>4, <1>5 DEF State

LEMMA TasksKeep ==
  ASSUME ChannelTyped, State,
         \/ PlaybackExit \/ \E p \in Players : PlayerRate(p)
         \/ \E p \in Players, idle \in BOOLEAN : PlayerExit(p, idle)
  PROVE  ChannelTyped' /\ State' /\ UNCHANGED calls
<1>1. ASSUME PlaybackExit PROVE ChannelTyped' /\ Kept
  <2>1. /\ Handle /\ ~out.running /\ out' = [out EXCEPT !.task = "none"]
        /\ UNCHANGED <<owns, started, pl, bt, todo, calls>>
    BY <1>1 DEF PlaybackExit
  <2>2. /\ DOMAIN out' = {"task", "running", "rate"} /\ out'.task = "none"
        /\ out'.rate = out.rate
    BY <2>1 DEF ChannelTyped
  <2> QED
    BY <2>1, <2>2 DEF ChannelTyped, Kept, AirPlays, Inactive, NoTask
<1>2. ASSUME NEW p \in Players, PlayerRate(p) PROVE ChannelTyped' /\ Kept
  <2>1. /\ pl[p].task /\ pl' = [pl EXCEPT ![p].rated = TRUE]
        /\ out' = IF Handle THEN out ELSE [out EXCEPT !.rate = "song"]
        /\ UNCHANGED <<owns, started, bt, todo, calls>>
    BY <1>2 DEF PlayerRate, Playing
  <2>2. DOMAIN out' = {"task", "running", "rate"} /\ out'.task = out.task
    BY <2>1 DEF ChannelTyped
  <2>3. /\ DOMAIN pl' = Players
        /\ \A q \in Players : /\ DOMAIN pl'[q] = {"active", "task", "rated"}
                              /\ pl'[q].task = pl[q].task /\ pl'[q].active = pl[q].active
    BY <2>1 DEF ChannelTyped
  <2>4. ~AllInactive
    BY <2>1 DEF AllInactive, Inactive
  <2>5. ChannelTyped'
    BY <2>1, <2>2, <2>3 DEF ChannelTyped
  <2>6. Kept
    BY <2>1, <2>2, <2>3, <2>4 DEF Kept, AirPlays, Inactive, NoTask
  <2> QED
    BY <2>5, <2>6
<1>3. ASSUME NEW p \in Players, NEW idle \in BOOLEAN, PlayerExit(p, idle) PROVE ChannelTyped' /\ Kept
  <2>1. /\ pl[p].task /\ pl' = [pl EXCEPT ![p].task = FALSE, ![p].active = @ /\ ~idle]
        /\ UNCHANGED <<out, owns, started, bt, todo, calls>>
    BY <1>3 DEF PlayerExit, Playing
  <2>2. /\ DOMAIN pl' = Players
        /\ \A q \in Players : /\ DOMAIN pl'[q] = {"active", "task", "rated"}
                              /\ q # p => pl'[q] = pl[q]
        /\ ~pl'[p].task
    BY <2>1 DEF ChannelTyped
  <2>3. ~AllInactive /\ ~NoTask /\ ~Inactive(p)
    BY <2>1 DEF AllInactive, Inactive, NoTask
  <2>4. ChannelTyped'
    BY <2>1, <2>2 DEF ChannelTyped
  <2>5. \A q \in Players : Inactive(q) => Inactive(q)'
    BY <2>2, <2>3 DEF Inactive
  <2>6. Kept
    BY <2>1, <2>3, <2>5 DEF Kept, AirPlays
  <2> QED
    BY <2>4, <2>6
<1>4. ChannelTyped' /\ Kept
  BY <1>1, <1>2, <1>3
<1> QED
  BY <1>4, KeptState DEF Kept

-----------------------------------------------------------------------------
LEMMA OwnerInductive ==
  ASSUME OwnerInv, [OwnerNext]_ownerVars
  PROVE  OwnerInv'
<1>1. DOMAIN calls = {"ops", "clean", "session"} /\ calls.clean \in BOOLEAN
  BY DEF OwnerInv
<1>2. DOMAIN calls' = {"ops", "clean", "session"} /\ calls'.clean \in BOOLEAN /\ (calls'.clean => calls.clean)
  <2>1. ASSUME NEW c \in Callers, NEW P, NEW s, BeginCall(c, P, s)
        PROVE  DOMAIN calls' = {"ops", "clean", "session"} /\ calls'.clean \in BOOLEAN /\ (calls'.clean => calls.clean)
    BY <1>1, <2>1 DEF BeginCall
  <2>2. "web" \in Callers /\ "rtsp" \in Callers /\ "bt" \in Callers /\ "net" \in Callers
    BY DEF Callers
  <2>3. \/ \E c \in Callers : \E P, s : BeginCall(c, P, s)
        \/ calls' = [calls EXCEPT !.clean = FALSE]
        \/ UNCHANGED calls
    BY <2>2 DEF OwnerNext, ownerVars, WebPlay, WebStop, RtspYield, BtConnect, BtDisconnect, NetworkUp,
                PlaybackExit, PlayerRate, RadioBroken, PlayerExit, Step, StepStop, StepStopTimeout,
                StepCheck, StepRate, StepStart, StepClaim, StopOutput, StepTake, StepGo,
                StepServicesOff, StepServicesOn, StepBtRate, StepBtGo, StepBtEnd
  <2>4. CASE \E c \in Callers : \E P, s : BeginCall(c, P, s)
    BY <2>1, <2>4
  <2>5. CASE calls' = [calls EXCEPT !.clean = FALSE]
    BY <1>1, <2>5
  <2>6. CASE UNCHANGED calls
    BY <1>1, <2>6
  <2> QED
    BY <2>3, <2>4, <2>5, <2>6
<1>3. ASSUME calls'.clean PROVE ChannelTyped' /\ State'
  <2>1. ChannelTyped /\ State
    BY <1>2, <1>3 DEF OwnerInv
  <2>2. CASE UNCHANGED ownerVars
    <3>1. Kept
      BY <2>2 DEF ownerVars, Kept, AirPlays, AllInactive, Inactive, NoTask
    <3> QED
      BY <2>1, <2>2, <3>1, KeptState DEF ownerVars, ChannelTyped
  <2>3. CASE RadioBroken
    BY <1>1, <1>3, <2>3 DEF RadioBroken
  <2>4. CASE \E c \in Callers : Step(c)
    BY <1>3, <2>4, StepsKeep
  <2>5. CASE \/ \E p \in Players : WebPlay(p) \/ WebStop(p)
             \/ RtspYield \/ BtConnect \/ BtDisconnect \/ NetworkUp
    BY <1>3, <2>5, CallsKeep
  <2>6. CASE \/ PlaybackExit \/ \E p \in Players : PlayerRate(p)
             \/ \E p \in Players, idle \in BOOLEAN : PlayerExit(p, idle)
    BY <2>1, <2>6, TasksKeep
  <2> QED
    BY <2>2, <2>3, <2>4, <2>5, <2>6 DEF OwnerNext
<1> QED
  BY <1>2, <1>3 DEF OwnerInv

LEMMA OwnersAgree == OwnerInv => SourcesShare
<1> SUFFICES ASSUME OwnerInv, calls.clean, Rest PROVE SourcesShare
  BY DEF SourcesShare, HandBack, OwnerPlays, PitchRight
<1>1. Between
  BY DEF OwnerInv, State, Alone, Rest
<1> QED
  BY <1>1 DEF SourcesShare, HandBack, OwnerPlays, PitchRight, Between, Settled, Silent, AirPlays,
              Released, Handle

(* The callers share the channel: as long as the history is clean, at rest *)
(* an AirPlay session has its playback task, the owner flag says AirPlay   *)
(* only when that task is there, and the task plays at AirPlay's own rate. *)
THEOREM SourcesTakeTurns == OwnerSpec => []SourcesShare
<1>1. OwnerSpec => []OwnerInv
  BY OwnerStarts, OwnerInductive, PTL DEF OwnerSpec
<1> QED
  BY <1>1, OwnersAgree, PTL

-----------------------------------------------------------------------------
(* The SD player (SdPlayer).  The flag of the reader is the reader, no song  *)
(* begins while it lives, and who is about to create the play task has seen  *)
(* both tasks gone.  A song that ended is the one the task has saved, and is *)
(* not the one at the top of the loop.                                       *)
SdGlobals == [state : {"IDLE", "PLAYING", "ERROR"}, stop : BOOLEAN, skip : {0, 1, 2}, abort : BOOLEAN,
              failed : BOOLEAN, running : BOOLEAN, task : BOOLEAN, list : {0, SdSongs}]
SdPlays == [pc : {"none", "alloc", "top", "tags", "loop", "next", "clean", "exit"}, cur : 0 .. SdSongs,
            aborted : BOOLEAN, failed : BOOLEAN]
SdTypes ==
  /\ sd \in SdGlobals /\ splay \in SdPlays /\ sring \in 0 .. SdRing
  /\ sctl \in [S!Callers -> {"idle", "stop", "play", "open", "take"}]
  /\ rdr = [pc |-> rdr.pc, left |-> rdr.left]
  /\ slog = [plays |-> slog.plays, skips |-> slog.skips, ended |-> slog.ended, to |-> slog.to]
SdTasks ==
  /\ sd.task <=> rdr.pc # "none"
  /\ splay.pc \in {"alloc", "top", "tags"} => ~sd.task
  /\ sctl["web"] \in {"open", "take"} => splay.pc = "none" /\ ~sd.task
SdEnds ==
  /\ splay.pc \in {"alloc", "tags", "loop"} => slog.ended = S!None
  /\ splay.pc = "next" /\ slog.ended # S!None => slog.ended = splay.cur /\ ~splay.aborted /\ ~splay.failed
  /\ splay.pc = "top" /\ slog.ended # S!None => splay.cur # slog.ended
SdInv == SdTypes /\ SdTasks /\ SdEnds

LEMMA SdStarts == S!Init => SdInv
<1> SUFFICES ASSUME S!Init PROVE SdInv
  OBVIOUS
<1> USE DEF S!Init
<1>1. SdTypes
  BY PlayersAssumption DEF SdTypes, SdGlobals, SdPlays, S!NoReader, S!NoPlay
<1>2. SdTasks /\ SdEnds
  BY DEF SdTasks, SdEnds, S!NoReader, S!NoPlay, S!Callers
<1> QED
  BY <1>1, <1>2 DEF SdInv

(* The reader.                                                               *)
LEMMA ReaderLeaves ==
  ASSUME SdInv, NEW f \in BOOLEAN, S!ReaderExit(f), UNCHANGED <<sring, splay, sctl, slog>>
  PROVE  SdInv'
<1>1. PICK b \in BOOLEAN : b = (sd.failed \/ f)
  OBVIOUS
<1>2. sd' = [sd EXCEPT !.running = FALSE, !.task = FALSE, !.failed = b] /\ rdr' = [pc |-> "none", left |-> 0]
  BY <1>1 DEF S!ReaderExit, S!NoReader
<1>3. SdTypes'
  BY <1>2 DEF SdInv, SdTypes, SdGlobals
<1>4. sd'.task = FALSE /\ rdr'.pc = "none"
  BY <1>2 DEF SdInv, SdTypes, SdGlobals
<1>5. SdTasks' /\ SdEnds'
  BY <1>4 DEF SdInv, SdTasks, SdEnds
<1> QED
  BY <1>3, <1>5 DEF SdInv

LEMMA SdReads == SdInv /\ (S!Reader \/ S!ReaderError) => SdInv'
<1> SUFFICES ASSUME SdInv, S!Reader \/ S!ReaderError PROVE SdInv'
  OBVIOUS
<1>1. ASSUME NEW ok \in BOOLEAN, S!ReaderOpen(ok) PROVE SdInv'
  <2>1. CASE ok
    <3>1. rdr.pc = "open" /\ rdr' = [rdr EXCEPT !.pc = "read"] /\ UNCHANGED <<sd, sring, splay, sctl, slog>>
      BY <1>1, <2>1 DEF S!ReaderOpen
    <3>2. SdTypes' /\ rdr'.pc = "read"
      BY <3>1 DEF SdInv, SdTypes
    <3>3. SdTasks' /\ SdEnds'
      BY <3>1, <3>2 DEF SdInv, SdTasks, SdEnds
    <3> QED
      BY <3>2, <3>3 DEF SdInv
  <2>2. CASE ~ok
    BY <1>1, <2>2, ReaderLeaves DEF S!ReaderOpen
  <2> QED
    BY <2>1, <2>2
<1>2. CASE S!ReaderRead
  <2>1. CASE \/ sring < SdRing /\ sring' = sring + 1 /\ rdr' = [rdr EXCEPT !.left = @ - 1] /\ sd' = sd
    <3>1. UNCHANGED <<splay, sctl, slog, sd>> /\ sring' \in 0 .. SdRing
      BY <1>2, <2>1, PlayersAssumption DEF S!ReaderRead, SdInv, SdTypes
    <3>2. PICK x : rdr' = [rdr EXCEPT !.left = x]
      BY <2>1
    <3>3. rdr' = [pc |-> rdr.pc, left |-> x]
      BY <3>2 DEF SdInv, SdTypes
    <3> QED
      BY <3>1, <3>3 DEF SdInv, SdTypes, SdTasks, SdEnds
  <2>2. CASE S!ReaderExit(FALSE) /\ sring' = sring
    BY <1>2, <2>2, ReaderLeaves DEF S!ReaderRead
  <2> QED
    BY <1>2, <2>1, <2>2 DEF S!ReaderRead
<1>3. CASE S!ReaderError
  <2>1. PICK f \in BOOLEAN : f = (~sd.stop /\ ~sd.abort)
    OBVIOUS
  <2> QED
    BY <1>3, <2>1, ReaderLeaves DEF S!ReaderError
<1> QED
  BY <1>1, <1>2, <1>3 DEF S!Reader

(* The play task.                                                            *)
LEMMA SdTargets ==
  ASSUME SdInv, NEW from \in 0 .. SdSongs
  PROVE  S!SkipTarget(sd, from) \in 0 .. SdSongs /\ (sd.skip = 0 => S!SkipTarget(sd, from) = from)
<1>1. sd.list \in {0, SdSongs} /\ sd.skip \in {0, 1, 2} /\ SdSongs \in Nat
  BY PlayersAssumption DEF SdInv, SdTypes, SdGlobals
<1>2. CASE sd.skip = 1 /\ sd.list > 1
  <2>1. SdSongs > 1 /\ sd.list = SdSongs /\ from + 1 \in Nat
    BY <1>1, <1>2
  <2>2. (from + 1) % SdSongs \in 0 .. SdSongs - 1
    BY <1>1, <2>1
  <2>3. S!SkipTarget(sd, from) = (from + 1) % SdSongs
    BY <1>1, <1>2, <2>1 DEF S!SkipTarget
  <2> QED
    BY <1>1, <1>2, <2>2, <2>3
<1>3. CASE ~(sd.skip = 1 /\ sd.list > 1)
  BY <1>1, <1>3 DEF S!SkipTarget
<1> QED
  BY <1>2, <1>3

LEMMA SdAllocs == SdInv /\ (\E ok \in BOOLEAN : S!PlayAlloc(ok)) => SdInv'
<1> SUFFICES ASSUME SdInv, NEW ok \in BOOLEAN, S!PlayAlloc(ok) PROVE SdInv'
  OBVIOUS
<1>1. PICK p \in {"top", "clean"} : splay' = [splay EXCEPT !.pc = p]
  BY DEF S!PlayAlloc
<1>2. PICK s \in {"IDLE", "PLAYING", "ERROR"} : sd' = [sd EXCEPT !.state = s]
  <2>1. sd' = sd \/ sd' = [sd EXCEPT !.state = "ERROR"]
    BY DEF S!PlayAlloc, S!Failed
  <2>2. sd = [sd EXCEPT !.state = sd.state]
    BY DEF SdInv, SdTypes, SdGlobals
  <2>3. sd.state \in {"IDLE", "PLAYING", "ERROR"}
    BY DEF SdInv, SdTypes, SdGlobals
  <2> QED
    BY <2>1, <2>2, <2>3
<1>3. splay.pc = "alloc" /\ UNCHANGED <<sring, rdr, sctl, slog>>
  BY DEF S!PlayAlloc
<1>4. SdTypes' /\ sd'.task = sd.task /\ splay'.pc = p /\ splay'.cur = splay.cur
  BY <1>1, <1>2, <1>3 DEF SdInv, SdTypes, SdGlobals, SdPlays
<1>5. SdTasks' /\ SdEnds'
  BY <1>3, <1>4 DEF SdInv, SdTasks, SdEnds
<1> QED
  BY <1>4, <1>5 DEF SdInv

LEMMA SdTops == SdInv /\ S!PlayTop => SdInv'
<1> SUFFICES ASSUME SdInv, S!PlayTop PROVE SdInv'
  OBVIOUS
<1>1. PICK c \in 0 .. SdSongs : c = S!SkipTarget(sd, splay.cur)
  BY SdTargets DEF SdInv, SdTypes, SdPlays
<1>4. splay.pc = "top" /\ UNCHANGED <<sring, rdr, sctl>>
  BY DEF S!PlayTop
<1>5. PICK p \in {"tags", "clean"} : splay' = [splay EXCEPT !.cur = c, !.pc = p]
  BY <1>1 DEF S!PlayTop
<1>6. sd' \in SdGlobals /\ sd'.task = sd.task
  <2>1. \/ sd' = [[sd EXCEPT !.skip = 0] EXCEPT !.failed = FALSE, !.abort = FALSE]
        \/ sd' = [sd EXCEPT !.skip = 0]
    BY DEF S!PlayTop, S!TrackBegin, S!SkipTaken
  <2>2. CASE sd' = [[sd EXCEPT !.skip = 0] EXCEPT !.failed = FALSE, !.abort = FALSE]
    BY <2>2 DEF SdInv, SdTypes, SdGlobals
  <2>3. CASE sd' = [sd EXCEPT !.skip = 0]
    BY <2>3 DEF SdInv, SdTypes, SdGlobals
  <2> QED
    BY <2>1, <2>2, <2>3
<1>7. PICK t : slog' = [slog EXCEPT !.ended = S!None, !.to = t]
  BY DEF S!PlayTop
<1>8. slog'.ended = S!None /\ slog' = [plays |-> slog.plays, skips |-> slog.skips, ended |-> S!None, to |-> t]
  BY <1>7 DEF SdInv, SdTypes
<1>9. SdTypes' /\ splay'.pc = p
  BY <1>4, <1>5, <1>6, <1>8 DEF SdInv, SdTypes, SdPlays
<1>10. SdTasks' /\ SdEnds'
  BY <1>4, <1>6, <1>8, <1>9 DEF SdInv, SdTasks, SdEnds
<1> QED
  BY <1>9, <1>10 DEF SdInv

LEMMA SdBegins ==
  ASSUME SdInv, NEW ok \in BOOLEAN, NEW dec \in BOOLEAN, S!PlayStart(ok, dec)
  PROVE  SdInv'
<1>1. splay.pc = "tags" /\ sd.task = FALSE /\ rdr.pc = "none" /\ sctl["web"] \notin {"open", "take"}
      /\ slog.ended = S!None
  BY DEF S!PlayStart, SdInv, SdTypes, SdTasks, SdEnds, SdGlobals
<1>2. sring' = 0 /\ UNCHANGED sctl
  BY DEF S!PlayStart
<1>3. PICK t : t = S!StartReader(sd, ok)
  OBVIOUS
<1>4. t \in SdGlobals /\ t.task = ok
  <2>1. CASE ok
    <3>1. t = [sd EXCEPT !.abort = FALSE, !.failed = FALSE, !.running = TRUE, !.task = TRUE]
      BY <1>3, <2>1 DEF S!StartReader
    <3> QED
      BY <2>1, <3>1 DEF SdInv, SdTypes, SdGlobals
  <2>2. CASE ~ok
    <3>1. t = [[sd EXCEPT !.abort = FALSE, !.failed = FALSE, !.running = FALSE, !.task = FALSE]
                 EXCEPT !.state = "ERROR"]
      BY <1>1, <1>3, <2>2 DEF S!StartReader, S!Failed
    <3> QED
      BY <2>2, <3>1 DEF SdInv, SdTypes, SdGlobals
  <2> QED
    BY <2>1, <2>2
<1>5. sd' \in SdGlobals /\ sd'.task = ok
  <2>1. sd' = t \/ sd' = [[t EXCEPT !.state = "ERROR"] EXCEPT !.failed = TRUE]
    BY <1>3 DEF S!PlayStart, S!Failed
  <2> QED
    BY <1>4, <2>1 DEF SdGlobals
<1>6. PICK r : r = rdr'
  OBVIOUS
<1>7. r = [pc |-> r.pc, left |-> r.left] /\ (ok <=> r.pc # "none")
  BY <1>1, <1>6 DEF S!PlayStart, SdInv, SdTypes
<1>8. splay' \in SdPlays /\ splay'.pc \in {"loop", "next", "clean"}
  BY DEF S!PlayStart, SdInv, SdTypes, SdPlays
<1>9. PICK x : slog' = [slog EXCEPT !.to = x]
  BY DEF S!PlayStart
<1>10. slog' = [plays |-> slog.plays, skips |-> slog.skips, ended |-> slog.ended, to |-> x]
  BY <1>9 DEF SdInv, SdTypes
<1>11. SdTypes'
  BY <1>2, <1>5, <1>6, <1>7, <1>8, <1>10, PlayersAssumption DEF SdInv, SdTypes
<1>12. SdTasks' /\ SdEnds'
  BY <1>1, <1>2, <1>5, <1>6, <1>7, <1>8, <1>10 DEF SdTasks, SdEnds
<1> QED
  BY <1>11, <1>12 DEF SdInv

LEMMA SdLeaves == SdInv /\ S!PlayLeave => SdInv'
<1> SUFFICES ASSUME SdInv, S!PlayLeave PROVE SdInv'
  OBVIOUS
<1>1. splay.pc = "loop" /\ slog.ended = S!None /\ UNCHANGED <<rdr, sctl>>
  BY DEF S!PlayLeave, SdInv, SdEnds
<1>2. PICK c \in 0 .. SdSongs : c = S!SkipTarget(sd, splay.cur)
  BY SdTargets DEF SdInv, SdTypes, SdPlays
<1>3. sd.abort \in BOOLEAN /\ sd.failed \in BOOLEAN /\ splay.cur \in 0 .. SdSongs
  BY DEF SdInv, SdTypes, SdGlobals, SdPlays
<1>4. ASSUME NEW d \in 0 .. SdSongs, splay' = S!Leave(sd, d)
      PROVE  /\ splay' \in SdPlays /\ splay'.pc = "next" /\ splay'.cur = d
             /\ splay'.aborted = sd.abort /\ splay'.failed = sd.failed
  BY <1>3, <1>4 DEF S!Leave, SdInv, SdTypes, SdPlays
<1>5. CASE sd.stop /\ splay' = S!Leave(sd, splay.cur) /\ UNCHANGED <<sd, sring, slog>>
  BY <1>1, <1>3, <1>4, <1>5 DEF SdInv, SdTypes, SdTasks, SdEnds
<1>6. CASE /\ sd' = S!SkipTaken(sd) /\ sring' = 0
           /\ splay' = S!Leave(sd, S!SkipTarget(sd, splay.cur))
           /\ slog' = [slog EXCEPT !.to = S!SkipTarget(sd, splay.cur)]
  <2>1. splay' \in SdPlays /\ splay'.pc = "next"
    BY <1>2, <1>4, <1>6
  <2>2. sd' \in SdGlobals /\ sd'.task = sd.task
    BY <1>6 DEF S!SkipTaken, SdInv, SdTypes, SdGlobals
  <2>3. slog' = [plays |-> slog.plays, skips |-> slog.skips, ended |-> slog.ended, to |-> c]
    BY <1>2, <1>6 DEF SdInv, SdTypes
  <2> QED
    BY <1>1, <1>6, <2>1, <2>2, <2>3, PlayersAssumption DEF SdInv, SdTypes, SdTasks, SdEnds
<1>7. CASE /\ splay' = S!Leave(sd, splay.cur)
           /\ slog' = [slog EXCEPT !.ended = IF sd.abort \/ sd.failed THEN S!None ELSE splay.cur]
           /\ UNCHANGED <<sd, sring>>
  <2>1. PICK e : e = IF sd.abort \/ sd.failed THEN S!None ELSE splay.cur
    OBVIOUS
  <2>2. slog' = [plays |-> slog.plays, skips |-> slog.skips, ended |-> e, to |-> slog.to]
    BY <1>7, <2>1 DEF SdInv, SdTypes
  <2>3. /\ splay' \in SdPlays /\ splay'.pc = "next" /\ splay'.cur = splay.cur
        /\ splay'.aborted = sd.abort /\ splay'.failed = sd.failed
    BY <1>3, <1>4, <1>7
  <2> QED
    BY <1>1, <1>3, <1>7, <2>1, <2>2, <2>3 DEF SdInv, SdTypes, SdTasks, SdEnds
<1> QED
  BY <1>5, <1>6, <1>7 DEF S!PlayLeave

LEMMA SdDecodes == SdInv /\ (\E nomem \in BOOLEAN : S!PlayDecode(nomem)) => SdInv'
<1> SUFFICES ASSUME SdInv, NEW nomem \in BOOLEAN, S!PlayDecode(nomem) PROVE SdInv'
  OBVIOUS
<1>1. splay.pc = "loop" /\ UNCHANGED <<rdr, sctl, slog>> /\ sring' \in 0 .. SdRing
  BY PlayersAssumption DEF S!PlayDecode, SdInv, SdTypes
<1>2. CASE nomem
  <2>1. sd' = [sd EXCEPT !.state = "ERROR"] /\ splay' = [splay EXCEPT !.pc = "clean"]
    BY <1>2 DEF S!PlayDecode, S!Failed
  <2>2. sd' \in SdGlobals /\ sd'.task = sd.task /\ splay' \in SdPlays /\ splay'.pc = "clean"
    BY <2>1 DEF SdInv, SdTypes, SdGlobals, SdPlays
  <2> QED
    BY <1>1, <2>2 DEF SdInv, SdTypes, SdTasks, SdEnds
<1>3. CASE ~nomem
  BY <1>1, <1>3 DEF S!PlayDecode, SdInv, SdTypes, SdTasks, SdEnds
<1> QED
  BY <1>2, <1>3

LEMMA SdReaps == SdInv /\ (\E timeout \in BOOLEAN : S!PlayReap(timeout)) => SdInv'
<1> SUFFICES ASSUME SdInv, NEW timeout \in BOOLEAN, S!PlayReap(timeout) PROVE SdInv'
  OBVIOUS
<1>1. splay.pc \in {"next", "clean"} /\ UNCHANGED <<sring, rdr, sctl, slog>>
  BY DEF S!PlayReap
<1>2. PICK s \in BOOLEAN : s = (sd.stop \/ timeout \/ splay.pc = "clean")
  OBVIOUS
<1>3. sd' = [sd EXCEPT !.abort = TRUE, !.stop = s]
  BY <1>2 DEF S!PlayReap
<1>4. PICK p \in {"next", "clean", "exit"} :
        /\ splay' = [splay EXCEPT !.pc = p]
        /\ p = "next" => splay.pc = "next"
  <2>1. PICK p : p = IF ~timeout THEN splay.pc ELSE IF splay.pc = "next" THEN "clean" ELSE "exit"
    OBVIOUS
  <2> QED
    BY <1>1, <2>1 DEF S!PlayReap
<1>5. sd' \in SdGlobals /\ sd'.task = sd.task
  BY <1>3 DEF SdInv, SdTypes, SdGlobals
<1>6. /\ splay' \in SdPlays /\ splay'.pc = p /\ splay'.cur = splay.cur
      /\ splay'.aborted = splay.aborted /\ splay'.failed = splay.failed
  BY <1>4 DEF SdInv, SdTypes, SdPlays
<1> QED
  BY <1>1, <1>4, <1>5, <1>6 DEF SdInv, SdTypes, SdTasks, SdEnds

LEMMA SdNexts == SdInv /\ S!PlayNext => SdInv'
<1> SUFFICES ASSUME SdInv, S!PlayNext PROVE SdInv'
  OBVIOUS
<1>1. splay.pc = "next" /\ ~sd.task /\ UNCHANGED <<sring, rdr, sctl, slog>>
  BY DEF S!PlayNext, S!NextSong
<1>2. PICK s : s = [sd EXCEPT !.abort = TRUE]
  OBVIOUS
<1>3. s \in SdGlobals /\ s.task = sd.task
  BY <1>2 DEF SdInv, SdTypes, SdGlobals
<1>4. \/ (sd' = s \/ sd' = S!Failed(s)) /\ splay' = [splay EXCEPT !.pc = "clean"]
      \/ splay.aborted /\ sd' = s /\ splay' = [splay EXCEPT !.pc = "top"]
      \/ splay.cur + 1 < s.list /\ sd' = s /\ splay' = [splay EXCEPT !.pc = "top", !.cur = @ + 1]
      \/ sd' = [s EXCEPT !.state = "IDLE"] /\ splay' = [splay EXCEPT !.pc = "clean"]
  BY <1>2 DEF S!PlayNext, S!NextSong
<1>5. sd' \in SdGlobals /\ sd'.task = sd.task
  BY <1>3, <1>4 DEF S!Failed, SdGlobals
<1>6. CASE splay' = [splay EXCEPT !.pc = "clean"]
  <2>1. splay' \in SdPlays /\ splay'.pc = "clean"
    BY <1>6 DEF SdInv, SdTypes, SdPlays
  <2> QED
    BY <1>1, <1>5, <2>1 DEF SdInv, SdTypes, SdTasks, SdEnds
<1>7. CASE splay.aborted /\ splay' = [splay EXCEPT !.pc = "top"]
  <2>1. splay' \in SdPlays /\ splay'.pc = "top"
    BY <1>7 DEF SdInv, SdTypes, SdPlays
  <2> QED
    BY <1>1, <1>5, <1>7, <2>1 DEF SdInv, SdTypes, SdTasks, SdEnds
<1>8. CASE splay.cur + 1 < s.list /\ splay' = [splay EXCEPT !.pc = "top", !.cur = @ + 1]
  <2>1. PICK c \in 0 .. SdSongs : c = splay.cur + 1 /\ c # splay.cur
    BY <1>3, <1>8, PlayersAssumption DEF SdInv, SdTypes, SdGlobals, SdPlays
  <2>2. splay' = [splay EXCEPT !.pc = "top", !.cur = c]
    BY <1>8, <2>1
  <2>3. splay' \in SdPlays /\ splay'.pc = "top" /\ splay'.cur = c
    BY <2>2 DEF SdInv, SdTypes, SdPlays
  <2> QED
    BY <1>1, <1>5, <2>1, <2>3 DEF SdInv, SdTypes, SdTasks, SdEnds
<1> QED
  BY <1>4, <1>6, <1>7, <1>8

LEMMA SdCleans == SdInv /\ S!PlayClean => SdInv'
<1> SUFFICES ASSUME SdInv, S!PlayClean PROVE SdInv'
  OBVIOUS
<1>1. /\ splay' = [pc |-> "none", cur |-> 0, aborted |-> FALSE, failed |-> FALSE]
      /\ UNCHANGED <<sd, sring, rdr, sctl, slog>>
  BY DEF S!PlayClean, S!NoPlay
<1>2. splay' \in SdPlays /\ splay'.pc = "none"
  BY <1>1, PlayersAssumption DEF SdPlays
<1>3. sctl["web"] \in {"open", "take"} => ~sd.task
  BY DEF SdInv, SdTasks
<1> QED
  BY <1>1, <1>2, <1>3 DEF SdInv, SdTypes, SdTasks, SdEnds

(* The control functions.                                                    *)
LEMMA SdAsked ==
  ASSUME SdInv, sd' \in SdGlobals, sd'.task = sd.task, sring' \in 0 .. SdRing,
         sctl' \in [S!Callers -> {"idle", "stop", "play", "open", "take"}], UNCHANGED <<rdr, splay>>,
         sctl'["web"] \in {"open", "take"} => splay.pc = "none" /\ ~sd.task,
         slog' = slog
  PROVE  SdInv'
BY DEF SdInv, SdTypes, SdTasks, SdEnds

LEMMA SdStopBegins ==
  ASSUME SdInv, NEW c \in S!Callers, NEW then \in {"stop", "play"}, S!StopBegin(c, then)
  PROVE  SdInv'
<1>1. /\ sd \in SdGlobals /\ sring \in 0 .. SdRing
      /\ sctl \in [S!Callers -> {"idle", "stop", "play", "open", "take"}] /\ UNCHANGED <<sring, rdr, splay, slog>>
  BY DEF S!StopBegin, SdInv, SdTypes
<1>2. CASE S!Gone
  <2>1. PICK p \in {"open", "idle"} : sctl' = [sctl EXCEPT ![c] = p]
    BY <1>2 DEF S!StopBegin
  <2>2. sd' = [sd EXCEPT !.state = "IDLE"]
    BY <1>2 DEF S!StopBegin
  <2>3. sd' \in SdGlobals /\ sd'.task = sd.task
    BY <1>1, <2>2 DEF SdGlobals
  <2>4. splay.pc = "none" /\ ~sd.task
    BY <1>2 DEF S!Gone
  <2> QED
    BY <1>1, <2>1, <2>3, <2>4, SdAsked
<1>3. CASE ~S!Gone
  <2>1. sctl' = [sctl EXCEPT ![c] = then] /\ sd' = [sd EXCEPT !.stop = TRUE, !.abort = TRUE]
    BY <1>3 DEF S!StopBegin
  <2>2. sd' \in SdGlobals /\ sd'.task = sd.task
    BY <1>1, <2>1 DEF SdGlobals
  <2>3. sctl' \in [S!Callers -> {"idle", "stop", "play", "open", "take"}]
    BY <1>1, <2>1
  <2>4. sctl'["web"] \in {"open", "take"} => splay.pc = "none" /\ ~sd.task
    BY <1>1, <2>1 DEF SdInv, SdTasks, S!Callers
  <2> QED
    BY <1>1, <2>2, <2>3, <2>4, SdAsked
<1> QED
  BY <1>2, <1>3

LEMMA SdStopEnds ==
  ASSUME SdInv, NEW c \in S!Callers, S!StopDone(c) \/ S!StopTimeout(c)
  PROVE  SdInv'
<1>1. /\ sd \in SdGlobals /\ sring \in 0 .. SdRing
      /\ sctl \in [S!Callers -> {"idle", "stop", "play", "open", "take"}] /\ UNCHANGED <<rdr, splay, slog>>
  BY DEF S!StopDone, S!StopTimeout, SdInv, SdTypes
<1>2. CASE S!StopDone(c)
  <2>1. PICK p \in {"open", "idle"} : sctl' = [sctl EXCEPT ![c] = p]
    BY <1>1, <1>2 DEF S!StopDone
  <2>2. /\ sd' = [sd EXCEPT !.stop = FALSE, !.skip = 0, !.abort = FALSE, !.failed = FALSE,
                            !.running = FALSE, !.state = "IDLE", !.list = 0]
        /\ sring' = 0
    BY <1>2 DEF S!StopDone
  <2>3. sd' \in SdGlobals /\ sd'.task = sd.task
    BY <1>1, <2>2 DEF SdGlobals
  <2>4. splay.pc = "none" /\ ~sd.task
    BY <1>2 DEF S!StopDone, S!Gone
  <2> QED
    BY <1>1, <2>1, <2>2, <2>3, <2>4, SdAsked, PlayersAssumption
<1>3. CASE S!StopTimeout(c)
  <2>1. sctl' = [sctl EXCEPT ![c] = "idle"] /\ (sd' = sd \/ sd' = [sd EXCEPT !.state = "ERROR"]) /\ sring' = sring
    BY <1>3 DEF S!StopTimeout, S!Failed
  <2>2. sd' \in SdGlobals /\ sd'.task = sd.task
    BY <1>1, <2>1 DEF SdGlobals
  <2>3. sctl' \in [S!Callers -> {"idle", "stop", "play", "open", "take"}]
    BY <1>1, <2>1
  <2>4. sctl'["web"] \in {"open", "take"} => splay.pc = "none" /\ ~sd.task
    BY <1>1, <2>1 DEF SdInv, SdTasks, S!Callers
  <2> QED
    BY <1>1, <2>1, <2>2, <2>3, <2>4, SdAsked
<1> QED
  BY <1>2, <1>3

LEMMA SdOpens ==
  ASSUME SdInv, NEW n \in {0, SdSongs}, S!PlayOpen(n)
  PROVE  SdInv'
<1>1. /\ sd \in SdGlobals /\ sring \in 0 .. SdRing
      /\ sctl \in [S!Callers -> {"idle", "stop", "play", "open", "take"}] /\ UNCHANGED <<rdr, splay, slog>>
  BY DEF S!PlayOpen, SdInv, SdTypes
<1>2. sd' \in SdGlobals /\ sd'.task = sd.task
  <2>1. CASE n = 0
    <3>1. sd' = [[sd EXCEPT !.list = 0] EXCEPT !.state = "ERROR"]
      BY <2>1 DEF S!PlayOpen, S!Failed
    <3> QED
      BY <1>1, <3>1 DEF SdGlobals
  <2>2. CASE n # 0
    <3>1. sd' = [[sd EXCEPT !.list = n, !.state = "PLAYING", !.stop = FALSE, !.skip = 0]
                   EXCEPT !.failed = FALSE, !.abort = FALSE]
      BY <2>2 DEF S!PlayOpen, S!TrackBegin
    <3> QED
      BY <1>1, <3>1 DEF SdGlobals
  <2> QED
    BY <2>1, <2>2
<1>3. sring' \in 0 .. SdRing
  BY <1>1, PlayersAssumption DEF S!PlayOpen
<1>4. PICK p \in {"idle", "take"} : sctl' = [sctl EXCEPT !["web"] = p]
  BY DEF S!PlayOpen
<1>5. splay.pc = "none" /\ ~sd.task
  BY DEF S!PlayOpen, SdInv, SdTasks
<1> QED
  BY <1>1, <1>2, <1>3, <1>4, <1>5, SdAsked

LEMMA SdGoes ==
  ASSUME SdInv, NEW ok \in BOOLEAN, NEW from \in 0 .. SdSongs - 1, S!PlayGo(ok, from)
  PROVE  SdInv'
<1>1. splay.pc = "none" /\ sd.task = FALSE
  BY DEF S!PlayGo, SdInv, SdTypes, SdTasks, SdGlobals
<1>2. sctl' = [sctl EXCEPT !["web"] = "idle"] /\ UNCHANGED <<sring, rdr>>
  BY DEF S!PlayGo
<1>3. sd' \in SdGlobals /\ sd'.task = FALSE
  <2>1. sd' = sd \/ sd' = [[sd EXCEPT !.stop = TRUE] EXCEPT !.state = "ERROR"]
    BY DEF S!PlayGo, S!Failed
  <2> QED
    BY <1>1, <2>1 DEF SdInv, SdTypes, SdGlobals
<1>4. splay' \in SdPlays /\ splay'.pc \in {"none", "alloc"}
  <2>1. splay' = splay \/ splay' = [pc |-> "alloc", cur |-> from, aborted |-> FALSE, failed |-> FALSE]
    BY DEF S!PlayGo, S!NoPlay
  <2>2. from \in 0 .. SdSongs
    BY PlayersAssumption
  <2>3. CASE splay' = splay
    BY <1>1, <2>3 DEF SdInv, SdTypes
  <2>4. CASE splay' = [pc |-> "alloc", cur |-> from, aborted |-> FALSE, failed |-> FALSE]
    BY <2>2, <2>4 DEF SdPlays
  <2> QED
    BY <2>1, <2>3, <2>4
<1>5. PICK n : slog' = [slog EXCEPT !.plays = n, !.ended = S!None, !.to = S!None]
  BY DEF S!PlayGo
<1>6. slog' = [plays |-> n, skips |-> slog.skips, ended |-> S!None, to |-> S!None]
  BY <1>5 DEF SdInv, SdTypes
<1>7. sctl' \in [S!Callers -> {"idle", "stop", "play", "open", "take"}] /\ sctl'["web"] = "idle"
  BY <1>2 DEF SdInv, SdTypes, S!Callers
<1> QED
  BY <1>1, <1>2, <1>3, <1>4, <1>6, <1>7 DEF SdInv, SdTypes, SdTasks, SdEnds

LEMMA SdSkips ==
  ASSUME SdInv, NEW d \in {1, 2}, S!Skip(d)
  PROVE  SdInv'
<1>1. sd' = [sd EXCEPT !.skip = d, !.abort = TRUE] /\ UNCHANGED <<sring, rdr, splay, sctl>>
  BY DEF S!Skip
<1>2. sd' \in SdGlobals /\ sd'.task = sd.task
  BY <1>1 DEF SdInv, SdTypes, SdGlobals
<1>3. PICK n : slog' = [slog EXCEPT !.skips = n]
  BY DEF S!Skip
<1>4. slog' = [plays |-> slog.plays, skips |-> n, ended |-> slog.ended, to |-> slog.to]
  BY <1>3 DEF SdInv, SdTypes
<1> QED
  BY <1>1, <1>2, <1>4 DEF SdInv, SdTypes, SdTasks, SdEnds

LEMMA SdControls == SdInv /\ S!Control => SdInv'
<1> SUFFICES ASSUME SdInv, S!Control PROVE SdInv'
  OBVIOUS
<1>1. "web" \in S!Callers /\ "rtsp" \in S!Callers
  BY DEF S!Callers
<1>2. CASE S!WebStop \/ S!RtspYield \/ S!WebPlay
  BY <1>1, <1>2, SdStopBegins DEF S!WebStop, S!RtspYield, S!WebPlay
<1>3. CASE S!WebPlayBad
  <2>1. sd' = [sd EXCEPT !.state = "ERROR"] /\ UNCHANGED <<sring, rdr, splay, sctl, slog>>
    BY <1>3 DEF S!WebPlayBad, S!Failed
  <2>2. sd' \in SdGlobals /\ sd'.task = sd.task
    BY <2>1 DEF SdInv, SdTypes, SdGlobals
  <2> QED
    BY <2>1, <2>2 DEF SdInv, SdTypes, SdTasks, SdEnds
<1> QED
  BY <1>2, <1>3, SdStopEnds, SdOpens, SdGoes, SdSkips DEF S!Control

LEMMA SdMoves == SdInv /\ [S!Next]_S!vars => SdInv'
<1> SUFFICES ASSUME SdInv, [S!Next]_S!vars PROVE SdInv'
  OBVIOUS
<1>1. CASE UNCHANGED S!vars
  BY <1>1 DEF S!vars, SdInv, SdTypes, SdTasks, SdEnds
<1>2. CASE S!Reader \/ S!ReaderError
  BY <1>2, SdReads
<1>3. CASE S!Play
  BY <1>3, SdAllocs, SdTops, SdBegins, SdLeaves, SdDecodes, SdReaps, SdNexts, SdCleans DEF S!Play
<1>4. CASE S!Control
  BY <1>4, SdControls
<1> QED
  BY <1>1, <1>2, <1>3, <1>4 DEF S!Next

(* The steps that create a task, and the step that begins a song.            *)
LEMMA SdCreates ==
  ASSUME SdInv, [S!Next]_S!vars
  PROVE  /\ (rdr'.pc = "open" /\ rdr.pc # "open") => rdr.pc = "none"
         /\ (splay'.pc = "alloc" /\ splay.pc # "alloc") => splay.pc = "none"
         /\ (splay.pc = "top" /\ splay'.pc = "tags" /\ slog.ended # S!None)
              => splay'.cur # slog.ended \/ sd.skip # 0
<1>1. SdInv'
  BY SdMoves
<1>2. rdr' = rdr \/ rdr'.pc # "open" \/ rdr.pc = "none"
  <2>1. CASE UNCHANGED S!vars
    BY <2>1 DEF S!vars
  <2>2. CASE S!Reader \/ S!ReaderError
    BY <2>2 DEF S!Reader, S!ReaderError, S!ReaderOpen, S!ReaderRead, S!ReaderExit, S!NoReader, SdInv, SdTypes
  <2>3. CASE S!Play
    <3>1. ASSUME NEW ok \in BOOLEAN, NEW dec \in BOOLEAN, S!PlayStart(ok, dec)
          PROVE  rdr.pc = "none"
      BY <3>1 DEF S!PlayStart, SdInv, SdTasks
    <3> QED
      BY <2>3, <3>1 DEF S!Play, S!PlayAlloc, S!PlayTop, S!PlayLeave, S!PlayDecode, S!PlayReap, S!PlayNext, S!NextSong,
         S!PlayClean
  <2>4. CASE S!Control
    BY <2>4 DEF S!Control, S!StopDone, S!StopTimeout, S!WebStop, S!RtspYield, S!WebPlay, S!StopBegin, S!WebPlayBad,
       S!PlayOpen, S!PlayGo, S!Skip
  <2> QED
    BY <2>1, <2>2, <2>3, <2>4 DEF S!Next
<1>3. splay' = splay \/ splay'.pc # "alloc" \/ splay.pc = "none"
  <2>1. CASE UNCHANGED S!vars
    BY <2>1 DEF S!vars
  <2>2. CASE S!Reader \/ S!ReaderError
    BY <2>2 DEF S!Reader, S!ReaderError, S!ReaderOpen, S!ReaderRead
  <2>3. CASE S!Play
    <3>1. CASE (\E ok \in BOOLEAN : S!PlayAlloc(ok)) \/ S!PlayTop
      BY <3>1 DEF S!PlayAlloc, S!PlayTop, SdInv, SdTypes, SdPlays
    <3>2. CASE \E ok, dec \in BOOLEAN : S!PlayStart(ok, dec)
      BY <3>2 DEF S!PlayStart, SdInv, SdTypes, SdPlays
    <3>3. CASE S!PlayLeave
      <4>1. ASSUME NEW c, splay' = S!Leave(sd, c) PROVE splay'.pc = "next"
        BY <4>1 DEF S!Leave, SdInv, SdTypes, SdPlays
      <4> QED
        BY <3>3, <4>1 DEF S!PlayLeave
    <3>7. CASE S!PlayClean
      BY <3>7 DEF S!PlayClean, S!NoPlay
    <3>4. CASE \E nomem \in BOOLEAN : S!PlayDecode(nomem)
      BY <3>4 DEF S!PlayDecode, SdInv, SdTypes, SdPlays
    <3>5. CASE \E timeout \in BOOLEAN : S!PlayReap(timeout)
      BY <3>5 DEF S!PlayReap, SdInv, SdTypes, SdPlays
    <3>6. CASE S!PlayNext
      BY <3>6 DEF S!PlayNext, S!NextSong, SdInv, SdTypes, SdPlays
    <3> QED
      BY <2>3, <3>1, <3>2, <3>3, <3>4, <3>5, <3>6, <3>7 DEF S!Play
  <2>4. CASE S!Control
    <3>1. ASSUME NEW ok \in BOOLEAN, NEW from \in 0 .. SdSongs - 1, S!PlayGo(ok, from)
          PROVE  splay.pc = "none"
      BY <3>1 DEF S!PlayGo, SdInv, SdTasks
    <3> QED
      BY <2>4, <3>1 DEF S!Control, S!StopDone, S!StopTimeout, S!WebStop, S!RtspYield, S!WebPlay, S!StopBegin,
         S!WebPlayBad, S!PlayOpen, S!Skip
  <2> QED
    BY <2>1, <2>2, <2>3, <2>4 DEF S!Next
<1>4. splay' = splay \/ splay.pc # "top" \/ S!PlayTop
  <2>1. CASE UNCHANGED S!vars
    BY <2>1 DEF S!vars
  <2>2. CASE S!Reader \/ S!ReaderError
    BY <2>2 DEF S!Reader, S!ReaderError, S!ReaderOpen, S!ReaderRead
  <2>3. CASE S!Play
    BY <2>3 DEF S!Play, S!PlayAlloc, S!PlayStart, S!PlayLeave, S!PlayDecode, S!PlayReap, S!PlayNext, S!PlayClean
  <2>4. CASE S!Control
    <3>1. ASSUME NEW ok \in BOOLEAN, NEW from \in 0 .. SdSongs - 1, S!PlayGo(ok, from)
          PROVE  splay.pc # "top"
      BY <3>1 DEF S!PlayGo, SdInv, SdTasks
    <3> QED
      BY <2>4, <3>1 DEF S!Control, S!StopDone, S!StopTimeout, S!WebStop, S!RtspYield, S!WebPlay, S!StopBegin,
         S!WebPlayBad, S!PlayOpen, S!Skip
  <2> QED
    BY <2>1, <2>2, <2>3, <2>4 DEF S!Next
<1>5. ASSUME S!PlayTop, slog.ended # S!None, sd.skip = 0
      PROVE  splay'.cur # slog.ended
  <2>1. PICK c : c = S!SkipTarget(sd, splay.cur)
    OBVIOUS
  <2>2. c = splay.cur
    BY <1>5, <2>1, SdTargets DEF SdInv, SdTypes, SdPlays
  <2>3. splay'.cur = c
    BY <1>5, <2>1 DEF S!PlayTop, SdInv, SdTypes, SdPlays
  <2>4. splay.cur # slog.ended
    BY <1>5 DEF S!PlayTop, SdInv, SdEnds
  <2> QED
    BY <2>2, <2>3, <2>4
<1> QED
  BY <1>2, <1>3, <1>4, <1>5

-----------------------------------------------------------------------------
(* The web radio (WebRadio).  A download that lives is the one the globals   *)
(* name; the next song begins, and who is about to create the play task has  *)
(* begun, with none alive.  The downloads are bounded because who waits to   *)
(* play has asked the task to stop.  A skip is taken with its abort still    *)
(* set, and no skip is accepted between two songs.                           *)
RadioGlobals == [state : {"IDLE", "CONNECTING", "PLAYING", "ERROR"}, stop : BOOLEAN, skip : {0, 1, 2},
                 failed : BOOLEAN, abort : BOOLEAN, running : BOOLEAN, task : Nat, client : Nat,
                 gen : Nat, next : Nat, list : {0, RadioSongs}, single : BOOLEAN]
RadioPlays == [pc : {"none", "alloc", "top", "probe", "start", "loop", "next", "clean"}, cur : Nat, first : BOOLEAN]
RadioSteps == {"idle", "stop", "play", "open", "load", "ready", "take"}
RadioTaking == {"open", "load", "ready", "take"}
RadioTypes ==
  /\ rd \in RadioGlobals /\ rplay \in RadioPlays
  /\ rring \in Seq(Nat) /\ Len(rring) <= RadioRing
  /\ http.gen \in Nat /\ http = [pc |-> http.pc, gen |-> http.gen, left |-> http.left, shut |-> http.shut]
  /\ rctl \in [W!Callers -> RadioSteps] /\ rctl["rtsp"] \in {"idle", "stop"}
  /\ rlog = [skips |-> rlog.skips, to |-> rlog.to, broke |-> rlog.broke]
RadioTasks ==
  /\ rd.task \in {0, rd.next}
  /\ http.pc # "none" => rd.task # 0
  /\ rplay.pc \in {"top", "probe", "start"} /\ ~rplay.first => rd.task = 0
  /\ rplay.pc = "alloc" => rplay.first
  /\ rctl["web"] \in RadioTaking => rplay.pc = "none" /\ rd.task = 0
RadioBounds ==
  /\ rd.next <= MaxGen + 2
  /\ rplay.pc \notin {"clean", "none"} => rd.next <= MaxGen + 1
  /\ rctl["web"] \in RadioTaking \cup {"play"} => rd.next <= MaxGen
  /\ rctl["web"] = "play" => rd.stop \/ rplay.pc = "none"
  /\ rctl["web"] = "play" /\ rplay.pc \in {"alloc", "top", "probe", "start"} => rd.next < MaxGen
RadioSkipped ==
  /\ rplay.pc \in {"alloc", "loop"} => rlog.to = RadioSongs
  /\ rplay.pc \in {"top", "probe", "start"} => rlog.to \in {rplay.cur, RadioSongs}
  /\ rplay.pc = "next" => rlog.to = RadioSongs \/ (rlog.to = rplay.cur /\ rd.abort)
  /\ rplay.pc \in {"probe", "start", "loop"} /\ rd.skip # 0 => rd.abort
  /\ rplay.pc \in {"probe", "start"} /\ ~rplay.first => rd.skip = 0
RadioInv == RadioTypes /\ RadioTasks /\ RadioBounds /\ RadioSkipped

LEMMA RadioStarts == W!Init => RadioInv
<1> SUFFICES ASSUME W!Init PROVE RadioInv
  OBVIOUS
<1> USE DEF W!Init
<1>1. RadioTypes
  BY PlayersAssumption DEF RadioTypes, RadioGlobals, RadioPlays, RadioSteps, W!NoHttp, W!NoPlay, W!Callers
<1>2. RadioTasks /\ RadioSkipped
  BY DEF RadioTasks, RadioTaking, RadioSkipped, W!NoHttp, W!NoPlay, W!Callers
<1>3. RadioBounds
  BY PlayersAssumption DEF RadioBounds, RadioTaking, W!NoPlay, W!Callers
<1> QED
  BY <1>1, <1>2, <1>3 DEF RadioInv

(* Globals in which the songs stand as before: no count or skip has changed  *)
(* and no request to stop or abort is taken back.                            *)
RadioQuiet(r) ==
  /\ r \in RadioGlobals /\ r.next = rd.next /\ r.skip = rd.skip
  /\ (rd.abort => r.abort) /\ (rd.stop => r.stop)

LEMMA RadioRests ==
  ASSUME RadioInv, RadioQuiet(rd'), rd'.task \in {0, rd.task}, http'.pc # "none" => rd'.task # 0,
         http' = [pc |-> http'.pc, gen |-> http'.gen, left |-> http'.left, shut |-> http'.shut], http'.gen \in Nat,
         rring' \in Seq(Nat), Len(rring') <= RadioRing, UNCHANGED <<rplay, rctl>>,
         rlog' = [skips |-> rlog'.skips, to |-> rlog'.to, broke |-> rlog'.broke], rlog'.to = rlog.to
  PROVE  RadioInv'
<1>1. rd' \in RadioGlobals /\ rd'.next = rd.next /\ rd'.skip = rd.skip
  BY DEF RadioQuiet
<1>2. (rd.abort => rd'.abort) /\ (rd.stop => rd'.stop)
  BY DEF RadioQuiet
<1>3. RadioTypes'
  BY <1>1 DEF RadioInv, RadioTypes
<1>4. RadioTasks'
  BY <1>1 DEF RadioInv, RadioTasks
<1>5. RadioBounds'
  BY <1>1, <1>2 DEF RadioInv, RadioBounds
<1>6. RadioSkipped'
  BY <1>1, <1>2 DEF RadioInv, RadioSkipped
<1> QED
  BY <1>3, <1>4, <1>5, <1>6 DEF RadioInv

(* The download.                                                             *)
LEMMA RadioFreed ==
  ASSUME NEW r \in RadioGlobals, NEW s, s = [r EXCEPT !.client = 0, !.running = FALSE, !.task = 0]
  PROVE  s \in RadioGlobals
BY DEF RadioGlobals

LEMMA RadioLeaves ==
  ASSUME RadioInv, NEW r, RadioQuiet(r), r.task = rd.task, rd' = W!HttpExit(r), http' = W!NoHttp,
         UNCHANGED <<rring, rplay, rctl>>, NEW b, rlog' = rlog \/ rlog' = [rlog EXCEPT !.broke = b]
  PROVE  RadioInv'
<1>1. rd' = r \/ rd' = [r EXCEPT !.client = 0, !.running = FALSE, !.task = 0]
  BY DEF W!HttpExit
<1>2. RadioQuiet(rd') /\ rd'.task \in {0, rd.task}
  <2>1. CASE rd' = r
    BY <2>1
  <2>2. CASE rd' = [r EXCEPT !.client = 0, !.running = FALSE, !.task = 0]
    <3>1. r \in RadioGlobals
      BY DEF RadioQuiet
    <3>2. rd' \in RadioGlobals
      BY <2>2, <3>1, RadioFreed
    <3>3. rd'.task = 0 /\ rd'.next = r.next /\ rd'.skip = r.skip /\ rd'.abort = r.abort /\ rd'.stop = r.stop
      BY <2>2, <3>1 DEF RadioGlobals
    <3> QED
      BY <3>2, <3>3 DEF RadioQuiet
  <2> QED
    BY <1>1, <2>1, <2>2
<1>3. http' = [pc |-> "none", gen |-> 0, left |-> 0, shut |-> FALSE]
  BY DEF W!NoHttp
<1>4. rlog' = [skips |-> rlog'.skips, to |-> rlog'.to, broke |-> rlog'.broke] /\ rlog'.to = rlog.to
  <2>1. PICK c : rlog' = [skips |-> rlog.skips, to |-> rlog.to, broke |-> c]
    BY DEF RadioInv, RadioTypes
  <2> QED
    BY <2>1
<1>5. rring' \in Seq(Nat) /\ Len(rring') <= RadioRing
  BY DEF RadioInv, RadioTypes
<1>6. /\ http' = [pc |-> http'.pc, gen |-> http'.gen, left |-> http'.left, shut |-> http'.shut]
      /\ http'.gen \in Nat /\ http'.pc = "none"
  BY <1>3
<1> QED
  BY <1>2, <1>4, <1>5, <1>6, RadioRests

LEMMA RadioFails ==
  ASSUME RadioInv
  PROVE  RadioQuiet(rd) /\ RadioQuiet(W!Failed(rd)) /\ W!Failed(rd).task = rd.task
BY DEF RadioInv, RadioTypes, RadioQuiet, RadioGlobals, W!Failed

LEMMA RadioInits ==
  ASSUME RadioInv, NEW ok \in BOOLEAN, W!HttpInit(ok)
  PROVE  RadioInv'
<1>1. CASE ok
  <2>1. rd' = [rd EXCEPT !.client = http.gen, !.gen = http.gen] /\ http' = [http EXCEPT !.pc = "perform"]
        /\ http.pc = "init" /\ UNCHANGED <<rring, rplay, rctl, rlog>>
    BY <1>1 DEF W!HttpInit
  <2>2. RadioQuiet(rd') /\ rd'.task = rd.task /\ rd.task # 0
    BY <2>1 DEF RadioInv, RadioTypes, RadioTasks, RadioQuiet, RadioGlobals
  <2>3. http' = [pc |-> "perform", gen |-> http.gen, left |-> http.left, shut |-> http.shut] /\ http.gen \in Nat
    BY <2>1 DEF RadioInv, RadioTypes
  <2>4. http' = [pc |-> http'.pc, gen |-> http'.gen, left |-> http'.left, shut |-> http'.shut] /\ http'.gen \in Nat
    BY <2>3
  <2>5. rring' \in Seq(Nat) /\ Len(rring') <= RadioRing
        /\ rlog' = [skips |-> rlog'.skips, to |-> rlog'.to, broke |-> rlog'.broke] /\ rlog'.to = rlog.to
    BY <2>1 DEF RadioInv, RadioTypes
  <2> QED
    BY <2>1, <2>2, <2>4, <2>5, RadioRests
<1>2. CASE ~ok
  <2>1. PICK r : r = W!Failed(rd)
    OBVIOUS
  <2>2. RadioQuiet(r) /\ r.task = rd.task
    BY <2>1, RadioFails
  <2>3. rd' = W!HttpExit(r) /\ http' = W!NoHttp /\ UNCHANGED <<rring, rplay, rctl>> /\ rlog' = rlog
    BY <1>2, <2>1 DEF W!HttpInit
  <2> QED
    BY <2>2, <2>3, RadioLeaves
<1> QED
  BY <1>1, <1>2

LEMMA RadioFills ==
  ASSUME RadioInv, W!HttpData
  PROVE  RadioInv'
<1>1. http.pc = "perform" /\ UNCHANGED <<rplay, rctl, rlog>>
  BY DEF W!HttpData
<1>2. PICK x : http' = [http EXCEPT !.left = x]
  BY DEF W!HttpData
<1>3. http' = [pc |-> http.pc, gen |-> http.gen, left |-> x, shut |-> http.shut] /\ http.gen \in Nat
  BY <1>2 DEF RadioInv, RadioTypes
<1>4. http' = [pc |-> http'.pc, gen |-> http'.gen, left |-> http'.left, shut |-> http'.shut] /\ http'.gen \in Nat
  BY <1>3
<1>5. rring' \in Seq(Nat) /\ Len(rring') <= RadioRing
  <2>1. CASE rring' = rring
    BY <2>1 DEF RadioInv, RadioTypes
  <2>2. CASE rring' = Append(rring, http.gen) /\ Len(rring) < RadioRing
    BY <2>2, PlayersAssumption DEF RadioInv, RadioTypes
  <2> QED
    BY <2>1, <2>2 DEF W!HttpData
<1>6. RadioQuiet(rd') /\ rd'.task = rd.task
  <2>1. rd' = rd \/ rd' = [rd EXCEPT !.state = "PLAYING"] \/ rd' = [rd EXCEPT !.state = rd.state]
    BY DEF W!HttpData
  <2> QED
    BY <2>1 DEF RadioInv, RadioTypes, RadioQuiet, RadioGlobals
<1>7. rd.task # 0 /\ rlog' = [skips |-> rlog'.skips, to |-> rlog'.to, broke |-> rlog'.broke]
  BY <1>1 DEF RadioInv, RadioTypes, RadioTasks
<1> QED
  BY <1>1, <1>4, <1>5, <1>6, <1>7, RadioRests

LEMMA RadioReturns ==
  ASSUME RadioInv, NEW broken \in BOOLEAN, W!HttpReturn(broken)
  PROVE  RadioInv'
<1>1. PICK r : r = (IF (broken \/ http.shut) /\ ~rd.abort /\ ~rd.stop THEN W!Failed(rd) ELSE rd)
  OBVIOUS
<1>2. r = rd \/ r = W!Failed(rd)
  BY <1>1
<1>3. RadioQuiet(r) /\ r.task = rd.task
  BY <1>2, RadioFails
<1>4. rd' = W!HttpExit(r) /\ http' = W!NoHttp /\ UNCHANGED <<rring, rplay, rctl>>
  BY <1>1 DEF W!HttpReturn
<1>5. PICK b : rlog' = [rlog EXCEPT !.broke = b]
  BY DEF W!HttpReturn
<1> QED
  BY <1>3, <1>4, <1>5, RadioLeaves

(* The play task: the states in which a song has yet to begin.               *)
RadioEarly == {"alloc", "top", "probe", "start"}
LEMMA RadioPlayed ==
  ASSUME RadioInv, rplay.pc \notin {"none", "clean"}, UNCHANGED rctl,
         rd' \in RadioGlobals, rd'.next = rd.next, rd'.task = rd.task, rd.stop => rd'.stop,
         rplay' \in RadioPlays, rplay'.pc \notin {"alloc", "none"},
         rplay'.pc \in RadioEarly => rplay.pc \in RadioEarly \/ ~rd.stop,
         rplay'.pc \in RadioEarly /\ ~rplay'.first => rd.task = 0,
         http' = [pc |-> http.pc, gen |-> http.gen, left |-> http.left, shut |-> http'.shut],
         rring' \in Seq(Nat), Len(rring') <= RadioRing,
         rlog' = [skips |-> rlog'.skips, to |-> rlog'.to, broke |-> rlog'.broke], RadioSkipped'
  PROVE  RadioInv'
<1>1. http'.pc = http.pc /\ http'.gen = http.gen /\ http'.left = http.left
  OBVIOUS
<1>2. RadioTypes'
  BY <1>1 DEF RadioInv, RadioTypes
<1>3. RadioTasks'
  BY <1>1 DEF RadioInv, RadioTasks, RadioEarly
<1>4. rctl["web"] \notin RadioTaking
  BY DEF RadioInv, RadioTasks
<1>5. /\ rd.next <= MaxGen + 2 /\ rd.next <= MaxGen + 1
      /\ rctl["web"] = "play" => rd.next <= MaxGen /\ rd.stop
      /\ rctl["web"] = "play" /\ rplay.pc \in RadioEarly => rd.next < MaxGen
  BY DEF RadioInv, RadioBounds, RadioEarly
<1>6. RadioBounds'
  BY <1>4, <1>5 DEF RadioBounds, RadioEarly
<1> QED
  BY <1>2, <1>3, <1>6 DEF RadioInv

LEMMA RadioShapes ==
  ASSUME RadioInv
  PROVE  /\ http = [pc |-> http.pc, gen |-> http.gen, left |-> http.left, shut |-> http.shut]
         /\ rlog = [skips |-> rlog.skips, to |-> rlog.to, broke |-> rlog.broke]
         /\ rring \in Seq(Nat) /\ Len(rring) <= RadioRing /\ rd \in RadioGlobals /\ rplay \in RadioPlays
BY DEF RadioInv, RadioTypes

LEMMA RadioEmpties == RadioInv => <<>> \in Seq(Nat) /\ Len(<<>>) <= RadioRing
BY PlayersAssumption

LEMMA RadioTargets ==
  ASSUME RadioInv, NEW from \in Nat
  PROVE  W!SkipTarget(rd, from) \in Nat /\ (rd.skip = 0 => W!SkipTarget(rd, from) = from)
<1>1. PICK t \in Nat : t = W!Total(rd)
  BY PlayersAssumption DEF RadioInv, RadioTypes, RadioGlobals, W!Total
<1>2. CASE rd.skip = 1 /\ t > 1
  <2>1. (from + 1) % t \in Nat
    BY <1>1, <1>2
  <2> QED
    BY <1>1, <1>2, <2>1 DEF W!SkipTarget
<1>3. CASE ~(rd.skip = 1 /\ t > 1)
  BY <1>1, <1>3 DEF W!SkipTarget
<1> QED
  BY <1>2, <1>3

LEMMA RadioAllocs ==
  ASSUME RadioInv, NEW ok \in BOOLEAN, W!PlayAlloc(ok)
  PROVE  RadioInv'
<1>1. rplay.pc = "alloc" /\ UNCHANGED <<rring, http, rctl, rlog>> /\ rplay.first /\ rlog.to = RadioSongs
  BY DEF W!PlayAlloc, RadioInv, RadioTasks, RadioSkipped
<1>2. PICK p \in {"top", "clean"} : rplay' = [rplay EXCEPT !.pc = p]
  BY DEF W!PlayAlloc
<1>3. rplay' \in RadioPlays /\ rplay'.pc = p /\ rplay'.first = rplay.first
  BY <1>2, RadioShapes DEF RadioPlays
<1>4. rd' = rd \/ rd' = W!Failed(rd)
  BY DEF W!PlayAlloc
<1>5. RadioQuiet(rd') /\ rd'.task = rd.task
  BY <1>4, RadioFails
<1>6. RadioSkipped'
  BY <1>1, <1>3 DEF RadioSkipped
<1>7. rd' \in RadioGlobals /\ rd'.next = rd.next /\ (rd.stop => rd'.stop)
  BY <1>5 DEF RadioQuiet
<1> QED
  BY <1>1, <1>3, <1>5, <1>6, <1>7, RadioShapes, RadioPlayed DEF RadioEarly

LEMMA RadioTops ==
  ASSUME RadioInv, W!PlayTop
  PROVE  RadioInv'
<1>1. rplay.pc = "top" /\ UNCHANGED <<rring, http, rctl>>
  BY DEF W!PlayTop
<1>2. PICK c \in Nat : c = W!SkipTarget(rd, rplay.cur)
  BY RadioTargets, RadioShapes DEF RadioPlays
<1>3. rd.skip = 0 => c = rplay.cur
  BY <1>2, RadioTargets, RadioShapes DEF RadioPlays
<1>4. PICK p \in {"probe", "start", "clean"} : rplay' = [rplay EXCEPT !.cur = c, !.pc = p]
  BY <1>2 DEF W!PlayTop
<1>5. rplay' \in RadioPlays /\ rplay'.pc = p /\ rplay'.cur = c /\ rplay'.first = rplay.first
  BY <1>4, RadioShapes DEF RadioPlays
<1>6. rlog' = rlog \/ rlog' = [rlog EXCEPT !.to = rlog.to] \/ rlog' = [rlog EXCEPT !.to = c]
  BY <1>2 DEF W!PlayTop
<1>7. rlog'.to \in {c, RadioSongs} /\ rlog' = [skips |-> rlog'.skips, to |-> rlog'.to, broke |-> rlog'.broke]
  <2>1. rlog.to \in {rplay.cur, RadioSongs}
    BY <1>1 DEF RadioInv, RadioSkipped
  <2>2. CASE rd.skip # 0
    <3>1. rlog' = [rlog EXCEPT !.to = c]
      BY <1>2, <2>2 DEF W!PlayTop
    <3>2. rlog' = [skips |-> rlog.skips, to |-> c, broke |-> rlog.broke]
      BY <3>1, RadioShapes
    <3> QED
      BY <3>2
  <2>3. CASE rd.skip = 0
    <3>1. rlog' = [rlog EXCEPT !.to = rlog.to]
      BY <2>3 DEF W!PlayTop
    <3>2. rlog' = [skips |-> rlog.skips, to |-> rlog.to, broke |-> rlog.broke]
      BY <3>1, RadioShapes
    <3> QED
      BY <1>3, <2>1, <2>3, <3>2
  <2> QED
    BY <2>2, <2>3
<1>8. rd' \in RadioGlobals /\ rd'.next = rd.next /\ rd'.task = rd.task /\ (rd.stop => rd'.stop) /\ rd'.skip = 0
  <2>1. \/ rd' = [rd EXCEPT !.skip = 0]
        \/ rd' = [[rd EXCEPT !.skip = 0] EXCEPT !.failed = FALSE, !.abort = FALSE]
    BY DEF W!PlayTop, W!SkipTaken, W!TrackBegin
  <2>2. CASE rd' = [rd EXCEPT !.skip = 0]
    BY <2>2, RadioShapes DEF RadioGlobals
  <2>3. CASE rd' = [[rd EXCEPT !.skip = 0] EXCEPT !.failed = FALSE, !.abort = FALSE]
    BY <2>3, RadioShapes DEF RadioGlobals
  <2> QED
    BY <2>1, <2>2, <2>3
<1>9. RadioSkipped'
  BY <1>5, <1>7, <1>8 DEF RadioSkipped
<1>10. rplay'.pc \in RadioEarly /\ ~rplay'.first => rd.task = 0
  BY <1>1, <1>5 DEF RadioInv, RadioTasks
<1> QED
  BY <1>1, <1>5, <1>7, <1>8, <1>9, <1>10, RadioShapes, RadioPlayed DEF RadioEarly

LEMMA RadioProbes ==
  ASSUME RadioInv, W!PlayProbe
  PROVE  RadioInv'
<1>1. rplay.pc = "probe" /\ rplay' = [rplay EXCEPT !.pc = "start"] /\ UNCHANGED <<rd, rring, http, rctl, rlog>>
  BY DEF W!PlayProbe
<1>2. rplay' \in RadioPlays /\ rplay'.pc = "start" /\ rplay'.cur = rplay.cur /\ rplay'.first = rplay.first
  BY <1>1, RadioShapes DEF RadioPlays
<1>3. RadioSkipped'
  BY <1>1, <1>2 DEF RadioInv, RadioSkipped
<1>4. ~rplay.first => rd.task = 0
  BY <1>1 DEF RadioInv, RadioTasks
<1> QED
  BY <1>1, <1>2, <1>3, <1>4, RadioShapes, RadioPlayed DEF RadioEarly

(* The song begins: on its first download, or on one of its own.             *)
LEMMA RadioStumbles ==
  ASSUME NEW r \in RadioGlobals, NEW s, s = r \/ s = [W!Failed(r) EXCEPT !.failed = TRUE]
  PROVE  /\ s \in RadioGlobals /\ s.next = r.next /\ s.task = r.task /\ s.stop = r.stop
         /\ s.skip = r.skip /\ s.abort = r.abort
BY DEF RadioGlobals, W!Failed

LEMMA RadioBegins1 ==
  ASSUME RadioInv, NEW ok \in BOOLEAN, NEW dec \in BOOLEAN, W!PlayStart(ok, dec), rplay.first
  PROVE  RadioInv'
<1>1. rplay.pc = "start" /\ http' = http /\ rring' = <<>> /\ UNCHANGED rctl
  BY DEF W!PlayStart
<1>2. rd' = rd \/ rd' = [W!Failed(rd) EXCEPT !.failed = TRUE]
  BY DEF W!PlayStart
<1>3. /\ rd' \in RadioGlobals /\ rd'.next = rd.next /\ rd'.task = rd.task /\ rd'.stop = rd.stop
      /\ rd'.skip = rd.skip /\ rd'.abort = rd.abort
  BY <1>2, RadioShapes, RadioStumbles
<1>4. PICK p \in {"loop", "next"} : rplay' = [rplay EXCEPT !.pc = p, !.first = FALSE]
  BY DEF W!PlayStart
<1>5. rplay' \in RadioPlays /\ rplay'.pc = p
  BY <1>4, RadioShapes DEF RadioPlays
<1>6. rlog' = [rlog EXCEPT !.to = RadioSongs]
  BY DEF W!PlayStart
<1>7. rlog' = [skips |-> rlog.skips, to |-> RadioSongs, broke |-> rlog.broke]
  BY <1>6, RadioShapes
<1>8. rlog'.to = RadioSongs /\ rlog' = [skips |-> rlog'.skips, to |-> rlog'.to, broke |-> rlog'.broke]
  BY <1>7
<1>9. RadioSkipped'
  BY <1>1, <1>3, <1>5, <1>8 DEF RadioInv, RadioSkipped
<1> QED
  BY <1>1, <1>3, <1>5, <1>8, <1>9, RadioShapes, RadioEmpties, RadioPlayed DEF RadioEarly

LEMMA RadioNewHttp ==
  ASSUME NEW r \in RadioGlobals, NEW s, s = W!StartHttp(r, TRUE)
  PROVE  /\ s \in RadioGlobals /\ s.next = r.next + 1 /\ s.task = r.next + 1 /\ s.stop = r.stop
         /\ s.skip = r.skip
<1>1. PICK n \in Nat : n = r.next + 1
  BY DEF RadioGlobals
<1>2. s = [r EXCEPT !.next = n, !.abort = FALSE, !.running = TRUE, !.task = n]
  BY <1>1 DEF W!StartHttp, RadioGlobals
<1>3. s \in RadioGlobals
  BY <1>2 DEF RadioGlobals
<1>4. s.next = n /\ s.task = n
  BY <1>2 DEF RadioGlobals
<1>5. s.stop = r.stop /\ s.skip = r.skip
  BY <1>2 DEF RadioGlobals
<1> QED
  BY <1>1, <1>3, <1>4, <1>5

LEMMA RadioNoHttp ==
  ASSUME NEW r \in RadioGlobals, NEW s, s = W!StartHttp(r, FALSE)
  PROVE  /\ s \in RadioGlobals /\ s.next = r.next + 1 /\ s.task = r.task /\ s.stop = r.stop
         /\ s.skip = r.skip
<1>1. PICK n \in Nat : n = r.next + 1
  BY DEF RadioGlobals
<1>2. s = [[r EXCEPT !.next = n, !.abort = FALSE, !.running = FALSE] EXCEPT !.state = "ERROR"]
  BY <1>1 DEF W!StartHttp, W!Failed, RadioGlobals
<1>3. s \in RadioGlobals
  BY <1>2 DEF RadioGlobals
<1>4. s.next = n /\ s.task = r.task
  BY <1>2 DEF RadioGlobals
<1>5. s.stop = r.stop /\ s.skip = r.skip
  BY <1>2 DEF RadioGlobals
<1> QED
  BY <1>1, <1>3, <1>4, <1>5

LEMMA RadioBegins2 ==
  ASSUME RadioInv, NEW ok \in BOOLEAN, NEW dec \in BOOLEAN, W!PlayStart(ok, dec), ~rplay.first
  PROVE  RadioInv'
<1>1. rplay.pc = "start" /\ UNCHANGED rctl /\ rd.task = 0 /\ rd.skip = 0
  BY DEF W!PlayStart, RadioInv, RadioTasks, RadioSkipped
<1>2. /\ rd.next <= MaxGen + 1 /\ rctl["web"] \notin RadioTaking
      /\ rctl["web"] = "play" => rd.next < MaxGen /\ rd.stop
      /\ rd.next \in Nat /\ MaxGen \in Nat
  BY <1>1, PlayersAssumption, RadioShapes DEF RadioInv, RadioTasks, RadioBounds, RadioGlobals
<1>3. CASE ok /\ rplay.cur < W!Total(rd)
  <2>1. PICK r : r = W!StartHttp(rd, TRUE)
    OBVIOUS
  <2>2. r \in RadioGlobals /\ r.next = rd.next + 1 /\ r.task = rd.next + 1 /\ r.stop = rd.stop /\ r.skip = 0
    BY <1>1, <2>1, RadioShapes, RadioNewHttp
  <2>3. rd' = r \/ rd' = [W!Failed(r) EXCEPT !.failed = TRUE]
    BY <1>3, <2>1 DEF W!PlayStart
  <2>4. PICK n \in Nat : n = rd.next + 1
    BY <1>2
  <2>5. rd' \in RadioGlobals /\ rd'.next = n /\ rd'.task = n /\ rd'.stop = rd.stop /\ rd'.skip = 0
    BY <2>2, <2>3, <2>4, RadioStumbles
  <2>6. rd.next < MaxGen
    BY <1>3 DEF W!PlayStart
  <2>7. http' = [pc |-> "init", gen |-> n, left |-> StreamChunks, shut |-> FALSE]
    BY <1>3, <2>4 DEF W!PlayStart, W!HttpTask
  <2>8. PICK p \in {"loop", "next"} : rplay' = [rplay EXCEPT !.pc = p, !.first = FALSE]
    BY <1>3 DEF W!PlayStart
  <2>9. rplay' \in RadioPlays /\ rplay'.pc = p
    BY <2>8, RadioShapes DEF RadioPlays
  <2>10. rlog' = [rlog EXCEPT !.to = RadioSongs] /\ rring' = <<>>
    BY <1>3 DEF W!PlayStart
  <2>11. rlog' = [skips |-> rlog.skips, to |-> RadioSongs, broke |-> rlog.broke]
    BY <2>10, RadioShapes
  <2>12. rlog'.to = RadioSongs /\ rlog' = [skips |-> rlog'.skips, to |-> rlog'.to, broke |-> rlog'.broke]
         /\ http'.gen \in Nat /\ http' = [pc |-> http'.pc, gen |-> http'.gen, left |-> http'.left, shut |-> http'.shut]
    BY <2>7, <2>11
  <2>13. rctl' \in [W!Callers -> RadioSteps] /\ rctl'["rtsp"] \in {"idle", "stop"}
    BY <1>1 DEF RadioInv, RadioTypes
  <2>14. RadioTypes'
    BY <2>5, <2>9, <2>10, <2>12, <2>13, RadioEmpties DEF RadioTypes
  <2>15. RadioTasks'
    BY <1>1, <1>2, <2>4, <2>5, <2>9 DEF RadioTasks
  <2>16. n <= MaxGen
    BY <1>2, <2>4, <2>6
  <2>17. n <= MaxGen + 1 /\ n <= MaxGen + 2
    BY <1>2, <2>16
  <2>18. RadioBounds'
    BY <1>1, <1>2, <2>5, <2>9, <2>16, <2>17 DEF RadioBounds
  <2>19. RadioSkipped'
    BY <2>5, <2>9, <2>12 DEF RadioSkipped
  <2> QED
    BY <2>14, <2>15, <2>18, <2>19 DEF RadioInv
<1>4. CASE ~(ok /\ rplay.cur < W!Total(rd))
  <2>1. rplay' = [rplay EXCEPT !.pc = "clean"] /\ UNCHANGED <<http, rring, rlog>>
    BY <1>4 DEF W!PlayStart
  <2>2. rplay' \in RadioPlays /\ rplay'.pc = "clean"
    BY <2>1, RadioShapes DEF RadioPlays
  <2>3. rd' = rd \/ rd' = W!StartHttp(rd, FALSE)
    BY <1>4 DEF W!PlayStart
  <2>4. rd' \in RadioGlobals /\ rd'.next \in {rd.next, rd.next + 1} /\ rd'.task = 0 /\ rd'.stop = rd.stop
    BY <1>1, <2>3, RadioShapes, RadioNoHttp
  <2>5. PICK n : n = rd'.next
    OBVIOUS
  <2>6. n <= MaxGen + 2 /\ (rctl["web"] = "play" => n <= MaxGen)
    BY <1>2, <2>4, <2>5
  <2>7. RadioTypes'
    BY <1>1, <2>1, <2>2, <2>4 DEF RadioInv, RadioTypes
  <2>8. http.pc = "none"
    BY <1>1 DEF RadioInv, RadioTasks
  <2>9. RadioTasks'
    BY <1>1, <1>2, <2>1, <2>2, <2>4, <2>8 DEF RadioTasks
  <2>10. RadioBounds'
    BY <1>1, <1>2, <2>2, <2>4, <2>5, <2>6 DEF RadioBounds
  <2>11. RadioSkipped'
    BY <2>2 DEF RadioSkipped
  <2> QED
    BY <2>7, <2>9, <2>10, <2>11 DEF RadioInv
<1> QED
  BY <1>3, <1>4

LEMMA RadioTails == ASSUME NEW r \in Seq(Nat), r # <<>> PROVE Tail(r) \in Seq(Nat) /\ Len(Tail(r)) = Len(r) - 1
BY HeadTailProperties

LEMMA RadioLeavesSong ==
  ASSUME RadioInv, W!PlayLeave
  PROVE  RadioInv'
<1>1. rplay.pc = "loop" /\ UNCHANGED <<http, rctl>> /\ rlog.to = RadioSongs /\ (rd.skip # 0 => rd.abort)
  BY DEF W!PlayLeave, RadioInv, RadioSkipped
<1>2. CASE rplay' = [rplay EXCEPT !.pc = "next"] /\ UNCHANGED <<rd, rring, rlog>>
  <2>1. rplay' \in RadioPlays /\ rplay'.pc = "next"
    BY <1>2, RadioShapes DEF RadioPlays
  <2>2. RadioSkipped'
    BY <1>1, <1>2, <2>1 DEF RadioSkipped
  <2> QED
    BY <1>1, <1>2, <2>1, <2>2, RadioShapes, RadioPlayed DEF RadioEarly
<1>3. CASE /\ rd.skip # 0
           /\ rd' = W!SkipTaken(rd) /\ rring' = <<>>
           /\ rplay' = [rplay EXCEPT !.pc = "next", !.cur = W!SkipTarget(rd, rplay.cur)]
           /\ rlog' = [rlog EXCEPT !.to = W!SkipTarget(rd, rplay.cur)]
  <2>1. PICK c \in Nat : c = W!SkipTarget(rd, rplay.cur)
    BY RadioTargets, RadioShapes DEF RadioPlays
  <2>2. rplay' = [rplay EXCEPT !.pc = "next", !.cur = c] /\ rlog' = [rlog EXCEPT !.to = c]
    BY <1>3, <2>1
  <2>3. rplay' \in RadioPlays /\ rplay'.pc = "next" /\ rplay'.cur = c
    BY <2>2, RadioShapes DEF RadioPlays
  <2>4. rlog' = [skips |-> rlog.skips, to |-> c, broke |-> rlog.broke]
    BY <2>2, RadioShapes
  <2>5. rlog'.to = c /\ rlog' = [skips |-> rlog'.skips, to |-> rlog'.to, broke |-> rlog'.broke]
    BY <2>4
  <2>6. rd' = [rd EXCEPT !.skip = 0]
    BY <1>3 DEF W!SkipTaken
  <2>7. /\ rd' \in RadioGlobals /\ rd'.next = rd.next /\ rd'.task = rd.task
        /\ rd'.stop = rd.stop /\ rd'.abort = rd.abort
    BY <2>6, RadioShapes DEF RadioGlobals
  <2>8. RadioSkipped'
    BY <1>1, <1>3, <2>3, <2>5, <2>7 DEF RadioSkipped
  <2> QED
    BY <1>1, <1>3, <2>3, <2>5, <2>7, <2>8, RadioShapes, RadioEmpties, RadioPlayed DEF RadioEarly
<1> QED
  BY <1>2, <1>3 DEF W!PlayLeave

LEMMA RadioAborts ==
  ASSUME RadioInv, NEW r, r = W!Aborted(rd) \/ r = [W!Aborted(rd) EXCEPT !.failed = TRUE]
  PROVE  RadioQuiet(r) /\ r.task = rd.task /\ r.abort
<1>1. rd \in RadioGlobals
  BY RadioShapes
<1>2. CASE r = W!Aborted(rd)
  BY <1>1, <1>2 DEF RadioQuiet, RadioGlobals, W!Aborted
<1>3. CASE r = [W!Aborted(rd) EXCEPT !.failed = TRUE]
  BY <1>1, <1>3 DEF RadioQuiet, RadioGlobals, W!Aborted
<1> QED
  BY <1>2, <1>3

LEMMA RadioShuts ==
  ASSUME RadioInv, NEW h, h = http \/ h = W!Shut(rd, http)
  PROVE  /\ h = [pc |-> http.pc, gen |-> http.gen, left |-> http.left, shut |-> h.shut]
         /\ h.pc = http.pc /\ h.gen = http.gen
<1>1. PICK b : h = [http EXCEPT !.shut = http.shut] \/ h = [http EXCEPT !.shut = b]
  BY RadioShapes DEF W!Shut
<1>2. PICK x : h = [pc |-> http.pc, gen |-> http.gen, left |-> http.left, shut |-> x]
  BY <1>1, RadioShapes
<1> QED
  BY <1>2

LEMMA RadioDecodes ==
  ASSUME RadioInv, NEW nomem \in BOOLEAN, NEW stalled \in BOOLEAN, W!PlayDecode(nomem, stalled)
  PROVE  RadioInv'
<1>1. /\ rplay.pc = "loop" /\ UNCHANGED <<rctl, rlog>> /\ rlog.to = RadioSongs /\ (rd.skip # 0 => rd.abort)
      /\ rring # <<>> /\ rring' = Tail(rring)
  BY DEF W!PlayDecode, RadioInv, RadioSkipped
<1>2. rring' \in Seq(Nat) /\ Len(rring') = Len(rring) - 1 /\ Len(rring) \in Nat
  BY <1>1, RadioShapes, RadioTails
<1>3. PICK n \in Nat : n = Len(rring) /\ Len(rring') = n - 1 /\ n <= RadioRing
  BY <1>2, RadioShapes
<1>4. Len(rring') <= RadioRing
  BY <1>3, PlayersAssumption
<1>5. CASE nomem
  <2>1. rd' = W!Failed(rd) /\ rplay' = [rplay EXCEPT !.pc = "clean"] /\ http' = http
    BY <1>5 DEF W!PlayDecode
  <2>2. rplay' \in RadioPlays /\ rplay'.pc = "clean"
    BY <2>1, RadioShapes DEF RadioPlays
  <2>3. rd' \in RadioGlobals /\ rd'.next = rd.next /\ rd'.task = rd.task /\ (rd.stop => rd'.stop)
    BY <2>1, RadioFails DEF RadioQuiet
  <2>4. RadioSkipped'
    BY <2>2 DEF RadioSkipped
  <2> QED
    BY <1>1, <1>2, <1>4, <2>1, <2>2, <2>3, <2>4, RadioShapes, RadioPlayed DEF RadioEarly
<1>6. CASE ~nomem
  <2>1. UNCHANGED rplay
    BY <1>6 DEF W!PlayDecode
  <2>2. rd' = rd \/ rd' = [W!Aborted(rd) EXCEPT !.failed = TRUE]
    BY <1>6 DEF W!PlayDecode
  <2>3. RadioQuiet(rd') /\ rd'.task = rd.task
    BY <2>2, RadioAborts, RadioFails
  <2>4. http' = http \/ http' = W!Shut(rd, http)
    BY <1>6 DEF W!PlayDecode
  <2>5. http' = [pc |-> http.pc, gen |-> http.gen, left |-> http.left, shut |-> http'.shut]
    BY <2>4, RadioShuts
  <2>6. http'.pc = http.pc /\ http'.gen = http.gen /\ http'.left = http.left
    BY <2>5
  <2>7. http.gen \in Nat /\ rd'.task \in {0, rd.task} /\ (http.pc # "none" => rd.task # 0)
    BY <2>3 DEF RadioInv, RadioTypes, RadioTasks
  <2>8. http' = [pc |-> http'.pc, gen |-> http'.gen, left |-> http'.left, shut |-> http'.shut]
    BY <2>5, <2>6
  <2> QED
    BY <1>1, <1>2, <1>4, <2>1, <2>3, <2>6, <2>7, <2>8, RadioShapes, RadioRests
<1> QED
  BY <1>5, <1>6

LEMMA RadioAwaits ==
  ASSUME RadioInv, NEW timeout \in BOOLEAN, W!PlayAwait(timeout)
  PROVE  RadioInv'
<1>1. rplay.pc = "next" /\ UNCHANGED <<rring, rctl, rlog>> /\ http' = W!Shut(rd, http)
  BY DEF W!PlayAwait
<1>2. http' = [pc |-> http.pc, gen |-> http.gen, left |-> http.left, shut |-> http'.shut]
  BY <1>1, RadioShuts
<1>3. PICK p \in {"next", "clean"} : rplay' = [rplay EXCEPT !.pc = p]
  BY <1>1 DEF W!PlayAwait
<1>4. rplay' \in RadioPlays /\ rplay'.pc = p /\ rplay'.cur = rplay.cur
  BY <1>3, RadioShapes DEF RadioPlays
<1>5. PICK s \in BOOLEAN : s = (rd.stop \/ timeout)
  OBVIOUS
<1>6. rd' = [[rd EXCEPT !.abort = TRUE] EXCEPT !.stop = s]
  <2>1. rd' = [W!Aborted(rd) EXCEPT !.stop = W!Aborted(rd).stop \/ timeout]
    BY DEF W!PlayAwait
  <2>2. W!Aborted(rd) = [rd EXCEPT !.abort = TRUE]
    BY DEF W!Aborted
  <2>3. W!Aborted(rd).stop = rd.stop
    BY <2>2, RadioShapes DEF RadioGlobals
  <2> QED
    BY <1>5, <2>1, <2>2, <2>3
<1>7. /\ rd' \in RadioGlobals /\ rd'.next = rd.next /\ rd'.task = rd.task /\ rd'.abort /\ rd'.stop = s
  BY <1>6, RadioShapes DEF RadioGlobals
<1>8. RadioSkipped'
  BY <1>1, <1>4, <1>7 DEF RadioInv, RadioSkipped
<1> QED
  BY <1>1, <1>2, <1>4, <1>5, <1>7, <1>8, RadioShapes, RadioPlayed DEF RadioEarly

LEMMA RadioNexts ==
  ASSUME RadioInv, W!PlayNext
  PROVE  RadioInv'
<1>1. rplay.pc = "next" /\ rd.task = 0 /\ UNCHANGED <<rring, http, rctl, rlog>>
  BY DEF W!PlayNext, W!NextTrack
<1>2. rlog.to = RadioSongs \/ (rlog.to = rplay.cur /\ rd.abort)
  BY <1>1 DEF RadioInv, RadioSkipped
<1>3. \/ rplay' = [rplay EXCEPT !.pc = "clean"]
      \/ ~rd.stop /\ rd.abort /\ rplay' = [rplay EXCEPT !.pc = "top"]
      \/ ~rd.stop /\ ~rd.abort /\ rplay' = [rplay EXCEPT !.pc = "top", !.cur = @ + 1]
  BY DEF W!PlayNext, W!NextTrack
<1>4. rd' = rd \/ rd' = W!Failed(rd) \/ rd' = [rd EXCEPT !.state = "IDLE"]
  BY DEF W!PlayNext, W!NextTrack
<1>5. rd' \in RadioGlobals /\ rd'.next = rd.next /\ rd'.task = rd.task /\ (rd.stop => rd'.stop)
  <2>1. CASE rd' = rd \/ rd' = W!Failed(rd)
    BY <2>1, RadioFails DEF RadioQuiet
  <2>2. CASE rd' = [rd EXCEPT !.state = "IDLE"]
    BY <2>2, RadioShapes DEF RadioGlobals
  <2> QED
    BY <1>4, <2>1, <2>2
<1>6. CASE rplay' = [rplay EXCEPT !.pc = "clean"]
  <2>1. rplay' \in RadioPlays /\ rplay'.pc = "clean"
    BY <1>6, RadioShapes DEF RadioPlays
  <2>2. RadioSkipped'
    BY <2>1 DEF RadioSkipped
  <2> QED
    BY <1>1, <1>5, <2>1, <2>2, RadioShapes, RadioPlayed DEF RadioEarly
<1>7. CASE ~rd.stop /\ rd.abort /\ rplay' = [rplay EXCEPT !.pc = "top"]
  <2>1. rplay' \in RadioPlays /\ rplay'.pc = "top" /\ rplay'.cur = rplay.cur
    BY <1>7, RadioShapes DEF RadioPlays
  <2>2. RadioSkipped'
    BY <1>1, <1>2, <2>1 DEF RadioSkipped
  <2> QED
    BY <1>1, <1>5, <1>7, <2>1, <2>2, RadioShapes, RadioPlayed DEF RadioEarly
<1>8. CASE ~rd.stop /\ ~rd.abort /\ rplay' = [rplay EXCEPT !.pc = "top", !.cur = @ + 1]
  <2>1. PICK c \in Nat : c = rplay.cur + 1
    BY RadioShapes DEF RadioPlays
  <2>2. rplay' = [rplay EXCEPT !.pc = "top", !.cur = c]
    BY <1>8, <2>1
  <2>3. rplay' \in RadioPlays /\ rplay'.pc = "top"
    BY <2>2, RadioShapes DEF RadioPlays
  <2>4. RadioSkipped'
    BY <1>1, <1>2, <1>8, <2>3 DEF RadioSkipped
  <2> QED
    BY <1>1, <1>5, <1>8, <2>3, <2>4, RadioShapes, RadioPlayed DEF RadioEarly
<1> QED
  BY <1>3, <1>6, <1>7, <1>8

LEMMA RadioCleans ==
  ASSUME RadioInv, W!PlayClean
  PROVE  RadioInv'
<1>1. rplay' = [pc |-> "none", cur |-> 0, first |-> FALSE] /\ UNCHANGED <<rd, rring, http, rctl, rlog>>
  BY DEF W!PlayClean, W!NoPlay
<1>2. rplay' \in RadioPlays /\ rplay'.pc = "none"
  BY <1>1 DEF RadioPlays
<1>3. RadioTypes'
  BY <1>1, <1>2 DEF RadioInv, RadioTypes
<1>4. RadioTasks' /\ RadioSkipped'
  BY <1>1, <1>2 DEF RadioInv, RadioTasks, RadioSkipped
<1>5. RadioBounds'
  BY <1>1, <1>2 DEF RadioInv, RadioBounds
<1> QED
  BY <1>3, <1>4, <1>5 DEF RadioInv

(* The control functions.                                                    *)
LEMMA RadioAsked ==
  ASSUME RadioInv, rd' \in RadioGlobals, rd'.next = rd.next, rd'.task = rd.task,
         rplay.pc = "none" \/ RadioQuiet(rd'), UNCHANGED <<rplay, rlog>>,
         http' = [pc |-> http.pc, gen |-> http.gen, left |-> http.left, shut |-> http'.shut],
         rring' \in Seq(Nat), Len(rring') <= RadioRing,
         rctl' \in [W!Callers -> RadioSteps], rctl'["rtsp"] \in {"idle", "stop"},
         rctl'["web"] \in RadioTaking
           => rctl["web"] \in RadioTaking \/ (rplay.pc = "none" /\ rd.task = 0 /\ rd.next <= MaxGen),
         rctl'["web"] = "play"
           => rctl["web"] = "play" \/ (rd.next < MaxGen /\ (rd'.stop \/ rplay.pc = "none"))
  PROVE  RadioInv'
<1>1. http'.pc = http.pc /\ http'.gen = http.gen /\ http'.left = http.left
  OBVIOUS
<1>2. RadioTypes'
  BY <1>1 DEF RadioInv, RadioTypes
<1>3. RadioTasks'
  BY <1>1 DEF RadioInv, RadioTasks
<1>4. /\ rd.next <= MaxGen + 2
      /\ rplay.pc \notin {"clean", "none"} => rd.next <= MaxGen + 1
      /\ rctl["web"] \in RadioTaking \cup {"play"} => rd.next <= MaxGen
      /\ rctl["web"] = "play" => rd.stop \/ rplay.pc = "none"
      /\ rctl["web"] = "play" /\ rplay.pc \in {"alloc", "top", "probe", "start"} => rd.next < MaxGen
  BY DEF RadioInv, RadioBounds
<1>5. rd.next < MaxGen => rd.next <= MaxGen
  BY PlayersAssumption, RadioShapes DEF RadioGlobals
<1>6. RadioBounds'
  BY <1>4, <1>5 DEF RadioBounds, RadioQuiet
<1>7. RadioSkipped'
  BY DEF RadioInv, RadioSkipped, RadioQuiet
<1> QED
  BY <1>2, <1>3, <1>6, <1>7 DEF RadioInv

LEMMA RadioCalls ==
  ASSUME RadioInv
  PROVE  rctl \in [W!Callers -> RadioSteps] /\ rctl["rtsp"] \in {"idle", "stop"}
BY DEF RadioInv, RadioTypes

LEMMA RadioStopBegins ==
  ASSUME RadioInv, NEW c \in W!Callers, NEW then \in {"stop", "play"}, W!StopBegin(c, then),
         then = "play" => c = "web" /\ rd.next < MaxGen
  PROVE  RadioInv'
<1>1. UNCHANGED <<rring, rplay, rlog>>
  BY DEF W!StopBegin
<1>2. CASE W!Gone(rd)
  <2>1. rd' = [rd EXCEPT !.state = "IDLE"] /\ http' = http
    BY <1>2 DEF W!StopBegin
  <2>2. rd' \in RadioGlobals /\ rd'.next = rd.next /\ rd'.task = rd.task
    BY <2>1, RadioShapes DEF RadioGlobals
  <2>3. PICK p \in {"open", "idle"} : rctl' = [rctl EXCEPT ![c] = p] /\ (p = "open" => then = "play")
    BY <1>2 DEF W!StopBegin
  <2>4. rctl' \in [W!Callers -> RadioSteps] /\ rctl'["rtsp"] \in {"idle", "stop"}
    BY <2>3, RadioCalls DEF RadioSteps, W!Callers
  <2>5. rplay.pc = "none" /\ rd.task = 0
    BY <1>2 DEF W!Gone
  <2>6. rd.next < MaxGen => rd.next <= MaxGen
    BY PlayersAssumption, RadioShapes DEF RadioGlobals
  <2>7. /\ rctl'["web"] \in RadioTaking => rctl["web"] \in RadioTaking \/ rd.next < MaxGen
        /\ rctl'["web"] = "play" => rctl["web"] = "play"
    BY <2>3, RadioCalls DEF RadioTaking, W!Callers
  <2> QED
    BY <1>1, <2>1, <2>2, <2>4, <2>5, <2>6, <2>7, RadioShapes, RadioAsked
<1>3. CASE ~W!Gone(rd)
  <2>1. rd' = [[rd EXCEPT !.stop = TRUE] EXCEPT !.abort = TRUE] /\ http' = W!Shut(rd, http)
    BY <1>3 DEF W!StopBegin, W!Aborted
  <2>2. rd' \in RadioGlobals /\ rd'.next = rd.next /\ rd'.task = rd.task /\ rd'.stop /\ rd'.abort /\ rd'.skip = rd.skip
    BY <2>1, RadioShapes DEF RadioGlobals
  <2>3. RadioQuiet(rd')
    BY <2>2 DEF RadioQuiet
  <2>4. rctl' = [rctl EXCEPT ![c] = then]
    BY <1>3 DEF W!StopBegin
  <2>5. rctl' \in [W!Callers -> RadioSteps] /\ rctl'["rtsp"] \in {"idle", "stop"}
    BY <2>4, RadioCalls DEF RadioSteps, W!Callers
  <2>6. /\ rctl'["web"] \in RadioTaking => rctl["web"] \in RadioTaking
        /\ rctl'["web"] = "play" => rctl["web"] = "play" \/ rd.next < MaxGen
    BY <2>4, RadioCalls DEF RadioTaking, W!Callers
  <2>7. http' = [pc |-> http.pc, gen |-> http.gen, left |-> http.left, shut |-> http'.shut]
    BY <2>1, RadioShuts
  <2> QED
    BY <1>1, <2>2, <2>3, <2>5, <2>6, <2>7, RadioShapes, RadioAsked
<1> QED
  BY <1>2, <1>3

LEMMA RadioStopWaits ==
  ASSUME RadioInv, NEW c \in W!Callers, W!StopWait(c)
  PROVE  RadioInv'
<1>1. rd' = W!Aborted(rd) /\ http' = W!Shut(rd, http) /\ UNCHANGED <<rring, rplay, rctl, rlog>>
  BY DEF W!StopWait
<1>2. RadioQuiet(rd') /\ rd'.task = rd.task
  BY <1>1, RadioAborts
<1>3. rd' \in RadioGlobals /\ rd'.next = rd.next
  BY <1>2 DEF RadioQuiet
<1>4. http' = [pc |-> http.pc, gen |-> http.gen, left |-> http.left, shut |-> http'.shut]
  BY <1>1, RadioShuts
<1> QED
  BY <1>1, <1>2, <1>3, <1>4, RadioShapes, RadioCalls, RadioAsked

LEMMA RadioStopEnds ==
  ASSUME RadioInv, NEW c \in W!Callers, W!StopDone(c) \/ W!StopTimeout(c)
  PROVE  RadioInv'
<1>1. UNCHANGED <<http, rplay, rlog>> /\ rctl[c] \in {"stop", "play"}
  BY DEF W!StopDone, W!StopTimeout
<1>2. CASE W!StopDone(c)
  <2>1. rd' = [rd EXCEPT !.stop = FALSE, !.skip = 0, !.failed = FALSE, !.abort = FALSE,
                         !.state = "IDLE", !.list = 0, !.single = FALSE] /\ rring' = <<>>
    BY <1>2 DEF W!StopDone, W!AtRest
  <2>2. rd' \in RadioGlobals /\ rd'.next = rd.next /\ rd'.task = rd.task
    BY <2>1, RadioShapes DEF RadioGlobals
  <2>3. rplay.pc = "none" /\ rd.task = 0
    BY <1>2 DEF W!StopDone, W!Gone
  <2>4. PICK p \in {"open", "idle"} : rctl' = [rctl EXCEPT ![c] = p] /\ (p = "open" => rctl[c] = "play")
    BY <1>2 DEF W!StopDone
  <2>5. /\ rctl' \in [W!Callers -> RadioSteps] /\ rctl'["rtsp"] \in {"idle", "stop"}
        /\ rctl'["web"] = "play" => rctl["web"] = "play"
        /\ rctl'["web"] \in RadioTaking => rctl["web"] \in RadioTaking \cup {"play"}
    BY <2>4, RadioCalls DEF RadioSteps, RadioTaking, W!Callers
  <2>6. rctl["web"] \in RadioTaking \cup {"play"} => rd.next <= MaxGen
    BY DEF RadioInv, RadioBounds
  <2> QED
    BY <1>1, <2>1, <2>2, <2>3, <2>5, <2>6, RadioShapes, RadioEmpties, RadioAsked
<1>3. CASE W!StopTimeout(c)
  <2>1. rctl' = [rctl EXCEPT ![c] = "idle"] /\ (rd' = rd \/ rd' = W!Failed(rd)) /\ rring' = rring
    BY <1>3 DEF W!StopTimeout
  <2>2. RadioQuiet(rd') /\ rd'.task = rd.task
    BY <2>1, RadioFails
  <2>3. rd' \in RadioGlobals /\ rd'.next = rd.next
    BY <2>2 DEF RadioQuiet
  <2>4. /\ rctl' \in [W!Callers -> RadioSteps] /\ rctl'["rtsp"] \in {"idle", "stop"}
        /\ rctl'["web"] = "play" => rctl["web"] = "play"
        /\ rctl'["web"] \in RadioTaking => rctl["web"] \in RadioTaking
    BY <2>1, RadioCalls DEF RadioSteps, RadioTaking, W!Callers
  <2> QED
    BY <1>1, <2>1, <2>2, <2>3, <2>4, RadioShapes, RadioAsked
<1> QED
  BY <1>2, <1>3

\* The steps of play_url between its stop and the tasks it creates.
LEMMA RadioTakes ==
  ASSUME RadioInv, rctl["web"] \in RadioTaking, rd' \in RadioGlobals, rd'.next = rd.next, rd'.task = rd.task,
         NEW p \in RadioTaking \cup {"idle"}, rctl' = [rctl EXCEPT !["web"] = p],
         rring' = rring \/ rring' = <<>>, UNCHANGED <<http, rplay, rlog>>
  PROVE  RadioInv'
<1>1. rplay.pc = "none"
  BY DEF RadioInv, RadioTasks
<1>2. /\ rctl' \in [W!Callers -> RadioSteps] /\ rctl'["rtsp"] \in {"idle", "stop"}
      /\ rctl'["web"] # "play"
  BY RadioCalls DEF RadioSteps, RadioTaking, W!Callers
<1>3. rring' \in Seq(Nat) /\ Len(rring') <= RadioRing
  BY RadioShapes, RadioEmpties
<1> QED
  BY <1>1, <1>2, <1>3, RadioShapes, RadioAsked

LEMMA RadioOpens ==
  ASSUME RadioInv, NEW many \in BOOLEAN, W!PlayOpen(many)
  PROVE  RadioInv'
<1>1. rctl["web"] \in RadioTaking /\ UNCHANGED <<rring, http, rplay, rlog>>
  BY DEF W!PlayOpen, RadioTaking
<1>2. rd' = [rd EXCEPT !.state = "CONNECTING"] \/ rd' = [rd EXCEPT !.list = 0, !.single = TRUE]
  BY DEF W!PlayOpen
<1>3. rd' \in RadioGlobals /\ rd'.next = rd.next /\ rd'.task = rd.task
  BY <1>2, RadioShapes DEF RadioGlobals
<1>4. PICK p \in {"load", "ready"} : rctl' = [rctl EXCEPT !["web"] = p]
  BY DEF W!PlayOpen
<1> QED
  BY <1>1, <1>3, <1>4, RadioTakes DEF RadioTaking

LEMMA RadioLoads ==
  ASSUME RadioInv, NEW n \in {0, RadioSongs}, W!PlayLoad(n)
  PROVE  RadioInv'
<1>1. rctl["web"] \in RadioTaking /\ UNCHANGED <<rring, http, rplay, rlog>>
  BY DEF W!PlayLoad, RadioTaking
<1>2. rd' = [[rd EXCEPT !.list = 0] EXCEPT !.state = "ERROR"] \/ rd' = [rd EXCEPT !.list = n]
  BY DEF W!PlayLoad, W!Failed
<1>3. rd' \in RadioGlobals /\ rd'.next = rd.next /\ rd'.task = rd.task
  BY <1>2, RadioShapes DEF RadioGlobals
<1>4. PICK p \in {"idle", "ready"} : rctl' = [rctl EXCEPT !["web"] = p]
  BY DEF W!PlayLoad
<1> QED
  BY <1>1, <1>3, <1>4, RadioTakes DEF RadioTaking

LEMMA RadioReadies ==
  ASSUME RadioInv, W!PlayReady
  PROVE  RadioInv'
<1>1. rctl["web"] \in RadioTaking /\ rctl' = [rctl EXCEPT !["web"] = "take"] /\ rring' = <<>>
      /\ UNCHANGED <<http, rplay, rlog>>
  BY DEF W!PlayReady, RadioTaking
<1>2. rd' = [[rd EXCEPT !.state = "CONNECTING", !.stop = FALSE, !.skip = 0] EXCEPT !.failed = FALSE, !.abort = FALSE]
  BY DEF W!PlayReady, W!TrackBegin
<1>3. rd' \in RadioGlobals /\ rd'.next = rd.next /\ rd'.task = rd.task
  BY <1>2, RadioShapes DEF RadioGlobals
<1> QED
  BY <1>1, <1>3, RadioTakes DEF RadioTaking

LEMMA RadioGoes ==
  ASSUME RadioInv, NEW ok \in BOOLEAN, NEW task \in BOOLEAN, W!PlayGo(ok, task)
  PROVE  RadioInv'
<1>1. rctl["web"] = "take" /\ rctl' = [rctl EXCEPT !["web"] = "idle"] /\ rring' = rring
  BY DEF W!PlayGo
<1>2. rplay.pc = "none" /\ rd.task = 0 /\ http.pc = "none"
  BY <1>1 DEF RadioInv, RadioTasks, RadioTaking
<1>3. PICK n \in Nat : n = rd.next + 1 /\ n <= MaxGen + 1
  BY <1>1, PlayersAssumption, RadioShapes DEF RadioInv, RadioBounds, RadioTaking, RadioGlobals
<1>4. PICK r : r = W!StartHttp(rd, ok)
  OBVIOUS
<1>5. r \in RadioGlobals /\ r.next = n /\ r.task \in {0, n} /\ (ok => r.task = n)
  BY <1>2, <1>3, <1>4, RadioShapes, RadioNewHttp, RadioNoHttp
<1>6. rd' \in RadioGlobals /\ rd'.next = n /\ rd'.task = r.task
  <2>1. rd' = r \/ rd' = [[r EXCEPT !.stop = TRUE] EXCEPT !.state = "ERROR"]
    BY <1>4 DEF W!PlayGo, W!Failed
  <2> QED
    BY <1>5, <2>1 DEF RadioGlobals
<1>7. PICK h : h = http'
  OBVIOUS
<1>8. h.gen \in Nat /\ h = [pc |-> h.pc, gen |-> h.gen, left |-> h.left, shut |-> h.shut] /\ (h.pc # "none" => ok)
  <2>1. CASE ok
    <3>1. h = [pc |-> "init", gen |-> n, left |-> StreamChunks, shut |-> FALSE]
      BY <1>3, <1>7, <2>1 DEF W!PlayGo, W!HttpTask
    <3> QED
      BY <2>1, <3>1
  <2>2. CASE ~ok
    BY <1>2, <1>7, <2>2 DEF W!PlayGo, W!HttpTask, RadioInv, RadioTypes
  <2> QED
    BY <2>1, <2>2
<1>9. rplay' \in RadioPlays /\ rplay'.pc \in {"none", "alloc"} /\ (rplay'.pc = "alloc" => rplay'.first)
  <2>1. rplay' = rplay \/ rplay' = [pc |-> "alloc", cur |-> 0, first |-> TRUE]
    BY DEF W!PlayGo
  <2>2. CASE rplay' = rplay
    BY <1>2, <2>2, RadioShapes
  <2>3. CASE rplay' = [pc |-> "alloc", cur |-> 0, first |-> TRUE]
    BY <2>3 DEF RadioPlays
  <2> QED
    BY <2>1, <2>2, <2>3
<1>10. rlog' = [skips |-> rlog.skips, to |-> RadioSongs, broke |-> FALSE]
  BY RadioShapes DEF W!PlayGo
<1>11. rlog'.to = RadioSongs /\ rlog' = [skips |-> rlog'.skips, to |-> rlog'.to, broke |-> rlog'.broke]
  BY <1>10
<1>12. /\ rctl' \in [W!Callers -> RadioSteps] /\ rctl'["rtsp"] \in {"idle", "stop"} /\ rctl'["web"] = "idle"
  BY <1>1, RadioCalls DEF RadioSteps, W!Callers
<1>13. RadioTypes'
  BY <1>1, <1>6, <1>7, <1>8, <1>9, <1>11, <1>12, RadioShapes DEF RadioTypes
<1>14. n # 0 /\ n <= MaxGen + 2
  BY <1>3, PlayersAssumption, RadioShapes DEF RadioGlobals
<1>15. RadioTasks'
  BY <1>5, <1>6, <1>7, <1>8, <1>9, <1>12, <1>14 DEF RadioTasks, RadioTaking
<1>16. RadioBounds'
  BY <1>3, <1>6, <1>9, <1>12, <1>14 DEF RadioBounds, RadioTaking
<1>17. RadioSkipped'
  BY <1>9, <1>11 DEF RadioSkipped
<1> QED
  BY <1>13, <1>15, <1>16, <1>17 DEF RadioInv

LEMMA RadioSkips ==
  ASSUME RadioInv, NEW d \in {1, 2}, W!Skip(d)
  PROVE  RadioInv'
<1>1. rd.task # 0 /\ http' = W!Shut(rd, http) /\ UNCHANGED <<rring, rplay, rctl>>
  BY DEF W!Skip
<1>2. rd' = [[rd EXCEPT !.skip = d] EXCEPT !.abort = TRUE]
  BY DEF W!Skip, W!Aborted
<1>3. rd' \in RadioGlobals /\ rd'.next = rd.next /\ rd'.task = rd.task /\ rd'.stop = rd.stop /\ rd'.abort
  BY <1>2, RadioShapes DEF RadioGlobals
<1>4. PICK n : rlog' = [rlog EXCEPT !.skips = n]
  BY DEF W!Skip
<1>5. rlog' = [skips |-> n, to |-> rlog.to, broke |-> rlog.broke]
  BY <1>4, RadioShapes
<1>6. rlog'.to = rlog.to /\ rlog' = [skips |-> rlog'.skips, to |-> rlog'.to, broke |-> rlog'.broke]
  BY <1>5
<1>7. http' = [pc |-> http.pc, gen |-> http.gen, left |-> http.left, shut |-> http'.shut]
  BY <1>1, RadioShuts
<1>8. http'.pc = http.pc /\ http'.gen = http.gen /\ http'.left = http.left
  BY <1>7
<1>9. RadioTypes'
  BY <1>1, <1>3, <1>6, <1>7, <1>8 DEF RadioInv, RadioTypes
<1>10. RadioTasks'
  BY <1>1, <1>3, <1>8 DEF RadioInv, RadioTasks
<1>11. RadioBounds'
  BY <1>1, <1>3 DEF RadioInv, RadioBounds
<1>12. RadioSkipped'
  BY <1>1, <1>3, <1>6 DEF RadioInv, RadioTasks, RadioSkipped
<1> QED
  BY <1>9, <1>10, <1>11, <1>12 DEF RadioInv

LEMMA RadioControls == RadioInv /\ W!Control => RadioInv'
<1> SUFFICES ASSUME RadioInv, W!Control PROVE RadioInv'
  OBVIOUS
<1>1. "web" \in W!Callers /\ "rtsp" \in W!Callers
  BY DEF W!Callers
<1>2. CASE W!WebStop \/ W!RtspYield
  BY <1>1, <1>2, RadioStopBegins DEF W!WebStop, W!RtspYield
<1>3. CASE W!WebPlay
  BY <1>1, <1>3, RadioStopBegins DEF W!WebPlay
<1>4. CASE W!WebPlayBad
  <2>1. rd' = W!Failed(rd) /\ UNCHANGED <<rring, http, rplay, rctl, rlog>>
    BY <1>4 DEF W!WebPlayBad
  <2>2. RadioQuiet(rd') /\ rd'.task = rd.task
    BY <2>1, RadioFails
  <2>3. rd' \in RadioGlobals /\ rd'.next = rd.next
    BY <2>2 DEF RadioQuiet
  <2> QED
    BY <2>1, <2>2, <2>3, RadioShapes, RadioCalls, RadioAsked
<1>5. CASE \/ \E many \in BOOLEAN : W!PlayOpen(many)
           \/ \E n \in {0, RadioSongs} : W!PlayLoad(n)
           \/ W!PlayReady
           \/ \E ok, task \in BOOLEAN : W!PlayGo(ok, task)
           \/ \E d \in {1, 2} : W!Skip(d)
  BY <1>5, RadioOpens, RadioLoads, RadioReadies, RadioGoes, RadioSkips
<1> QED
  BY <1>2, <1>3, <1>4, <1>5, RadioStopWaits, RadioStopEnds DEF W!Control

LEMMA RadioMoves == RadioInv /\ [W!Next]_W!vars => RadioInv'
<1> SUFFICES ASSUME RadioInv, [W!Next]_W!vars PROVE RadioInv'
  OBVIOUS
<1>1. CASE UNCHANGED W!vars
  BY <1>1 DEF W!vars, RadioInv, RadioTypes, RadioTasks, RadioBounds, RadioSkipped
<1>2. CASE W!Http
  BY <1>2, RadioInits, RadioFills, RadioReturns DEF W!Http
<1>3. CASE W!Play
  BY <1>3, RadioAllocs, RadioTops, RadioProbes, RadioBegins1, RadioBegins2, RadioLeavesSong, RadioDecodes,
     RadioAwaits, RadioNexts, RadioCleans DEF W!Play
<1>4. CASE W!Control
  BY <1>4, RadioControls
<1> QED
  BY <1>1, <1>2, <1>3, <1>4 DEF W!Next

(* The steps that create a task.                                             *)
LEMMA RadioCreates ==
  ASSUME RadioInv, [W!Next]_W!vars
  PROVE  /\ (http'.gen # http.gen /\ http'.pc = "init") => http.pc = "none"
         /\ (rplay'.pc = "alloc" /\ rplay.pc # "alloc") => rplay.pc = "none"
<1>1. http'.gen = http.gen \/ http'.pc # "init" \/ http.pc = "none"
  <2>1. CASE UNCHANGED W!vars
    BY <2>1 DEF W!vars
  <2>2. CASE W!Http
    <3>1. CASE \E ok \in BOOLEAN : W!HttpInit(ok)
      BY <3>1, RadioShapes DEF W!HttpInit, W!NoHttp
    <3>2. CASE W!HttpData
      BY <3>2 DEF W!HttpData
    <3>3. CASE \E broken \in BOOLEAN : W!HttpReturn(broken)
      BY <3>3 DEF W!HttpReturn, W!NoHttp
    <3> QED
      BY <2>2, <3>1, <3>2, <3>3 DEF W!Http
  <2>3. http' = http \/ http' = W!Shut(rd, http) => http'.gen = http.gen
    <3>1. CASE http' = http
      BY <3>1
    <3>2. CASE http' = W!Shut(rd, http)
      BY <3>2, RadioShuts
    <3> QED
      BY <3>1, <3>2
  <2>4. CASE W!Play
    <3>1. ASSUME NEW ok \in BOOLEAN, NEW dec \in BOOLEAN, W!PlayStart(ok, dec)
          PROVE  http' = http \/ http.pc = "none"
      <4>1. CASE rplay.first
        BY <3>1, <4>1 DEF W!PlayStart
      <4>2. CASE ~rplay.first
        BY <3>1, <4>2 DEF W!PlayStart, RadioInv, RadioTasks
      <4> QED
        BY <4>1, <4>2
    <3>2. CASE \E nomem, stalled \in BOOLEAN : W!PlayDecode(nomem, stalled)
      BY <3>2, <2>3 DEF W!PlayDecode
    <3>3. CASE \E timeout \in BOOLEAN : W!PlayAwait(timeout)
      BY <3>3, <2>3 DEF W!PlayAwait
    <3> QED
      BY <2>4, <3>1, <3>2, <3>3 DEF W!Play, W!PlayAlloc, W!PlayTop, W!PlayProbe, W!PlayLeave, W!PlayNext, W!NextTrack,
         W!PlayClean
  <2>5. CASE W!Control
    <3>1. ASSUME NEW ok \in BOOLEAN, NEW task \in BOOLEAN, W!PlayGo(ok, task)
          PROVE  http.pc = "none"
      BY <3>1 DEF W!PlayGo, RadioInv, RadioTasks, RadioTaking
    <3>2. ASSUME NEW c \in W!Callers, W!StopWait(c) \/ W!StopDone(c) \/ W!StopTimeout(c)
          PROVE  http'.gen = http.gen
      BY <3>2, <2>3 DEF W!StopWait, W!StopDone, W!StopTimeout
    <3>3. CASE W!WebStop \/ W!RtspYield \/ W!WebPlay \/ \E d \in {1, 2} : W!Skip(d)
      BY <3>3, <2>3 DEF W!WebStop, W!RtspYield, W!WebPlay, W!StopBegin, W!Skip
    <3> QED
      BY <2>5, <3>1, <3>2, <3>3 DEF W!Control, W!WebPlayBad, W!PlayOpen, W!PlayLoad, W!PlayReady
  <2> QED
    BY <2>1, <2>2, <2>4, <2>5 DEF W!Next
<1>2. rplay' = rplay \/ rplay'.pc # "alloc" \/ rplay.pc = "none"
  <2>1. CASE UNCHANGED W!vars
    BY <2>1 DEF W!vars
  <2>2. CASE W!Http
    BY <2>2 DEF W!Http, W!HttpInit, W!HttpData, W!HttpReturn
  <2>3. CASE W!Play
    <3>1. CASE (\E ok \in BOOLEAN : W!PlayAlloc(ok)) \/ W!PlayTop \/ W!PlayProbe
      BY <3>1, RadioShapes DEF W!PlayAlloc, W!PlayTop, W!PlayProbe, RadioPlays
    <3>2. CASE \E ok, dec \in BOOLEAN : W!PlayStart(ok, dec)
      <4>1. PICK p \in {"clean", "loop", "next"} :
              rplay' = [rplay EXCEPT !.pc = p] \/ rplay' = [rplay EXCEPT !.pc = p, !.first = FALSE]
        BY <3>2 DEF W!PlayStart
      <4> QED
        BY <4>1, RadioShapes DEF RadioPlays
    <3>3. CASE W!PlayLeave
      BY <3>3, RadioShapes DEF W!PlayLeave, RadioPlays
    <3>4. CASE \E nomem, stalled \in BOOLEAN : W!PlayDecode(nomem, stalled)
      BY <3>4, RadioShapes DEF W!PlayDecode, RadioPlays
    <3>5. CASE \E timeout \in BOOLEAN : W!PlayAwait(timeout)
      BY <3>5, RadioShapes DEF W!PlayAwait, RadioPlays
    <3>6. CASE W!PlayNext
      BY <3>6, RadioShapes DEF W!PlayNext, W!NextTrack, RadioPlays
    <3>7. CASE W!PlayClean
      BY <3>7 DEF W!PlayClean, W!NoPlay
    <3> QED
      BY <2>3, <3>1, <3>2, <3>3, <3>4, <3>5, <3>6, <3>7 DEF W!Play
  <2>4. CASE W!Control
    <3>1. ASSUME NEW ok \in BOOLEAN, NEW task \in BOOLEAN, W!PlayGo(ok, task)
          PROVE  rplay.pc = "none"
      BY <3>1 DEF W!PlayGo, RadioInv, RadioTasks, RadioTaking
    <3> QED
      BY <2>4, <3>1 DEF W!Control, W!StopWait, W!StopDone, W!StopTimeout, W!WebStop, W!RtspYield, W!WebPlay,
         W!StopBegin, W!WebPlayBad, W!PlayOpen, W!PlayLoad, W!PlayReady, W!Skip
  <2> QED
    BY <2>1, <2>2, <2>3, <2>4 DEF W!Next
<1> QED
  BY <1>1, <1>2

-----------------------------------------------------------------------------
(* The globals stay within their types, and no download, reader or play task *)
(* is created while the one before it lives, in the radio and in the SD      *)
(* player, whatever stops, timeouts, skips and failures come in between      *)
(* (play_url, start_http_task, start_reader, next_track).                    *)
THEOREM OneTaskAtATime == W!Spec /\ S!Spec => OneTaskEach
<1>1. RadioInv => W!TypeOK
  BY PlayersAssumption DEF RadioInv, RadioTypes, RadioGlobals, RadioTasks, RadioBounds, RadioSteps, W!TypeOK
<1>2. SdInv => S!TypeOK
  BY DEF SdInv, SdTypes, SdGlobals, SdPlays, S!TypeOK
<1>3. RadioInv /\ [W!Next]_W!vars
        => [/\ (http'.gen # http.gen /\ http'.pc = "init") => http.pc = "none"
            /\ (rplay'.pc = "alloc" /\ rplay.pc # "alloc") => rplay.pc = "none"]_W!vars
  BY RadioCreates
<1>4. SdInv /\ [S!Next]_S!vars
        => [/\ (rdr'.pc = "open" /\ rdr.pc # "open") => rdr.pc = "none"
            /\ (splay'.pc = "alloc" /\ splay.pc # "alloc") => splay.pc = "none"]_S!vars
  BY SdCreates
<1> QED
  BY <1>1, <1>2, <1>3, <1>4, RadioStarts, RadioMoves, SdStarts, SdMoves, PTL
     DEF W!Spec, S!Spec, OneTaskEach, W!OneTaskEach, S!OneTaskEach

(* A skip taken by the radio lands on the song it chose, a song the SD       *)
(* player played to its end is not begun again unasked, and every track      *)
(* shows a title of its own (next_track, apply_skip, track_begin).           *)
THEOREM SongsFollow == W!Spec /\ S!Spec /\ Spec => SongsInOrder
<1>1. RadioInv => W!SkipLands
  BY DEF RadioInv, RadioSkipped, W!SkipLands
<1>2. SdInv /\ [S!Next]_S!vars
        => [(splay.pc = "top" /\ splay'.pc = "tags" /\ slog.ended # S!None)
              => splay'.cur # slog.ended \/ sd.skip # 0]_S!vars
  BY SdCreates
<1> QED
  BY <1>1, <1>2, RadioStarts, RadioMoves, SdStarts, SdMoves, TitlesAreOwn, PTL
     DEF W!Spec, S!Spec, SongsInOrder, S!EndMovesOn
=============================================================================
