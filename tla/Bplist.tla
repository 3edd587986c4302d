------------------------------- MODULE Bplist -------------------------------
(***************************************************************************)
(* Binary property lists: the ones this program writes                     *)
(* (bplist_builder.c), what its parser (bplist_parser.c) reads out of the  *)
(* ones a sender writes, and the XML twin of the /info answer              *)
(* (plist_xml.c).  A file is its table of objects; an object keeps its     *)
(* kind, its value and the bytes it takes, a container the numbers of the  *)
(* objects in it, which the builders of this program count by hand.        *)
(* A lookup answers {} (not found) or {value}.                             *)
(***************************************************************************)
EXTENDS Naturals, Sequences

CONSTANTS
  Names,       \* device names
  Capacities,  \* buffers /info is built in
  Ports,       \* ports announced in a SETUP answer
  Types,       \* stream types, as a sender writes them
  Keys,        \* key material: byte strings
  MaxStreams   \* streams of a request

VARIABLES
  request,  \* what a sender put in its plist, or what the program was asked to build
  file      \* the binary plist, <<>> when the builder gave up
vars == <<request, file>>

-----------------------------------------------------------------------------
(* Objects. *)

Str(s) == [t |-> "str", v |-> s, size |-> Len(s)]
Data(d, n) == [t |-> "data", v |-> d, size |-> n]
Num(n, w) == [t |-> "int", v |-> n, size |-> w]
Real(r) == [t |-> "real", v |-> r, size |-> 8]
Arr(refs) == [t |-> "array", keys |-> <<>>, vals |-> refs, size |-> Len(refs)]
Dict(keys, vals) == [t |-> "dict", keys |-> keys, vals |-> vals, size |-> 2 * Len(keys)]

Width(n) == IF n <= 255 THEN 1 ELSE IF n <= 65535 THEN 2 ELSE 4
Count(o) == IF o.t = "dict" THEN Len(o.keys) ELSE o.size
Header(o) == IF o.t \in {"int", "real"} \/ Count(o) < 15 THEN 1 ELSE 3
Bytes(o) == Header(o) + o.size

(* Where each object starts, after the magic; 0-based like the refs. *)
Offset(objs) ==
  LET At[i \in 0..Len(objs)] == IF i = 0 THEN 8 ELSE At[i - 1] + Bytes(objs[i]) IN At

(* The offset table and the trailer close the file. *)
Finished(objs, top, offsetSize, capacity) ==
  LET at == Offset(objs)
      len == at[Len(objs)] + offsetSize * Len(objs) + 32
  IN [objs |-> objs, top |-> top, at |-> at, len |-> len, room |-> capacity]

(* One-byte offsets: the builder gives up past 255. *)
Short(objs, top, capacity) ==
  IF \E i \in 0..Len(objs) - 1 : Offset(objs)[i] > 255 THEN <<>>
  ELSE <<Finished(objs, top, 1, capacity)>>

(* Every write asks for room first, and no length passes one byte. *)
Checked(objs, top, capacity) ==
  LET f == Finished(objs, top, 2, capacity)
  IN IF f.len > capacity \/ \E i \in 1..Len(objs) : objs[i].t = "str" /\ objs[i].size > 255
     THEN <<>> ELSE <<f>>

-----------------------------------------------------------------------------
(* What the program builds. *)

BuildInitialSetup(port) ==
  Short(<<Str("eventPort"), Str("timingPort"), Num(port, 2), Num(0, 1),
          Dict(<<0, 1>>, <<2, 3>>)>>, 4, 100)

UsesBuffer(type) == type = 103

BuildStreamSetup(type, data, control, size) ==
  Short(<<Str("streams"), Str("type"), Str("dataPort"), Str("controlPort"),
          Str("audioBufferSize"), Num(type % 256, 1), Num(data, 2), Num(control, 2),
          Num(size, 4),
          IF UsesBuffer(type) THEN Dict(<<1, 2, 4, 3>>, <<5, 6, 8, 7>>)
          ELSE Dict(<<1, 2, 3>>, <<5, 6, 7>>),
          Arr(<<9>>), Dict(<<0>>, <<10>>)>>, 11, 200)

BuildFeedback(type, rate) ==
  Short(<<Str("streams"), Str("type"), Str("sr"), Num(type % 256, 1), Real(rate),
          Dict(<<1, 2>>, <<3, 4>>), Arr(<<5>>), Dict(<<0>>, <<6>>)>>, 7, 100)

InfoLeaves(name) ==
  <<Str("deviceid"), Str("00:00:00:00:00:00"), Str("features"), Num(1, 8),
    Str("model"), Str("AudioAccessory5,1"), Str("protovers"), Str("1.1"),
    Str("srcvers"), Str("377.40.00"), Str("vv"), Num(2, 1), Str("statusFlags"),
    Num(4, 1), Str("pk"), Data("pk", 32), Str("pi"),
    Str("00000000-0000-0000-0000-000000000000"), Str("name"), Str(name),
    Str("audioFormats"), Str("type"), Str("audioInputFormats"),
    Str("audioOutputFormats"), Num(96, Width(96)), Num(16777216, Width(16777216))>>
InfoTablesSlip ==
  <<Dict(<<21, 22, 23>>, <<24, 25, 25>>), Arr(<<26>>), Str("audioLatencies"),
    Str("audioType"), Str("inputLatencyMicros"), Str("outputLatencyMicros"),
    Num(103, 1), Num(100, 1), Num(0, 1),
    Dict(<<21, 29, 30, 31>>, <<24, 33, 34, 34>>),
    Dict(<<21, 29, 30, 31>>, <<24, 33, 34, 34>>), Arr(<<35, 36>>),
    Dict(<<0, 2, 4, 6, 8, 10, 12, 14, 16, 18, 20, 28>>,
         <<1, 3, 5, 7, 9, 11, 13, 15, 17, 19, 27, 37>>)>>
InfoTables ==
  <<Dict(<<21, 22, 23>>, <<24, 25, 25>>), Arr(<<26>>), Str("audioLatencies"),
    Str("audioType"), Str("inputLatencyMicros"), Str("outputLatencyMicros"),
    Num(103, 1), Num(100, 1), Num(0, 1),
    Dict(<<21, 29, 30, 31>>, <<24, 33, 34, 34>>),
    Dict(<<21, 29, 30, 31>>, <<32, 33, 34, 34>>), Arr(<<35, 36>>),
    Dict(<<0, 2, 4, 6, 8, 10, 12, 14, 16, 18, 20, 28>>,
         <<1, 3, 5, 7, 9, 11, 13, 15, 17, 19, 27, 37>>)>>

BuildInfo(name, capacity) ==
  IF capacity < 512 THEN <<>>
  ELSE Checked(InfoLeaves(name) \o InfoTables, 38, capacity)

-----------------------------------------------------------------------------
(* The XML /info: a piece that does not fit is left out. *)

Open(key) == [e |-> "open", key |-> key, v |-> 0]
Leaf(key, v) == [e |-> "leaf", key |-> key, v |-> v]
Close == [e |-> "close", key |-> "", v |-> 0]

XmlCapacity == 4096
TagBytes == 40     \* the tags, and the digits of a number

Append1(doc, piece, bytes) ==
  IF doc.size + bytes < XmlCapacity
  THEN [size |-> doc.size + bytes, pieces |-> Append(doc.pieces, piece)] ELSE doc

XmlBytes(p, nameLen) == Len(p.key) + TagBytes +
  (IF p.key = "name" THEN nameLen ELSE IF p.key = "pk" THEN 44 ELSE 36)

Latency(type) == <<Open(""), Leaf("type", type), Leaf("audioType", 100),
                   Leaf("inputLatencyMicros", 0), Leaf("outputLatencyMicros", 0), Close>>

InfoXml(name) ==
  LET said == <<Open(""), Leaf("deviceid", "00:00:00:00:00:00"), Leaf("features", 1),
        Leaf("model", "AudioAccessory5,1"), Leaf("protovers", "1.1"),
        Leaf("srcvers", "377.40.00"), Leaf("vv", 2), Leaf("statusFlags", 4),
        Leaf("pk", "pk"), Leaf("pi", "00000000-0000-0000-0000-000000000000"),
        Leaf("name", name), Open("audioFormats"), Open(""), Leaf("type", 96),
        Leaf("audioInputFormats", 16777216), Leaf("audioOutputFormats", 16777216),
        Close, Close, Open("audioLatencies")>>
        \o Latency(96) \o Latency(103) \o <<Close, Close>>
      Doc[i \in 0..Len(said)] ==
        IF i = 0 THEN [size |-> 200, pieces |-> <<>>]
        ELSE Append1(Doc[i - 1], said[i], XmlBytes(said[i], Len(name)))
  IN Doc[Len(said)].pieces

-----------------------------------------------------------------------------
(* The parser. *)

First(S) == CHOOSE i \in S : \A j \in S : i <= j
FirstFound(n, F(_)) ==
  LET hits == {i \in 1..n : F(i) # {}} IN IF hits = {} THEN {} ELSE F(First(hits))

Obj(f, i) == f.objs[i + 1]

(* The trailer: sizes, counts and the top object are in range. *)
Valid(f) == f.len >= 40 /\ f.objs # <<>> /\ f.top < Len(f.objs)

ReadString(f, i, capacity) ==
  IF Obj(f, i).t = "str" /\ Obj(f, i).size < capacity THEN {Obj(f, i).v} ELSE {}
ReadDataStrict(f, i, capacity) ==
  IF Obj(f, i).t = "data" /\ Obj(f, i).size < capacity THEN {Obj(f, i).v} ELSE {}
ReadData(f, i, capacity) ==
  IF Obj(f, i).t = "data" /\ Obj(f, i).size <= capacity THEN {Obj(f, i).v} ELSE {}
ReadDataLen(f, i) == IF Obj(f, i).t = "data" THEN {Obj(f, i).size} ELSE {}
ReadStringLen(f, i) == IF Obj(f, i).t = "str" THEN {Obj(f, i).size} ELSE {}
ReadInt(f, i) == IF Obj(f, i).t = "int" THEN {Obj(f, i).v} ELSE {}
ReadReal(f, i) == IF Obj(f, i).t = "real" THEN {Obj(f, i).v} ELSE {}

KeyCapacity == 64

(* The first pair of a dictionary with this key decides, whatever it holds. *)
Pairs(f, d, key) ==
  {k \in 1..Len(Obj(f, d).keys) : key \in ReadString(f, Obj(f, d).keys[k], KeyCapacity)}
InDict(f, d, key, Read(_)) ==
  IF Obj(f, d).t # "dict" \/ Pairs(f, d, key) = {} THEN {}
  ELSE Read(Obj(f, d).vals[First(Pairs(f, d, key))])

FindData(f, key, capacity) ==
  IF ~Valid(f) THEN {} ELSE InDict(f, f.top, key, LAMBDA i : ReadData(f, i, capacity))
FindInt(f, key) ==
  IF ~Valid(f) THEN {} ELSE InDict(f, f.top, key, LAMBDA i : ReadInt(f, i))
FindReal(f, key) ==
  IF ~Valid(f) THEN {}
  ELSE InDict(f, f.top, key, LAMBDA i : ReadReal(f, i) \cup ReadInt(f, i))
FindString(f, key, capacity) ==
  IF ~Valid(f) THEN {} ELSE InDict(f, f.top, key, LAMBDA i : ReadString(f, i, capacity))

MaxDepth == 10

(* The own pairs of a dictionary first, then what is inside it, in order. *)
FindDataDeep(f, key, capacity) ==
  LET Deep[i \in 0..Len(f.objs) - 1, depth \in 0..MaxDepth + 1] ==
        IF depth > MaxDepth \/ Obj(f, i).t \notin {"dict", "array"} THEN {}
        ELSE IF Obj(f, i).t = "dict" /\ Pairs(f, i, key) # {}
             THEN InDict(f, i, key, LAMBDA j : ReadData(f, j, capacity))
             ELSE FirstFound(Len(Obj(f, i).vals),
                             LAMBDA k : Deep[Obj(f, i).vals[k], depth + 1])
  IN IF Valid(f) THEN Deep[f.top, 0] ELSE {}

(* "streams": the first object that is this string, then the pair of the   *)
(* top dictionary whose key is that very object.                           *)
StreamsKey(f) == {i \in 0..Len(f.objs) - 1 : "streams" \in ReadString(f, i, 16)}
Streams(f) ==
  IF ~Valid(f) \/ StreamsKey(f) = {} \/ Obj(f, f.top).t # "dict" THEN {}
  ELSE LET top == Obj(f, f.top)
           at == {k \in 1..Len(top.keys) : top.keys[k] = First(StreamsKey(f))}
       IN IF at = {} \/ Obj(f, top.vals[First(at)]).t # "array" THEN {}
          ELSE {Obj(f, top.vals[First(at)]).vals}

StreamsCount(f) == {Len(refs) : refs \in Streams(f)}

(* The dictionary of stream i, 0-based. *)
StreamDict(f, i) ==
  {refs[i + 1] : refs \in {r \in Streams(f) : i < Len(r) /\ Obj(f, r[i + 1]).t = "dict"}}

LastOf(f, d, key, Read(_)) ==
  LET hits == {k \in 1..Len(Obj(f, d).keys) :
                 key \in ReadString(f, Obj(f, d).keys[k], 32) /\ Read(Obj(f, d).vals[k]) # {}}
  IN IF hits = {} THEN {} ELSE Read(Obj(f, d).vals[CHOOSE k \in hits : \A j \in hits : j <= k])
OrZero(found) == IF found = {} THEN 0 ELSE CHOOSE n \in found : TRUE

StreamInfo(f, i) ==
  {[type |-> CHOOSE n \in LastOf(f, d, "type", LAMBDA j : ReadInt(f, j)) : TRUE,
    ekey |-> OrZero(LastOf(f, d, "ekey", LAMBDA j : ReadDataLen(f, j))),
    shk |-> OrZero(LastOf(f, d, "shk", LAMBDA j : ReadDataLen(f, j)))]
   : d \in {x \in StreamDict(f, i) : LastOf(f, x, "type", LAMBDA j : ReadInt(f, j)) # {}}}

KvValue(f, i) ==
  [t |-> Obj(f, i).t, int |-> OrZero(ReadInt(f, i)),
   len |-> OrZero(ReadDataLen(f, i) \cup ReadStringLen(f, i))]
(* key, kind and value of the entries of a stream, as many as there is     *)
(* room for                                                                *)
StreamKvInfo(f, i, capacity) ==
  LET least(a, b) == IF a < b THEN a ELSE b
  IN {[k \in 1..least(Len(Obj(f, d).keys), capacity) |->
         [key |-> CHOOSE s \in ReadString(f, Obj(f, d).keys[k], KeyCapacity) : TRUE,
          value |-> KvValue(f, Obj(f, d).vals[k])]]
      : d \in {x \in StreamDict(f, i) : Obj(f, x).keys # <<>>}}

(* The first stream of the type; its key material is then looked up in the *)
(* top dictionary.                                                         *)
FindStreamCrypto(f, type) ==
  LET n == OrZero(StreamsCount(f))
      match == {i \in 0..n - 1 : \E s \in StreamInfo(f, i) : s.type = type}
      s == CHOOSE x \in StreamInfo(f, First(match)) : TRUE
  IN IF match = {} THEN [ekey |-> {}, shk |-> {}]
     ELSE [ekey |-> IF s.ekey > 0 THEN FindData(f, "ekey", 512) ELSE {},
           shk |-> IF s.shk > 0 THEN FindData(f, "shk", 512) ELSE {}]

(* handle_setup: the stream's own material, else the first anywhere. *)
SetupCrypto(f, type) ==
  LET own == FindStreamCrypto(f, type)
  IN IF own.ekey = {} /\ own.shk = {}
     THEN [ekey |-> FindDataDeep(f, "ekey", 64), shk |-> FindDataDeep(f, "shk", 32)]
     ELSE own

-----------------------------------------------------------------------------
(* A sender's request: an object for each key name, one for each value it  *)
(* uses, the streams, their array and the top dictionary, written once.    *)

NONE == "none"
KeyNames == <<"streams", "type", "ekey", "shk", "rate">>
KeyRef(k) == CHOOSE i \in 0..Len(KeyNames) - 1 : KeyNames[i + 1] = k
LeafNames == <<"96", "103", "A", "B", "x">>
Leaves == <<Num(96, 1), Num(103, 1), Data("A", 32), Data("B", 32), Str("x")>>
LeafRef(v) == Len(KeyNames) + CHOOSE i \in 0..Len(Leaves) - 1 : LeafNames[i + 1] = v
NumOf(v) == IF v = "96" THEN {96} ELSE IF v = "103" THEN {103} ELSE {}

StreamOf == [type : Types, ekey : {"A", NONE}, shk : Keys \cup {NONE}]
Has(s, names) == SelectSeq(names, LAMBDA k : s[k] # NONE)
Written(s, names) ==
  Dict([i \in 1..Len(Has(s, names)) |-> KeyRef(Has(s, names)[i])],
       [i \in 1..Len(Has(s, names)) |-> LeafRef(s[Has(s, names)[i]])])

(* the streams come first or last among the pairs of the top dictionary *)
Sent(r) ==
  LET base == Len(KeyNames) + Len(Leaves)
      n == Len(r.streams)
      dicts == [i \in 1..n |-> Written(r.streams[i], <<"type", "ekey", "shk">>)]
      own == Written(r.top, <<"shk", "rate">>)
      keys == IF r.last THEN own.keys \o <<0>> ELSE <<0>> \o own.keys
      vals == IF r.last THEN own.vals \o <<base + n>> ELSE <<base + n>> \o own.vals
      objs == [i \in 1..Len(KeyNames) |-> Str(KeyNames[i])] \o Leaves \o dicts
              \o <<Arr([i \in 1..n |-> base + i - 1]), Dict(keys, vals)>>
  IN Finished(objs, base + n + 1, 1, 1024)

Init == request = [op |-> "none"] /\ file = <<>>

Receive ==
  /\ request.op = "none"
  /\ \E n \in 0..MaxStreams : \E streams \in [1..n -> StreamOf], shk \in Keys \cup {NONE},
        rate \in {NONE, "96", "x"}, last \in BOOLEAN :
       LET r == [op |-> "sent", streams |-> streams, last |-> last,
                 top |-> [shk |-> shk, rate |-> rate]]
       IN request' = r /\ file' = <<Sent(r)>>
AnswerInitialSetup == \E port \in Ports :
  /\ request.op = "none" /\ request' = [op |-> "initial", port |-> port]
  /\ file' = BuildInitialSetup(port)
AnswerStreamSetup == \E type \in {96, 103}, data, control \in Ports :
  /\ request.op = "none"
  /\ request' = [op |-> "stream", type |-> type, data |-> data, control |-> control]
  /\ file' = BuildStreamSetup(type, data, control, 1000000)
AnswerFeedback ==
  /\ request.op = "none" /\ request' = [op |-> "feedback", type |-> 103]
  /\ file' = BuildFeedback(103, 44100)
AnswerInfo == \E name \in Names, capacity \in Capacities :
  /\ request.op = "none" /\ request' = [op |-> "info", name |-> name]
  /\ file' = BuildInfo(name, capacity)

Next == Receive \/ AnswerInitialSetup \/ AnswerStreamSetup \/ AnswerFeedback \/ AnswerInfo
Spec == Init /\ [][Next]_vars

-----------------------------------------------------------------------------
(* What a file says, in the pieces of the XML. *)
Says(f) ==
  LET Piece[i \in 0..Len(f.objs) - 1, key \in {""} \cup {f.objs[j].v : j \in {k \in 1..Len(f.objs) : f.objs[k].t = "str"}}] ==
        LET o == Obj(f, i)
            In[k \in 0..(IF o.t \in {"dict", "array"} THEN Len(o.vals) ELSE 0)] ==
              IF k = 0 THEN <<>>
              ELSE In[k - 1] \o Piece[o.vals[k], IF o.t = "dict" THEN Obj(f, o.keys[k]).v ELSE ""]
        IN IF o.t \in {"dict", "array"} THEN <<Open(key)>> \o In[Len(o.vals)] \o <<Close>>
           ELSE <<Leaf(key, o.v)>>
  IN Piece[f.top, ""]

(* A file the program builds fits its buffer, its hand-counted numbers     *)
(* lead to what it was asked to say, /info says what its XML twin says,    *)
(* and its own parser reads the answers back.  (bplist_build_*.)           *)
BuiltSaysIt ==
  file # <<>> =>
    LET f == file[1] IN
    /\ f.len <= f.room /\ Valid(f)
    /\ request.op = "initial" =>
         /\ FindInt(f, "eventPort") = {request.port} /\ FindInt(f, "timingPort") = {0}
    /\ request.op = "stream" =>
         /\ StreamsCount(f) = {1}
         /\ \A s \in StreamInfo(f, 0) : s.type = request.type
         /\ \A kv \in StreamKvInfo(f, 0, 16) :
              {<<p.key, p.value.int>> : p \in {kv[k] : k \in 1..Len(kv)}}
                = {<<"type", request.type>>, <<"dataPort", request.data>>,
                   <<"controlPort", request.control>>}
                  \cup (IF UsesBuffer(request.type) THEN {<<"audioBufferSize", 1000000>>} ELSE {})
    /\ request.op = "feedback" =>
         Says(f) = <<Open(""), Open("streams"), Open(""), Leaf("type", request.type),
                     Leaf("sr", 44100), Close, Close, Close>>
    /\ request.op = "info" => Says(f) = InfoXml(request.name)

(* What a sender put in its request is what the handlers find: each stream *)
(* with its own type and lengths, the rate, the session's key; and SETUP   *)
(* ends without key material only if the request carries none.             *)
(* (bplist_get_stream_info, bplist_find_data_deep, handle_setup.)          *)
ParsedAsSent ==
  request.op = "sent" =>
    LET f == file[1]
        sent == request.streams
        any(k) == {sent[i][k] : i \in 1..Len(sent)} \cup (IF k = "shk" THEN {request.top.shk} ELSE {})
    IN /\ StreamsCount(f) = {Len(sent)}
       /\ \A i \in 1..Len(sent) : StreamInfo(f, i - 1) =
            {[type |-> n, ekey |-> IF sent[i].ekey = NONE THEN 0 ELSE 32,
              shk |-> IF sent[i].shk = NONE THEN 0 ELSE 32] : n \in NumOf(sent[i].type)}
       /\ FindReal(f, "rate") = NumOf(request.top.rate)
       /\ FindData(f, "shk", 64) = {request.top.shk} \ {NONE}
       /\ FindString(f, "rate", 128) = {request.top.rate} \cap {"x"}
       /\ \A k \in {"ekey", "shk"}, type \in {96, 103} :
            /\ SetupCrypto(f, type)[k] \subseteq any(k)
            /\ SetupCrypto(f, type) = [ekey |-> {}, shk |-> {}] => any(k) \subseteq {NONE}

(* "true if any crypto field was found for the stream" (plist.h): the      *)
(* material of a stream of the type is found, and it is that stream's.     *)
StreamKeysFound ==
  request.op = "sent" =>
    \A i \in 1..Len(request.streams) : LET s == request.streams[i] IN
      (\A j \in 1..i - 1 : request.streams[j].type # s.type) =>
        \A n \in NumOf(s.type) :
          FindStreamCrypto(file[1], n) = [ekey |-> {s.ekey} \ {NONE}, shk |-> {s.shk} \ {NONE}]

=============================================================================
