------------------------------ MODULE Headers ------------------------------
(***************************************************************************)
(* The string map of library/io_map.c over the bump allocator of           *)
(* library/io_heap.c, filled by io_http_header_parse of library/io_http.c  *)
(* from the text of one request after the other, as the servers of         *)
(* examples/ do.                                                           *)
(*                                                                         *)
(* The allocator answers NULL when it has no room, and the map stores that *)
(* answer like any other.  A string is told by its spelling and its        *)
(* length; keys that differ in case only have the same name.               *)
(***************************************************************************)
EXTENDS Integers, Sequences, SequencesExt, FiniteSetsExt, TLC

CONSTANTS
    Key,         \* the spellings of header names
    Value,
    NULL,
    Name,        \* header names, case folded
    name,        \* the name of each spelling
    length,      \* strlen of each key and value
    KeysLimit,   \* keys_limit of io_hmap_create
    HeapSize,    \* heap_size of io_hmap_create
    TextSize,    \* bytes of a request that fit the buffer of its connection
    Spaces       \* bound: blanks in one header line

ASSUME StringsAssumption ==
    /\ NULL \notin Key \cup Value
    /\ name \in [Key -> Name]
    /\ length \in [Key \cup Value -> Nat \ {0}]

\* The servers allot 8192 bytes to the strings of a header of at most 7999.
ASSUME SizesAssumption ==
    /\ KeysLimit \in Nat
    /\ TextSize \in Nat
    /\ HeapSize \in Nat
    /\ TextSize <= HeapSize
    /\ Spaces \in Nat

VARIABLES
    kvs,         \* the pairs from m->kvs up to m->last
    room,        \* h->end - h->data
    text,        \* bytes of the request from *header on
    pc           \* "idle", "lines" inside the parser, "undefined" after NULL was read

headerVars == <<kvs, room, text, pc>>

Pair == [key : Key \cup {NULL}, value : Value \cup {NULL}]

HeadersTypeOK ==
    /\ kvs \in Seq(Pair)
    /\ Len(kvs) <= KeysLimit
    /\ room \in 0..HeapSize
    /\ text \in 0..TextSize
    /\ pc \in {"idle", "lines", "undefined"}

HeadersInit ==
    /\ kvs = <<>>
    /\ room = HeapSize
    /\ text = 0
    /\ pc = "idle"

-----------------------------------------------------------------------------
(* io_heap.c *)

\* The copy of s with r bytes of room, and the room behind it.
io_oheap_strdup(s, r) ==
    IF r < length[s] + 1 THEN [data |-> NULL, room |-> r]
    ELSE [data |-> s, room |-> r - (length[s] + 1)]

-----------------------------------------------------------------------------
(* io_map.c *)

Matches(k, i) == kvs[i].key # NULL /\ name[kvs[i].key] = name[k]

\* The search for a key reads the key of every pair up to the first that matches.
ReadsNull(k) ==
    \E i \in DOMAIN kvs :
        /\ kvs[i].key = NULL
        /\ \A j \in 1..(i - 1) : ~Matches(k, j)

\* The value of the first pair whose key has the name of k, or NULL.
io_hmap_getcs(k) ==
    LET found == {i \in DOMAIN kvs : Matches(k, i)}
    IN IF found = {} THEN NULL ELSE kvs[Min(found)].value

\* Mutant: a full map takes the pair in the place of the last one.
io_map_new_kv_Overwrites(k, v) ==
    IF Len(kvs) >= KeysLimit
    THEN kvs' = [kvs EXCEPT ![Len(kvs)] = [key |-> k, value |-> v]]
    ELSE kvs' = Append(kvs, [key |-> k, value |-> v])

io_map_new_kv(k, v) ==
    IF Len(kvs) >= KeysLimit THEN UNCHANGED kvs
    ELSE kvs' = Append(kvs, [key |-> k, value |-> v])

\* Both strings are copied, in the order the compiler takes, before the map is
\* asked for a place.
CopyAndAdd(k, v) ==
    \/ LET ck == io_oheap_strdup(k, room)
           cv == io_oheap_strdup(v, ck.room)
       IN room' = cv.room /\ io_map_new_kv(ck.data, cv.data)
    \/ LET cv == io_oheap_strdup(v, room)
           ck == io_oheap_strdup(k, cv.room)
       IN room' = ck.room /\ io_map_new_kv(ck.data, cv.data)

\* Mutant: a map that is used again keeps the heap it has.
io_hmap_create_KeepsHeap == kvs' = <<>> /\ UNCHANGED room

\* The map of a connection is made anew in the same memory for each request.
io_hmap_create == kvs' = <<>> /\ room' = HeapSize

-----------------------------------------------------------------------------
(* io_http_header_parse *)

\* A request line has been parsed, and size bytes of the request follow it.
Request(size) ==
    /\ pc = "idle"
    /\ io_hmap_create
    /\ text' = size
    /\ pc' = "lines"

\* name ":" blanks value blanks CR LF, at the head of the text, is consumed and
\* added.  A name that is there already, or a full map, ends the parser.
HeaderLine(k, v, blanks) ==
    /\ pc = "lines"
    /\ text >= length[k] + length[v] + blanks + 3
    /\ text' = text - (length[k] + length[v] + blanks + 3)
    /\ IF ReadsNull(k) THEN pc' = "undefined" /\ UNCHANGED <<kvs, room>>
       ELSE IF io_hmap_getcs(k) # NULL THEN pc' = "idle" /\ UNCHANGED <<kvs, room>>
       ELSE /\ CopyAndAdd(k, v)
            /\ pc' = IF Len(kvs) >= KeysLimit THEN "idle" ELSE "lines"

\* The empty line behind the header, or a line that is no header.
HeaderEnds ==
    /\ pc = "lines"
    /\ pc' = "idle"
    /\ UNCHANGED <<kvs, room, text>>

\* The server looks a header up before it answers.
io_hmap_getc(k) ==
    /\ pc = "idle"
    /\ pc' = IF ReadsNull(k) THEN "undefined" ELSE "idle"
    /\ UNCHANGED <<kvs, room, text>>

HeadersNext ==
    \/ \E size \in 0..TextSize : Request(size)
    \/ \E k \in Key, v \in Value, blanks \in 0..Spaces : HeaderLine(k, v, blanks)
    \/ HeaderEnds
    \/ \E k \in Key : io_hmap_getc(k)

HeadersSpec == HeadersInit /\ [][HeadersNext]_headerVars

-----------------------------------------------------------------------------
(* Properties *)

\* The map never holds the NULL of an allocator without room, which every later
\* search would read, although neither the map nor the parser looks: the strings
\* of a header take less room than its text.
NoNullString ==
    /\ \A i \in DOMAIN kvs : kvs[i].key # NULL /\ kvs[i].value # NULL
    /\ pc # "undefined"

\* No name is there twice, however it is spelled: a request that repeats a header
\* is refused.
UniqueNames ==
    \A i, j \in DOMAIN kvs :
        (kvs[i].key # NULL /\ kvs[j].key # NULL /\ name[kvs[i].key] = name[kvs[j].key]) => i = j

\* What the names are bound to.
Bindings == [n \in {name[kvs[i].key] : i \in DOMAIN kvs} |->
                kvs[CHOOSE i \in DOMAIN kvs : name[kvs[i].key] = n].value]

AbstractMap == INSTANCE StringMap WITH binding <- Bindings

\* The map is a map: what a name is bound to stays until the next request.
IsStringMap == AbstractMap!Spec

=============================================================================
