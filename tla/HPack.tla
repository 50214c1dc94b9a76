-------------------------------- MODULE HPack --------------------------------
(***************************************************************************)
(* Header compression between two ends of Nutil: HPacker and HPackTable of *)
(* the encoder at one end, of the decoder at the other, and the header     *)
(* blocks on their way.  The encoder finds entries of its dynamic table by *)
(* a map from the concatenation of name and value to a sequence number.    *)
(*                                                                         *)
(* A string is a sequence of letters.  How integers and strings are coded  *)
(* in octets is left out: a field of a block holds the text it stands for. *)
(***************************************************************************)
EXTENDS Integers, Sequences, FiniteSets

CONSTANTS Letters,
          Headers,      \* the headers sent, records of a name and a value
          Indexing,     \* names for which getIndexingType says .all
          Static,       \* hpackStaticTable
          Extra,        \* TABLE_ENTRY_SIZE_EXTRA
          TableSize,    \* HPackTable.limitSize and maxSize, 4096
          MaxAdded,     \* bound on the entries added by the encoder
          MaxFields     \* bound on the fields under way

Text == Seq(Letters)
Header == [name : Text, value : Text]

ASSUME HPackTypes ==
  /\ Headers \subseteq Header /\ Static \in Seq(Header) /\ Indexing \subseteq Text
  /\ Extra \in Nat /\ TableSize \in Nat /\ MaxAdded \in Nat /\ MaxFields \in Nat

VARIABLES
  enc,               \* the encoder's table: entries (newest first), size, limit
  indexSequence, indexMap,
  updateTableSize,   \* a size update is still to be sent
  wire,              \* fields encoded and not decoded
  pending,           \* how many of them, the last, belong to the unfinished block
  dec,               \* the decoder's table
  skipping,          \* a block is being dropped undecoded
  inBlock,           \* a block is being decoded
  failed,            \* decode returned -1: the connection is closed
  lost               \* history: a block was not sent, or not decoded

vars == <<enc, indexSequence, indexMap, updateTableSize, wire, pending,
          dec, skipping, inBlock, failed, lost>>

Key(h) == h.name \o h.value
Size(h) == Len(h.name) + Len(h.value) + Extra
Keys == {Key(h) : h \in Headers} \cup {h.name : h \in Headers}
Empty == [entries |-> <<>>, size |-> 0, limit |-> TableSize]
DynamicStart == Len(Static) + 1                  \* HPACK_DYNAMIC_START_INDEX

-----------------------------------------------------------------------------
(* HPackTable. *)

\* The size of the entries after the nth.
SizeAfter(entries, n) ==
  LET size[i \in 0..Len(entries)] ==
        IF i = Len(entries) THEN 0 ELSE Size(entries[i + 1]) + size[i + 1]
  IN size[n]

\* evictTableBySize: entries go from the end until at least sz is freed; this many stay.
Kept(entries, sz) == Cardinality({n \in DOMAIN entries : SizeAfter(entries, n) >= sz})
Evict(t, sz) ==
  LET n == Kept(t.entries, sz)
      evicted == SizeAfter(t.entries, n) IN
  [t EXCEPT !.entries = SubSeq(@, 1, n), !.size = IF @ > evicted THEN @ - evicted ELSE 0]

\* addHeader: what is evicted first, and the table after.
Excess_OffByOne(t, h) == Size(h) + t.size - t.limit - 1               \* mutant
Excess(t, h) == Size(h) + t.size - t.limit
MadeRoom(t, h) == IF Excess(t, h) > 0 THEN Evict(t, Excess(t, h)) ELSE t
Fits(t, h) == Size(h) <= t.limit
AddHeader(t, h) ==
  IF ~Fits(t, h) THEN MadeRoom(t, h)
  ELSE [MadeRoom(t, h) EXCEPT !.entries = <<h>> \o @, !.size = @ + Size(h)]

UpdateLimitSize(t, sz) ==
  [(IF t.size > sz THEN Evict(t, t.size - sz) ELSE t) EXCEPT !.limit = sz]

\* getIndexedName and getIndexedValue.
HasIndex(t, i) == i > 0 /\ i < DynamicStart + Len(t.entries)
At(t, i) == IF i < DynamicStart THEN Static[i] ELSE t.entries[i - DynamicStart + 1]

\* getIndex of a key: the place in the dynamic table, from 0, or -1.
DynamicIndex(k) == IF indexMap[k].idxD = -1 THEN -1 ELSE indexSequence - indexMap[k].idxD

\* getIndex of a header: by the whole of it, or else by its name.  Different headers
\* have the same key, so the name found is compared.
SameName_Assumed(h, found) == TRUE                                    \* mutant
SameName(h, found) == h.name = found.name
GetIndex(h) ==
  LET k == IF DynamicIndex(Key(h)) = -1 /\ indexMap[Key(h)].idxS = -1 THEN h.name ELSE Key(h)
      d == DynamicIndex(k)
      s == indexMap[k].idxS
  IN IF d # -1 /\ d < Len(enc.entries) /\ SameName(h, enc.entries[d + 1])
       THEN [index |-> d + DynamicStart, valueIndexed |-> enc.entries[d + 1].value = h.value]
     ELSE IF s # -1 /\ SameName(h, Static[s + 1])
       THEN [index |-> s + 1, valueIndexed |-> Static[s + 1].value = h.value]
     ELSE [index |-> 0, valueIndexed |-> FALSE]

\* removeIndex of every entry but the first n, and updateIndex.
RemoveIndex_Always(k, n) == \E i \in DOMAIN enc.entries :              \* mutant
  i > n /\ Key(enc.entries[i]) = k
RemoveIndex(k, n) == \E i \in DOMAIN enc.entries :
  i > n /\ Key(enc.entries[i]) = k /\ DynamicIndex(k) = i - 1
UpdatedIndex(seq) == seq
IndexAfter(h) ==
  [k \in Keys |->
     IF Fits(enc, h) /\ k = Key(h)
       THEN [indexMap[k] EXCEPT !.idxD = UpdatedIndex(indexSequence + 1)]
     ELSE IF RemoveIndex(k, Len(MadeRoom(enc, h).entries)) THEN [indexMap[k] EXCEPT !.idxD = -1]
     ELSE indexMap[k]]

-----------------------------------------------------------------------------
(* The encoder. *)

\* A field: its kind (PrefixType), the integer I, and the header it stands for, of
\* which the octets hold what the index does not give; last with END_HEADERS.  The
\* encoder's table before it is history.
Field(kind, I, h) ==
  [kind |-> kind, I |-> I, hdr |-> h, last |-> FALSE, table |-> enc]
NoHeader == [name |-> <<>>, value |-> <<>>]

EncodeSizeUpdate ==
  /\ updateTableSize /\ Len(wire) < MaxFields
  /\ updateTableSize' = FALSE
  /\ wire' = Append(wire, Field("sizeUpdate", enc.limit, NoHeader)) /\ pending' = pending + 1
  /\ UNCHANGED <<enc, indexSequence, indexMap, dec, skipping, inBlock, failed, lost>>

\* encodeHeader.
AddToTable_NameIndexed(h, index) == index > 0 \/ h.name \in Indexing  \* mutant
AddToTable(h, index) == h.name \in Indexing
EncodeIndexed(h) ==
  /\ GetIndex(h).valueIndexed
  /\ wire' = Append(wire, Field("indexed", GetIndex(h).index, h))
  /\ UNCHANGED <<enc, indexSequence, indexMap>>
EncodeLiteral(h) ==
  /\ ~GetIndex(h).valueIndexed
  /\ LET kind == IF h.name \in Indexing THEN "indexing" ELSE "plain" IN
     wire' = Append(wire, Field(kind, GetIndex(h).index, h))
  /\ IF AddToTable(h, GetIndex(h).index)
       THEN /\ indexSequence < MaxAdded
            /\ enc' = AddHeader(enc, h)
            /\ indexSequence' = IF Fits(enc, h) THEN indexSequence + 1 ELSE indexSequence
            /\ indexMap' = IndexAfter(h)
       ELSE UNCHANGED <<enc, indexSequence, indexMap>>
EncodeHeader(h) ==
  /\ ~updateTableSize /\ Len(wire) < MaxFields
  /\ EncodeIndexed(h) \/ EncodeLiteral(h)
  /\ pending' = pending + 1
  /\ UNCHANGED <<updateTableSize, dec, skipping, inBlock, failed, lost>>

\* sendHeadersFrame: the block is sent, or did not fit its buffer and is forgotten.
SendBlock ==
  /\ pending > 0
  /\ wire' = [wire EXCEPT ![Len(wire)].last = TRUE] /\ pending' = 0
  /\ UNCHANGED <<enc, indexSequence, indexMap, updateTableSize,
                 dec, skipping, inBlock, failed, lost>>
EncodeFails ==
  /\ pending > 0
  /\ wire' = SubSeq(wire, 1, Len(wire) - pending) /\ pending' = 0 /\ lost' = TRUE
  /\ UNCHANGED <<enc, indexSequence, indexMap, updateTableSize, dec, skipping, inBlock, failed>>

-----------------------------------------------------------------------------
(* The decoder. *)

Arrived == Len(wire) > pending

\* What decode makes of a field, if it can.
Resolves(t, f) == f.kind = "sizeUpdate" \/ HasIndex(t, f.I) \/ (f.kind # "indexed" /\ f.I = 0)
Decoded(t, f) ==
  IF f.kind = "indexed" THEN At(t, f.I)
  ELSE [name |-> IF f.I = 0 THEN f.hdr.name ELSE At(t, f.I).name, value |-> f.hdr.value]
TableAfter(t, f) ==
  IF f.kind = "sizeUpdate" THEN UpdateLimitSize(t, f.I)
  ELSE IF f.kind = "indexing" THEN AddHeader(t, Decoded(t, f)) ELSE t

DecodeField ==
  LET f == Head(wire) IN
  /\ Arrived /\ ~failed /\ ~skipping
  /\ IF ~Resolves(dec, f) \/ (f.kind = "sizeUpdate" /\ f.I > TableSize)
       THEN failed' = TRUE /\ UNCHANGED <<dec, wire, inBlock>>
       ELSE /\ dec' = TableAfter(dec, f)
            /\ wire' = Tail(wire) /\ inBlock' = ~f.last /\ failed' = FALSE
  /\ UNCHANGED <<enc, indexSequence, indexMap, updateTableSize, pending, skipping, lost>>

\* handleHeadersFrame returns before it decodes: refused stream, no stream.
DropField ==
  /\ Arrived /\ ~failed /\ ~inBlock
  /\ skipping' = ~Head(wire).last /\ wire' = Tail(wire) /\ lost' = TRUE
  /\ UNCHANGED <<enc, indexSequence, indexMap, updateTableSize, pending, dec, inBlock, failed>>

-----------------------------------------------------------------------------
\* HPackTable.init: the first static entry of a key is its index.
StaticIndex(k) ==
  IF \E i \in DOMAIN Static : Key(Static[i]) = k
    THEN (CHOOSE i \in DOMAIN Static : Key(Static[i]) = k
            /\ \A j \in DOMAIN Static : Key(Static[j]) = k => i <= j) - 1
    ELSE -1

Init ==
  /\ enc = Empty /\ dec = Empty
  /\ indexSequence = 0 /\ indexMap = [k \in Keys |-> [idxD |-> -1, idxS |-> StaticIndex(k)]]
  /\ updateTableSize = TRUE /\ wire = <<>> /\ pending = 0
  /\ skipping = FALSE /\ inBlock = FALSE /\ failed = FALSE /\ lost = FALSE

Next == \/ EncodeSizeUpdate \/ (\E h \in Headers : EncodeHeader(h)) \/ SendBlock \/ EncodeFails
        \/ DecodeField \/ DropField

Spec == Init /\ [][Next]_vars
-----------------------------------------------------------------------------
(* Properties. *)

Table == [entries : Seq(Header), size : Nat, limit : Nat]
FieldType == [kind : {"sizeUpdate", "indexed", "indexing", "plain"}, I : Nat,
              hdr : Header, last : BOOLEAN, table : Table]

\* Every variable has its type; no index is ahead of the sequence (updateIndex).
TypeOK ==
  /\ enc \in Table /\ dec \in Table /\ indexSequence \in Nat
  /\ indexMap \in [Keys -> [idxD : -1..indexSequence, idxS : -1..(Len(Static) - 1)]]
  /\ wire \in Seq(FieldType) /\ pending \in 0..Len(wire)
  /\ updateTableSize \in BOOLEAN /\ skipping \in BOOLEAN /\ inBlock \in BOOLEAN
  /\ failed \in BOOLEAN /\ lost \in BOOLEAN

\* The map of the encoder says of every key where its newest entry is, or that there is
\* none, through all insertions and evictions and for keys of several headers
\* (updateIndex, removeIndex, getDynamicIndex).
IndexExact == \A k \in Keys :
  LET d == DynamicIndex(k) IN
  IF d = -1 THEN \A i \in DOMAIN enc.entries : Key(enc.entries[i]) # k
  ELSE /\ d \in 0..(Len(enc.entries) - 1) /\ Key(enc.entries[d + 1]) = k
       /\ \A i \in 1..d : Key(enc.entries[i]) # k

\* The size kept of a table is that of its entries, and within the limit (addHeader,
\* evictTableBySize).
SizeExact == \A t \in {enc, dec} : t.size = SizeAfter(t.entries, 0) /\ t.size <= t.limit

\* The next field that arrives is decoded to the header it was encoded from, unless a
\* block was lost before it (encodeHeader, decode).
DecodesRight ==
  ~lost /\ Arrived /\ Head(wire).kind # "sizeUpdate" =>
    Resolves(dec, Head(wire)) /\ Decoded(dec, Head(wire)) = Head(wire).hdr

\* When nothing is under way both ends have the same table, unless a block was lost.
TablesAgree == ~lost /\ wire = <<>> => enc = dec
=============================================================================
