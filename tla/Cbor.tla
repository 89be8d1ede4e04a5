-------------------------------- MODULE Cbor --------------------------------
(***************************************************************************)
(* crates/jlr-cbor/src/lib.rs: the deterministic encoding of everything    *)
(* JLR signs, its strict decoder, and the reading of a record's fields.    *)
(*                                                                         *)
(* A byte is a number below 256.  An unsigned integer of up to 64 bits is  *)
(* the sequence of its significant bytes, <<>> for zero, so that no width  *)
(* is lost.  A value is a record with the same fields for every type: its  *)
(* type, its integer (also a tag's number), its bytes, and its items (the  *)
(* keys and values of a map in turn).                                      *)
(***************************************************************************)
EXTENDS Integers, Sequences, SequencesExt

CONSTANTS
  Bytes,       \* the bytes inputs are made of
  MaxInput,    \* longest input made of single bytes
  MaxPrefix,   \* bytes that may come before a head of four or eight bytes
  MAX_DEPTH,   \* nesting accepted by decode
  MaxNodes     \* values inside a value that is built

VARIABLES
  input,  \* bytes given to the decoder
  value   \* a value put together by a caller

vars == <<input, value>>

Value(t, n, raw, items) == [type |-> t, n |-> n, raw |-> raw, items |-> items]
Uint(n) == Value("uint", n, <<>>, <<>>)
Simple(t) == Value(t, <<>>, <<>>, <<>>)

Ok(v, rest) == [err |-> "none", value |-> v, rest |-> rest]
Err(e) == [err |-> e, value |-> Simple("null"), rest |-> <<>>]

-----------------------------------------------------------------------------
(* Encoding *)

Significant(bytes) ==
  LET nonzero == {i \in DOMAIN bytes : bytes[i] # 0}
  IN IF nonzero = {} THEN <<>>
     ELSE SubSeq(bytes, CHOOSE i \in nonzero : \A j \in nonzero : i <= j, Len(bytes))

Number(n) == IF n = <<>> THEN 0 ELSE n[1]     \* of an integer of at most one byte
Below24(n) == Len(n) <= 1 /\ Number(n) < 24
Padded(n, width) == [i \in 1 .. width - Len(n) |-> 0] \o n

\* Additional information 24 .. 27 announces an argument of 1, 2, 4 or 8 bytes.
Width(ai) == 2^(ai - 24)

write_head(major, n) ==
  IF Below24(n) THEN <<major * 32 + Number(n)>>
  ELSE LET ai == CHOOSE a \in 24 .. 27 : Len(n) <= Width(a) /\ (a = 24 \/ Len(n) > Width(a - 1))
       IN <<major * 32 + ai>> \o Padded(n, Width(ai))

\* The length of a sequence as an integer: fewer than 256 bytes or items.
Length(s) == Significant(<<Len(s)>>)

RECURSIVE encode(_)
encode(v) ==
  LET contents == FlattenSeq([i \in DOMAIN v.items |-> encode(v.items[i])])
  IN CASE v.type = "uint" -> write_head(0, v.n)
       [] v.type = "nint" -> write_head(1, v.n)
       [] v.type = "bytes" -> write_head(2, Length(v.raw)) \o v.raw
       [] v.type = "text" -> write_head(3, Length(v.raw)) \o v.raw
       [] v.type = "array" -> write_head(4, Length(v.items)) \o contents
       [] v.type = "map" -> write_head(5, Significant(<<Len(v.items) \div 2>>)) \o contents
       [] v.type = "tag" -> write_head(6, v.n) \o contents
       [] v.type = "false" -> <<244>>
       [] v.type = "true" -> <<245>>
       [] v.type = "null" -> <<246>>

\* The order of byte strings.
Less(a, b) ==
  \/ IsStrictPrefix(a, b)
  \/ \E i \in DOMAIN a \cap DOMAIN b : a[i] < b[i] /\ SubSeq(a, 1, i - 1) = SubSeq(b, 1, i - 1)

Keys(m) == {i \in DOMAIN m.items : i % 2 = 1}

\* A bug: an entry goes where it was inserted.
AppendEntry(m, k, v) == [m EXCEPT !.items = @ \o <<k, v>>]

\* The entry goes behind those with a smaller encoded key; Map::insert has refused a
\* key that is already there.
entry_inserted(m, k, v) ==
  LET before == 2 * Len(SelectSeq([i \in 1 .. Len(m.items) \div 2 |-> m.items[2 * i - 1]],
                                  LAMBDA key : Less(encode(key), encode(k))))
  IN [m EXCEPT !.items = SubSeq(@, 1, before) \o <<k, v>> \o SubSeq(@, before + 1, Len(@))]

insert(m, k, v) ==
  IF \E i \in Keys(m) : encode(m.items[i]) = encode(k) THEN Err("DuplicateKey")
  ELSE Ok(entry_inserted(m, k, v), <<>>)

-----------------------------------------------------------------------------
(* Strict decoding of the bytes s that are left *)

\* A bug: 23 may have a byte of its own.
LooseShortest(ai, n) == IF ai = 24 THEN Number(n) >= 23 ELSE Len(n) > Width(ai - 1)

shortest(ai, n) == IF ai = 24 THEN ~ Below24(n) ELSE Len(n) > Width(ai - 1)

head(s) ==
  LET major == s[1] \div 32
      ai == s[1] % 32
      n == Significant(SubSeq(s, 2, 1 + Width(ai)))
      Head_(arg, used) == [err |-> "none", major |-> major, ai |-> ai, n |-> arg,
                           rest |-> SubSeq(s, 1 + used, Len(s))]
      Bad(e) == [Head_(<<>>, 1) EXCEPT !.err = e]
  IN CASE ai < 24 -> Head_(Significant(<<ai>>), 1)
       [] ai \in 24 .. 27 -> IF Len(s) < 1 + Width(ai) THEN Bad("Truncated")
                             ELSE IF ~ shortest(ai, n) /\ major # 7 THEN Bad("NonShortestArgument")
                             ELSE Head_(n, 1 + Width(ai))
       [] ai \in 28 .. 30 -> Bad("ReservedAdditionalInfo")
       [] ai = 31 -> Bad("IndefiniteLength")

\* str::from_utf8, for text of one- and two-byte characters.
RECURSIVE utf8(_)
utf8(raw) ==
  CASE raw = <<>> -> TRUE
    [] raw # <<>> /\ raw[1] < 128 -> utf8(Tail(raw))
    [] OTHER -> /\ Len(raw) >= 2 /\ raw[1] \in 194 .. 223 /\ raw[2] \in 128 .. 191
                /\ utf8(SubSeq(raw, 3, Len(raw)))

\* What was read ends where rest begins.
Read(s, rest) == SubSeq(s, 1, Len(s) - Len(rest))

RECURSIVE decode_value(_, _), array_items(_, _, _, _), map_items(_, _, _, _, _)

array_items(s, count, depth, items) ==
  IF count = 0 THEN Ok(Value("array", <<>>, <<>>, items), s)
  ELSE LET d == decode_value(s, depth)
       IN IF d.err # "none" THEN d
          ELSE array_items(d.rest, count - 1, depth, Append(items, d.value))

map_items(s, count, depth, previous, items) ==
  IF count = 0 THEN Ok(Value("map", <<>>, <<>>, items), s)
  ELSE LET k == decode_value(s, depth)
           key_bytes == Read(s, k.rest)
           v == decode_value(k.rest, depth)
       IN CASE k.err # "none" -> k
            [] k.err = "none" /\ items # <<>> /\ previous = key_bytes -> Err("DuplicateKey")
            [] k.err = "none" /\ items # <<>> /\ Less(key_bytes, previous) -> Err("UnsortedMapKeys")
            [] OTHER -> IF v.err # "none" THEN v
                        ELSE map_items(v.rest, count - 1, depth, key_bytes, items \o <<k.value, v.value>>)

decode_value(s, depth) ==
  IF depth > MAX_DEPTH THEN Err("TooDeep")
  ELSE IF s = <<>> THEN Err("Truncated")
  ELSE LET h == head(s)
           len == Number(h.n)
           raw == SubSeq(h.rest, 1, len)
           after == SubSeq(h.rest, len + 1, Len(h.rest))
           tagged == decode_value(h.rest, depth + 1)
       IN CASE h.err # "none" -> Err(h.err)
            [] h.err = "none" /\ h.major = 0 -> Ok(Uint(h.n), h.rest)
            [] h.err = "none" /\ h.major = 1 -> Ok(Value("nint", h.n, <<>>, <<>>), h.rest)
            [] h.err = "none" /\ h.major \in 2 .. 5 ->
                 (IF Len(h.n) > 1 \/ len > Len(h.rest) THEN Err("LengthExceedsInput")
                  ELSE CASE h.major = 2 -> Ok(Value("bytes", <<>>, raw, <<>>), after)
                         [] h.major = 3 -> IF utf8(raw) THEN Ok(Value("text", <<>>, raw, <<>>), after)
                                           ELSE Err("InvalidUtf8")
                         [] h.major = 4 -> array_items(h.rest, len, depth + 1, <<>>)
                         [] h.major = 5 -> map_items(h.rest, len, depth + 1, <<>>, <<>>))
            [] h.err = "none" /\ h.major = 6 ->
                 IF tagged.err # "none" THEN tagged
                 ELSE Ok(Value("tag", h.n, <<>>, <<tagged.value>>), tagged.rest)
            [] OTHER -> CASE h.ai = 20 -> Ok(Simple("false"), h.rest)
                          [] h.ai = 21 -> Ok(Simple("true"), h.rest)
                          [] h.ai = 22 -> Ok(Simple("null"), h.rest)
                          [] OTHER -> Err("UnsupportedSimpleOrFloat")

\* A bug: what follows the item is left alone.
IgnoreTrailing(bytes) == decode_value(bytes, 0)

decode(bytes) ==
  LET d == decode_value(bytes, 0)
  IN IF d.err = "none" /\ d.rest # <<>> THEN Err("TrailingBytes") ELSE d

-----------------------------------------------------------------------------
(* A record: struct { 0 => size: u16, 1 => note: Option<Vec<u8>> } *)

Absent == Simple("null")
get_uint(m, k) ==
  LET at == {i \in Keys(m) : m.items[i] = Uint(Significant(<<k>>))}
  IN IF at = {} THEN Absent ELSE m.items[(CHOOSE i \in at : TRUE) + 1]
has_uint(m, k) == \E i \in Keys(m) : m.items[i] = Uint(Significant(<<k>>))

NoRecord(e) == [err |-> e, size |-> <<>>, note |-> Absent]

\* Fields::req and as_u16, Fields::opt and as_bytes, Fields::finish.
from_value(v) ==
  LET size == get_uint(v, 0)
      note == get_uint(v, 1)
  IN CASE v.type # "map" -> NoRecord("Type")
       [] v.type = "map" /\ ~ has_uint(v, 0) -> NoRecord("MissingField")
       [] v.type = "map" /\ has_uint(v, 0) ->
            CASE size.type # "uint" -> NoRecord("Type")
              [] size.type = "uint" /\ Len(size.n) > 2 -> NoRecord("OutOfRange")
              [] OTHER ->
                   IF note # Absent /\ note.type # "bytes" THEN NoRecord("Type")
                   ELSE IF \E i \in Keys(v) : v.items[i] \notin {Uint(<<>>), Uint(<<1>>)}
                   THEN NoRecord("UnknownField")
                   ELSE [err |-> "none", size |-> size.n, note |-> note]

to_value(r) ==
  Value("map", <<>>, <<>>, <<Uint(<<>>), Uint(r.size)>> \o
                           (IF r.note = Absent THEN <<>> ELSE <<Uint(<<1>>), r.note>>))

\* from_value of what was decoded.
parsed(d) == IF d.err # "none" THEN NoRecord(d.err) ELSE from_value(d.value)

\* A bug: what was parsed is not encoded again.
ParseOnly(r, bytes) == r

\* The record must encode to the bytes it was read from.
exact(r, bytes) == IF r.err = "none" /\ encode(to_value(r)) # bytes THEN NoRecord("Invalid") ELSE r

from_cbor(bytes) == exact(parsed(decode(bytes)), bytes)

-----------------------------------------------------------------------------
(* Any input, and any value a caller can put together *)

Init == input = <<>> /\ value = Uint(<<>>)

\* Integers at both sides of every width of a head.
Integers_ == {<<>>, <<23>>, <<24>>, <<255>>, <<1, 0>>, <<255, 255>>, <<1, 0, 0>>, <<255, 255, 255, 255>>,
              <<1, 0, 0, 0, 0>>, [i \in 1 .. 8 |-> 255]}

\* Another byte, or a whole head with an argument of four or eight bytes, which may
\* need fewer.
Feed ==
  /\ \/ \E b \in Bytes : Len(input) < MaxInput /\ input' = Append(input, b)
     \/ \E major \in 0 .. 7, ai \in 26 .. 27, n \in Integers_ :
          /\ Len(input) <= MaxPrefix /\ Len(n) <= Width(ai)
          /\ input' = input \o <<major * 32 + ai>> \o Padded(n, Width(ai))
  /\ UNCHANGED value
Atoms ==
  {Value(t, n, <<>>, <<>>) : t \in {"uint", "nint"}, n \in Integers_} \cup
  {Value(t, <<>>, raw, <<>>) : t \in {"bytes", "text"}, raw \in {<<>>, <<97>>, [i \in 1 .. 24 |-> 98]}} \cup
  {Simple(t) : t \in {"false", "true", "null"}}

RECURSIVE Nodes(_)
Nodes(v) == 1 + FoldSeq(LAMBDA w, sum : Nodes(w) + sum, 0, v.items)

Build ==
  /\ Nodes(value) < MaxNodes
  /\ \/ value \in Atoms /\ value' \in Atoms \cup {Simple("map")}
     \/ \E n \in Integers_ : value' = Value("tag", n, <<>>, <<value>>)
     \/ \E atoms \in {<<>>, <<Uint(<<24>>)>>} : value' = Value("array", <<>>, <<>>, Append(atoms, value))
     \/ /\ value.type = "map"
        /\ \E k \in Atoms, v \in {Simple("null"), Uint(<<1, 0>>)} :
             insert(value, k, v).err = "none" /\ value' = insert(value, k, v).value
     \/ \E k \in {Uint(<<>>), Value("text", <<>>, <<97>>, <<>>)} :
          value' = insert(Simple("map"), value, k).value
  /\ UNCHANGED input

-----------------------------------------------------------------------------
(* Properties *)

OneForm(r) == r.err = "none" => encode(to_value(r)) = input /\ from_cbor(encode(to_value(r))) = r

\* lib.rs:17: every value has one encoding.  What the decoder accepts is what the
\* encoder writes for the value it returns, for every input; and a record has one
\* accepted form although a field may be left out: an input accepted as a record is
\* what the record is written as, and is accepted as that record again.
AcceptedIsCanonical ==
  /\ LET d == decode(input) IN d.err = "none" => encode(d.value) = input
  /\ OneForm(from_cbor(input))

RECURSIVE Depth(_)
Depth(v) == FoldSeq(LAMBDA w, deepest : IF 1 + Depth(w) > deepest THEN 1 + Depth(w) ELSE deepest, 0, v.items)

\* Whatever is put together, keys in any order and integers of any width, decodes to
\* itself; only nesting beyond MAX_DEPTH, which the encoder does not limit, is refused.
RoundTrip ==
  LET d == decode(encode(value))
  IN IF Depth(value) <= MAX_DEPTH THEN d = Ok(value, <<>>) ELSE d.err = "TooDeep"
=============================================================================
