---------------------------- MODULE BufferCodec ----------------------------
(***************************************************************************)
(* The typed half of BufferBase (core/Buffer.h): write(value), read(value) *)
(* and probeSize(value), which dispatch on the type of the value, and the  *)
(* client that sends values through a buffer with them.                    *)
(*                                                                         *)
(* A type is a record with the field k and the fields its kind needs:      *)
(* size of an int (any type that is copied byte by byte, UUID and the      *)
(* floating-point types included), of for the elements of a container, n   *)
(* for the length of an array, fields for pair and struct.  A cell of the  *)
(* buffer is a byte; integers are little-endian.                           *)
(***************************************************************************)
EXTENDS BufferOps, FiniteSetsExt

CONSTANTS
  Item,                   \* the typed values [t, v] the client sends
  ItemCapacity,           \* bound: usable bytes of a buffer of fixed size
  MaxSends                \* bound: values sent

VARIABLES
  pipe,                   \* the buffer
  pending,                \* the values written and not read
  sends                   \* how many were written
items == <<pipe, pending, sends>>

-----------------------------------------------------------------------------
(* Types                                                                   *)

IsString(T) == T.k \in {"string", "wstring", "chars"}

is_variable_types(T) == IsString(T) \/ T.k \in {"vector", "list", "map", "buffer"}
is_direct_types(T) == T.k \in {"int", "chars"}

\* The compiler's sizeof.  A string or container object is a pointer, as in the
\* copy-on-write string; there is no padding.
RECURSIVE sizeof(_)
sizeof(T) ==
  CASE T.k = "int" -> T.size
    [] T.k = "bool" -> 1
    [] T.k = "array" -> T.n * sizeof(T.of)
    [] T.k \in {"pair", "struct"} -> SumFunction([i \in DOMAIN T.fields |-> sizeof(T.fields[i])])
    [] OTHER -> 8

Bytes(v, w) == [i \in 1..w |-> (v \div 256^(i - 1)) % 256]
Number(s) == SumFunction([i \in DOMAIN s |-> s[i] * 256^(i - 1)])

\* The error categories by the number they are written as; posix is an alias of
\* generic, whose test comes first.
Category == <<"system", "generic">>

-----------------------------------------------------------------------------
(* write                                                                   *)

Concat(S(_), s) == FlattenSeq([i \in DOMAIN s |-> S(s[i])])
Keys(v) == SetToSortSeq(DOMAIN v, <)
Word == [k |-> "int", size |-> 4]
Pair(S, T) == [k |-> "pair", fields |-> <<S, T>>]
Repeat(T, n) == [i \in 1..n |-> T]

\* The calls of writeDirect and writeArray, each with its bytes: Writes dispatches
\* on the type, the rest are the overloads of writeBuiltin.
RECURSIVE Writes(_, _)

WriteLength(v) == <<Bytes(Cardinality(DOMAIN v), 4)>>
WriteEach(ts, vs) == FlattenSeq([i \in DOMAIN vs |-> Writes(ts[i], vs[i])])

WriteScalar(T, v) == <<Bytes(IF T.k = "bool" THEN (IF v THEN 1 ELSE 0) ELSE v, sizeof(T))>>

WriteString(T, v) ==
  WriteLength(v) \o <<IF T.k = "wstring" THEN Concat(LAMBDA c : Bytes(c, 4), v) ELSE v>>

WriteVector(T, v) == WriteLength(v) \o WriteEach(Repeat(T.of, Len(v)), v)
WriteList(T, v) == WriteLength(v) \o WriteEach(Repeat(T.of, Len(v)), v)

WriteMap(T, v) ==
  WriteLength(v) \o Concat(LAMBDA j : Writes(T.key, j) \o Writes(T.of, v[j]), Keys(v))

WritePair(T, v) == WriteEach(T.fields, v)

\* WriteProxyArchive writes the fields a serializable value hands it.
WriteSerializable(T, v) == WriteEach(T.fields, v)

\* Elements that are copied byte by byte are written at once.
WriteElements(T, v) ==
  LET ws == WriteEach(Repeat(T.of, T.n), v)
  IN  IF is_direct_types(T.of) THEN <<FlattenSeq(ws)>> ELSE ws

WriteBoostArray(T, v) == <<Bytes(T.n * sizeof(T.of), 4)>> \o WriteElements(T, v)

WriteErrorCode(v) ==
  <<Bytes(v.value, 4), Bytes(SelectInSeq(Category, LAMBDA c : c = v.category) - 1, 4)>>

\* The length, and append.
WriteBuffer(v) == WriteLength(v) \o <<v>>

Writes(T, v) ==
  CASE T.k \in {"int", "bool"} -> WriteScalar(T, v)
    [] IsString(T) -> WriteString(T, v)
    [] T.k = "vector" -> WriteVector(T, v)
    [] T.k = "list" -> WriteList(T, v)
    [] T.k = "map" -> WriteMap(T, v)
    [] T.k = "pair" -> WritePair(T, v)
    [] T.k = "struct" -> WriteSerializable(T, v)
    [] T.k = "array" -> WriteBoostArray(T, v)
    [] T.k = "error_code" -> WriteErrorCode(v)
    [] T.k = "buffer" -> WriteBuffer(v)

WriteValue(x, T, v) == FoldLeft(WriteArray, x, Writes(T, v))

\* What the assertions ask: room for every write.  Lengths beyond MAX_STRING_LENGTH,
\* MAX_VECTOR_LENGTH and their like do not occur.
RECURSIVE WritesFit(_, _)
WritesFit(x, ws) ==
  ws # <<>> => WriteOk(x, Len(Head(ws))) /\ WritesFit(WriteArray(x, Head(ws)), Tail(ws))

-----------------------------------------------------------------------------
(* read                                                                    *)

\* A result has the value v, the buffer x after it, and ok, which is FALSE once
\* an assertion about where the bytes lie has failed.
Result(v, x, ok) == [v |-> v, x |-> x, ok |-> ok]

\* Mutant: a wide string is left behind after as many bytes as it has characters.
SkipCharacters(x, n, width) == RSkip(x, n)

\* Characters of width bytes each.
SkipString(x, n, width) == RSkip(x, n * width)

\* A wide string's characters must lie in one piece.
ReadString(x, n, T) ==
  LET width == IF T.k = "wstring" THEN 4 ELSE 1
      s == ReadArray(x, n * width)
  IN  Result([i \in 1..n |-> Number(SubSeq(s, width * (i - 1) + 1, width * i))],
             SkipString(x, n, width),
             T.k = "wstring" => OnePiece(x, n * width))

\* append to the buffer read takes the bytes as if they lay in one piece.
ReadBuffer(x, n) == Result(AppendSource(x, n), RSkip(x, n), TRUE)

\* ReadValue dispatches on the type, the rest are the overloads of readBuiltin.
RECURSIVE ReadValue(_, _), ReadAll(_, _)
ReadAll(x, ts) ==
  IF ts = <<>> THEN Result(<<>>, x, TRUE)
  ELSE LET a == ReadValue(x, Head(ts))
           b == ReadAll(a.x, Tail(ts))
       IN  Result(<<a.v>> \o b.v, b.x, a.ok /\ b.ok)

ReadScalar(x, T) ==
  LET n == Number(ReadArray(x, sizeof(T)))
  IN  Result(IF T.k = "bool" THEN n > 0 ELSE n, RSkip(x, sizeof(T)), TRUE)

ReadVector(x, n, T) == ReadAll(x, Repeat(T.of, n))
ReadList(x, n, T) == ReadAll(x, Repeat(T.of, n))

ReadMap(x, n, T) ==
  LET r == ReadAll(x, Repeat(Pair(T.key, T.of), n))
  IN  Result([j \in {p[1] : p \in Range(r.v)} |-> (CHOOSE p \in Range(r.v) : p[1] = j)[2]],
             r.x, r.ok)

ReadPair(x, T) == ReadAll(x, T.fields)
ReadSerializable(x, T) == ReadAll(x, T.fields)

ReadElements(x, T) == ReadAll(x, Repeat(T.of, T.n))

ReadErrorCode(x) ==
  LET r == ReadAll(x, <<Word, Word>>)
  IN  Result([value |-> r.v[1], category |-> Category[r.v[2] + 1]], r.x, r.ok)

ReadValue(x, T) ==
  LET length == ReadScalar(x, Word)
  IN  CASE T.k \in {"int", "bool"} -> ReadScalar(x, T)
        [] IsString(T) -> ReadString(length.x, length.v, T)
        [] T.k = "buffer" -> ReadBuffer(length.x, length.v)
        [] T.k = "vector" -> ReadVector(length.x, length.v, T)
        [] T.k = "list" -> ReadList(length.x, length.v, T)
        [] T.k = "map" -> ReadMap(length.x, length.v, T)
        [] T.k = "pair" -> ReadPair(x, T)
        [] T.k = "struct" -> ReadSerializable(x, T)
        [] T.k = "array" -> ReadElements(length.x, T)
        [] T.k = "error_code" -> ReadErrorCode(x)

-----------------------------------------------------------------------------
(* probeSize                                                               *)

\* Mutant: a string without its length.
ProbeCharacters(T, v) == IF T.k = "wstring" THEN Len(v) * 4 ELSE Len(v)

ProbeString(T, v) == IF T.k = "wstring" THEN (Len(v) + 1) * 4 ELSE Len(v) + 4
ProbeBuffer(v) == Len(v) + 4

\* Probe dispatches on the type, the rest are the overloads of probeSizeBuiltin.
RECURSIVE Probe(_, _)

ProbeEach(ts, vs) == SumFunction([i \in DOMAIN vs |-> Probe(ts[i], vs[i])])

\* Elements of a fixed size are as many times the first of them.
ProbeElements(T, s) ==
  IF is_variable_types(T) THEN ProbeEach(Repeat(T, Len(s)), s)
  ELSE IF s = <<>> THEN 0 ELSE Len(s) * Probe(T, s[1])

ProbeVector(T, v) == 4 + ProbeElements(T.of, v)
ProbeList(T, v) == 4 + ProbeElements(T.of, v)

ProbeMap(T, v) ==
  LET ks == Keys(v)
      vs == [i \in DOMAIN ks |-> v[ks[i]]]
  IN  4 + IF is_variable_types(T.key) \/ is_variable_types(T.of)
          THEN ProbeEach(Repeat(T.key, Len(ks)), ks) + ProbeEach(Repeat(T.of, Len(vs)), vs)
          ELSE ProbeElements(T.key, ks) + ProbeElements(T.of, vs)

ProbeBoostArray(T) == T.n * sizeof(T.of) + 4
ProbeErrorCode == 8

ProbePair(T, v) == ProbeEach(T.fields, v)

\* SizeProbingArchive adds up the fields a serializable value hands it.
ProbeSerializable(T, v) == ProbeEach(T.fields, v)

Probe(T, v) ==
  CASE T.k \in {"int", "bool"} -> sizeof(T)
    [] IsString(T) -> ProbeString(T, v)
    [] T.k = "buffer" -> ProbeBuffer(v)
    [] T.k = "vector" -> ProbeVector(T, v)
    [] T.k = "list" -> ProbeList(T, v)
    [] T.k = "map" -> ProbeMap(T, v)
    [] T.k = "array" -> ProbeBoostArray(T)
    [] T.k = "error_code" -> ProbeErrorCode
    [] T.k = "pair" -> ProbePair(T, v)
    [] T.k = "struct" -> ProbeSerializable(T, v)

-----------------------------------------------------------------------------
(* The client                                                              *)

\* Buffers that grow, and buffers that were used up to some position and are empty.
Used(x, n) == RSkip(WSkip(x, n), n)
CodecInit ==
  /\ \E mode \in {"plain", "circular"}, n \in 0..ItemCapacity :
       pipe \in {NewOnDemand(mode), Used(NewSized(mode, ItemCapacity), n)}
  /\ pending = <<>>
  /\ sends = 0

Send(e) ==
  /\ sends < MaxSends
  /\ WritesFit(pipe, Writes(e.t, e.v))
  /\ pipe' = WriteValue(pipe, e.t, e.v)
  /\ pending' = Append(pending, e)
  /\ sends' = sends + 1

Receive ==
  /\ pending # <<>>
  /\ LET r == ReadValue(pipe, Head(pending).t)
     IN  r.ok /\ pipe' = r.x
  /\ pending' = Tail(pending)
  /\ UNCHANGED sends

CodecNext == Receive \/ \E e \in Item : Send(e)

-----------------------------------------------------------------------------
(* Properties                                                              *)

\* What append makes of bytes s that lie in x: those behind the end are not there.
Torn(x, s) == [i \in DOMAIN s |-> IF OnePiece(x, i) THEN s[i] ELSE Junk]

\* Reading the types in the order in which values were written returns those
\* values and in the end leaves nothing behind, wherever the memory ends - but for
\* two types whose bytes go on at the start of circular memory: a wide string, whose
\* read stops at an assertion, and a nested buffer, which is read without one and
\* keeps only the bytes before the end.  What comes after it is right again.
ValuesArrive ==
  IF pending = <<>> THEN DataSize(pipe) = 0
  ELSE LET e == Head(pending)
           r == ReadValue(pipe, e.t)
           sent == IF e.t.k = "buffer" THEN Torn(RSkip(pipe, sizeof(Word)), e.v) ELSE e.v
       IN  r.ok => r.v = sent

\* A type whose values all take the same number of bytes.
RECURSIVE Fixed(_)
Fixed(T) ==
  \/ T.k \in {"int", "bool", "error_code"}
  \/ T.k = "array" /\ Fixed(T.of)
  \/ T.k \in {"pair", "struct"} /\ \A i \in DOMAIN T.fields : Fixed(T.fields[i])

\* No container whose size is taken as so many times that of its first element has
\* elements of several sizes (pairs and structs with a string in them are not marked
\* variable), and no array has elements of other than their sizeof.
RECURSIVE Regular(_)
Regular(T) ==
  /\ T.k \in {"vector", "list"} => (is_variable_types(T.of) \/ Fixed(T.of)) /\ Regular(T.of)
  /\ T.k = "map" =>
       /\ is_variable_types(T.key) \/ is_variable_types(T.of) \/ (Fixed(T.key) /\ Fixed(T.of))
       /\ Regular(T.key) /\ Regular(T.of)
  /\ T.k = "array" => T.of.k \in {"int", "bool"}
  /\ T.k \in {"pair", "struct"} => \A i \in DOMAIN T.fields : Regular(T.fields[i])

\* probeSize returns the bytes that values of regular types take in the buffer.
ProbedIsStored ==
  (\A i \in DOMAIN pending : Regular(pending[i].t)) =>
    DataSize(pipe) = SumFunction([i \in DOMAIN pending |-> Probe(pending[i].t, pending[i].v)])
=============================================================================
