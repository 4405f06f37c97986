------------------------------ MODULE Records -------------------------------
(***************************************************************************)
(* Keys and records of a table (record.c), and the sizes they take in a    *)
(* block.                                                                  *)
(*                                                                         *)
(* A key is a sequence of characters, which are numbers; a reference name  *)
(* contains neither 0, which ends the name in the key of a log record, nor *)
(* does it matter here what else it contains.  A hash is a short sequence  *)
(* of digits, the ones in which hashes differ; it takes HashSize bytes.    *)
(* A record is what block.c and writer.c see of the four kinds of record:  *)
(* its type, its key, its value type and its value.                        *)
(***************************************************************************)
EXTENDS Naturals, Sequences, TLC

CONSTANTS HashSize,   \* bytes of a hash
          LogSize,    \* bytes of the value of a log record that is no deletion
          MaxIndex    \* the largest update index, 2^64 - 1 in the code

ASSUME RecordSizes == {HashSize, LogSize, MaxIndex} \subseteq Nat \ {0}

\* Block types, and reference value types as they appear in a key's extra bits.
Ref == "r"
Log == "g"
Obj == "o"
Idx == "i"

Deletion == 0
Val1     == 1
Val2     == 2
Symref   == 3

--------------------------------------------------------------------------------
\* Keys: common_prefix_size and the order of strbuf_cmp.
CommonPrefix(a, b) ==
  CHOOSE k \in 0..Len(a) :
    /\ k <= Len(b)
    /\ SubSeq(a, 1, k) = SubSeq(b, 1, k)
    /\ (k < Len(a) /\ k < Len(b)) => a[k + 1] # b[k + 1]

KeyLess(a, b) ==
  LET k == CommonPrefix(a, b)
  IN  IF k < Len(a) /\ k < Len(b) THEN a[k + 1] < b[k + 1] ELSE Len(a) < Len(b)

HasPrefix(s, p) == Len(p) <= Len(s) /\ SubSeq(s, 1, Len(p)) = p

\* A reflog's key: the name, a zero, and the update index counted down, so
\* that the newest entry of a name comes first.
LogKey(name, ui) == name \o <<0, MaxIndex - ui>>
LogName(key) == SubSeq(key, 1, Len(key) - 2)
LogIndex(key) == MaxIndex - key[Len(key)]

\* Bytes of a variable-length integer.  A second byte starts at 128, a third
\* at 128 + 128^2, because each continuation byte stands for one value more.
VarIntLen[v \in Nat] == IF v < 128 THEN 1 ELSE 1 + VarIntLen[v \div 128 - 1]

--------------------------------------------------------------------------------
\* Records.
RefRecord(name, type, hashes, delta) ==
  [typ |-> Ref, key |-> name, ext |-> type,
   val |-> [hashes |-> hashes, delta |-> delta]]

LogRecord(name, ui, type) ==
  [typ |-> Log, key |-> LogKey(name, ui), ext |-> type, val |-> type]

\* The offsets of the blocks in which an object appears: up to seven are
\* counted in the value type, more (or none) in a number of their own.
ObjRecord(prefix, offsets) ==
  [typ |-> Obj, key |-> prefix,
   ext |-> IF Len(offsets) < 8 THEN Len(offsets) ELSE 0, val |-> offsets]

IndexRecord(key, offset) == [typ |-> Idx, key |-> key, ext |-> 0, val |-> offset]

IsDeletion(rec) == rec.typ \in {Ref, Log} /\ rec.ext = Deletion

\* Offsets are stored as differences.
Deltas(s) == [j \in DOMAIN s |-> IF j = 1 THEN s[1] ELSE s[j] - s[j - 1]]
EncodeBody(rec) == IF rec.typ = Obj THEN Deltas(rec.val) ELSE rec.val

RECURSIVE Sums(_)
Sums(d) == IF Len(d) <= 1 THEN d
           ELSE LET s == Sums(SubSeq(d, 1, Len(d) - 1))
                IN  Append(s, s[Len(s)] + d[Len(d)])
DecodeBody(typ, body) == IF typ = Obj THEN Sums(body) ELSE body

RECURSIVE SumLen(_)
SumLen(s) == IF s = <<>> THEN 0 ELSE VarIntLen[Head(s)] + SumLen(Tail(s))

\* Bytes of a value.
RefBodySize(ext, val) ==
  VarIntLen[val.delta] +
  CASE ext = Val1     -> HashSize
    [] ext = Val2     -> 2 * HashSize
    [] ext = Symref   -> 1 + Len(val.hashes[1])
    [] ext = Deletion -> 0
LogBodySize(ext) == IF ext = Deletion THEN 0 ELSE LogSize
ObjBodySize(val) ==
  (IF Len(val) \in 1..7 THEN 0 ELSE VarIntLen[Len(val)]) + SumLen(Deltas(val))
BodySize(rec) ==
  CASE rec.typ = Ref -> RefBodySize(rec.ext, rec.val)
    [] rec.typ = Log -> LogBodySize(rec.ext)
    [] rec.typ = Obj -> ObjBodySize(rec.val)
    [] rec.typ = Idx -> VarIntLen[rec.val]

--------------------------------------------------------------------------------
\* An entry of a block: the key without the prefix it shares with the key
\* before it, and the encoded value.  n is the number of bytes.
EntryAfter(k, len, rec) ==
  [prefix |-> k, suffix |-> SubSeq(rec.key, k + 1, k + len), ext |-> rec.ext,
   body |-> EncodeBody(rec),
   n |-> VarIntLen[k] + VarIntLen[8 * len + rec.ext] + len + BodySize(rec)]
EncodeEntry(prev, rec) ==
  EntryAfter(CommonPrefix(prev, rec.key),
             Len(rec.key) - CommonPrefix(prev, rec.key), rec)

\* The key of an entry after the key prev.
DecodeKey(prev, e) == SubSeq(prev, 1, e.prefix) \o e.suffix
DecodeEntry(typ, prev, e) ==
  [typ |-> typ, key |-> DecodeKey(prev, e), ext |-> e.ext,
   val |-> DecodeBody(typ, e.body)]
=============================================================================
