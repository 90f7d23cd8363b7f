------------------------------- MODULE Decoders -------------------------------
(***************************************************************************)
(* How the values of Python's basic types are read from their bytes        *)
(* (src/Types: PyIntegerObjects.cc, PyStringObjects.cc, PyDictObject.cc,   *)
(* PySetObject.cc, PyCodeObject.cc).  An object is what lies in memory and *)
(* is, what Python takes it for; each action checks one object and decodes *)
(* it.  The object may have been overwritten, and the region of memory it  *)
(* is in may end within it.                                                *)
(***************************************************************************)
EXTENDS Integers, Sequences, SequencesExt, FiniteSets

CONSTANTS Given,      \* the objects considered, of each sort
          WordSize,   \* 2^64
          DigitBase,  \* 2^30, the base of a Python integer
          SignedHigh, \* 2^3, what a third digit may add to a signed word
          Byte,       \* 2^8
          Unset       \* the key of a set's deleted entry

ASSUME SizesAssumption ==
  /\ Byte \in Nat \ {0, 1, 2, 3}
  /\ WordSize = 2 * SignedHigh * DigitBase * DigitBase
  /\ SignedHigh \in Nat \ {0} /\ DigitBase \in Nat \ {0, 1} /\ 2 * SignedHigh <= DigitBase

VARIABLES object, \* the object to be decoded
          shown   \* what is made of it

decoded == <<object, shown>>

Null == 0

----------------------------------------------------------------------------
(* Sequences. *)

\* The sum of the first i numbers.
Sum(s, i) == LET total[k \in 0 .. i] == IF k = 0 THEN 0 ELSE total[k - 1] + s[k] IN total[i]

\* The number with some digits, the lowest first.
Number(s, base) ==
  LET value[k \in 0 .. Len(s)] ==
        IF k = 0 THEN 0 ELSE base * value[k - 1] + s[Len(s) - k + 1]
  IN value[Len(s)]

\* Those of its elements that are in a set.
Kept(s, set) ==
  LET kept[k \in 0 .. Len(s)] ==
        IF k = 0 THEN <<>>
        ELSE IF s[k] \in set THEN Append(kept[k - 1], s[k]) ELSE kept[k - 1]
  IN kept[Len(s)]

----------------------------------------------------------------------------
\* The check finds a reason; reading passes the end of the region.
Invalid    == [form |-> "invalid", value |-> <<>>]
Unreadable == [form |-> "unreadable", value |-> <<>>]
Nothing    == [form |-> "nothing", value |-> <<>>]
Form(form, value) == [form |-> form, value |-> value]

----------------------------------------------------------------------------
(* Integers: ob_size digits, the lowest first; its sign is the integer's.  *)
(* before is what the region holds before the digits, in words of a digit. *)

Signed(v) == IF v % WordSize >= WordSize \div 2 THEN (v % WordSize) - WordSize ELSE v % WordSize

Magnitude(n) == IF n < 0 THEN -n ELSE n

\* How many digits, of four bytes each, the address space holds.
DigitSpace == WordSize \div 4

\* exists_range, with a size that is negative if the integer is; an address where a
\* region ends is in none.
DigitsExist(o) ==
  /\ o.digits # <<>>
  /\ (o.before + o.ob_size) % DigitSpace <= o.before + Len(o.digits)

\* The number of digits that are read; its bytes wrap around.
DigitsRead(o) == Magnitude(o.ob_size) % DigitSpace

Low(o, n) == LET d(i) == IF i > n THEN 0 ELSE o.digits[i] % DigitBase
             IN d(1) + d(2) * DigitBase

\* What the last case prints, which is all that has not been read: of three digits,
\* which do not fit a word, nothing.
DigitsLeft(o) ==
  IF Magnitude(o.ob_size) = 3 THEN <<>> ELSE SubSeq(o.digits, 1, DigitsRead(o))

\* Bug: a third digit that fits an unsigned word is taken with either sign.
IntTextAnySign(o) ==
  LET n == Magnitude(o.ob_size)
      sign == IF o.ob_size < 0 THEN -1 ELSE 1
      value == Low(o, n) + o.digits[3] * DigitBase * DigitBase
  IN IF n <= 2 THEN Form("number", <<Signed(sign * Low(o, n))>>)
     ELSE IF n = 3 /\ o.digits[3] < SignedHigh THEN Form("number", <<Signed(sign * value)>>)
     ELSE IF n = 3 /\ o.digits[3] < 2 * SignedHigh
     THEN Form("number", <<(sign * value) % WordSize>>)
     ELSE Form("digits", <<sign, DigitsLeft(o)>>)

\* The text: a signed word, an unsigned word, or the sign and the digits left.
IntText(o) ==
  LET n == Magnitude(o.ob_size)
      sign == IF o.ob_size < 0 THEN -1 ELSE 1
      value == Low(o, n) + o.digits[3] * DigitBase * DigitBase
  IN IF n <= 2 THEN Form("number", <<Signed(sign * Low(o, n))>>)
     ELSE IF n = 3 /\ o.digits[3] < SignedHigh THEN Form("number", <<Signed(sign * value)>>)
     ELSE IF n = 3 /\ o.digits[3] < 2 * SignedHigh /\ sign = 1
     THEN Form("number", <<value % WordSize>>)
     ELSE Form("digits", <<sign, DigitsLeft(o)>>)

ReprInt ==
  /\ object.kind = "int"
  /\ shown' = IF ~DigitsExist(object) THEN Invalid
              ELSE IF DigitsRead(object) > Len(object.digits) THEN Unreadable
              ELSE IntText(object)

----------------------------------------------------------------------------
(* Strings: length characters of char_kind bytes; chars are the characters *)
(* from its data to the end of the region.  A compact string of ASCII has  *)
(* one byte for each.                                                      *)

CharLimit == 1114112  \* no character is 0x110000 or more

\* The bytes of one character of decode_ucs's result.
Encode(ch) ==
  IF ch < 128 THEN <<ch>>
  ELSE IF ch < 2048 THEN <<192 + (ch \div 64), 128 + (ch % 64)>>
  ELSE IF ch < 65536 THEN <<224 + (ch \div 4096), 128 + ((ch \div 64) % 64), 128 + (ch % 64)>>
  ELSE <<240 + (ch \div 262144), 128 + ((ch \div 4096) % 64),
         128 + ((ch \div 64) % 64), 128 + (ch % 64)>>

Bytes(text) == Sum([i \in DOMAIN text |-> Len(text[i])], Len(text))

Text(o, n) == [i \in 1 .. n |-> Encode(o.chars[i])]

\* How many characters are read; their bytes wrap around.
Length(o) == ((o.length * o.char_kind) % WordSize) \div o.char_kind

\* How many of them the loop of decode_ucs takes: it stops once max_len bytes have
\* been made.
Taken(o) ==
  CHOOSE n \in 0 .. Length(o) :
    /\ n = Length(o) \/ (o.max_len # 0 /\ Bytes(Text(o, n)) >= o.max_len)
    /\ \A m \in 0 .. (n - 1) : o.max_len = 0 \/ Bytes(Text(o, m)) < o.max_len

\* The characters and the bytes in memory that follow them.
DecodeUcs(o) ==
  IF \E i \in 1 .. Taken(o) : o.chars[i] >= CharLimit THEN Invalid
  ELSE Form("text", <<Text(o, Taken(o)), (Length(o) - Taken(o)) * o.char_kind>>)

DecodeAscii(o) ==
  IF o.max_len # 0 /\ o.length > o.max_len
  THEN Form("text", <<Text(o, o.max_len), o.length - o.max_len>>)
  ELSE Form("text", <<Text(o, o.length), 0>>)

\* PyASCIIStringObject::invalid_reason, repr_string_types and decode_string_types
ReprString ==
  /\ object.kind = "str"
  /\ shown' = IF object.chars = <<>> \/ Length(object) > Len(object.chars) THEN Invalid
              ELSE IF object.length = 0 THEN Form("text", <<<<>>, 0>>)
              ELSE IF object.ascii THEN DecodeAscii(object) ELSE DecodeUcs(object)

----------------------------------------------------------------------------
(* Dicts: a table of indices of entries, -1 and -2 for none; the entries,  *)
(* [key, value]; and, if the keys are shared with others, the values apart. *)

Widths == {1, 2, 4, 8}

\* What an index of so many bytes is less than.
Limit(w) ==
  LET two == Byte * Byte
  IN IF w = 1 THEN Byte ELSE IF w = 2 THEN two
     ELSE IF w = 4 THEN two * two ELSE two * two * two * two

BytesPerTableValue(dk_size) ==
  IF dk_size < Limit(1) THEN 1 ELSE IF dk_size < Limit(2) THEN 2
  ELSE IF dk_size < Limit(4) THEN 4 ELSE 8

Unsigned(o, i, w) == Number(SubSeq(o.bytes, (i - 1) * w + 1, i * w), Byte)

Table(o) ==
  LET w == BytesPerTableValue(o.dk_size)
  IN [i \in 1 .. o.dk_size |->
        IF Unsigned(o, i, w) >= Limit(w) \div 2 THEN Unsigned(o, i, w) - Limit(w)
        ELSE Unsigned(o, i, w)]

Used(o) == Kept(Table(o), Nat)

DictItem(o, v) ==
  <<o.entries[v + 1].key,
    IF o.values # <<>> THEN o.values[v + 1] ELSE o.entries[v + 1].value>>

DictItems(o) == [i \in DOMAIN Used(o) |-> DictItem(o, Used(o)[i])]

\* PyDictObject::invalid_reason and get_items
ReprDict ==
  /\ object.kind = "dict"
  /\ shown' = IF \E i \in DOMAIN Used(object) : Used(object)[i] >= Len(object.entries)
              THEN Unreadable
              ELSE IF \E i \in DOMAIN DictItems(object) : Null \in ToSet(DictItems(object)[i])
              THEN Invalid
              ELSE Form("items", DictItems(object))

----------------------------------------------------------------------------
(* Sets: table holds the keys from its start to the end of the region. *)

SetItems(o) == LET keys == SubSeq(o.table, 1, o.mask + 1)
               IN Kept(keys, ToSet(keys) \ {Null})

\* PySetObject::invalid_reason and get_items
ReprSet ==
  /\ object.kind = "set"
  /\ shown' = IF object.fill > object.mask + 1 \/ object.used > object.fill THEN Invalid
              ELSE IF object.mask + 1 > Len(object.table) THEN Unreadable
              ELSE Form("items", SetItems(object))

----------------------------------------------------------------------------
(* Line tables: [sdelta, ldelta] for each range of a function's code. *)

NoLine == -128

\* The end of range i, and its line: that of the ranges so far.
End(o, i)  == Sum([j \in DOMAIN o.table |-> o.table[j].sdelta], i)
Line(o, i) == o.co_firstlineno +
              Sum([j \in DOMAIN o.table |-> IF o.table[j].ldelta = NoLine THEN 0
                                            ELSE o.table[j].ldelta], i)

\* A range whose ldelta is 0 only moves the end.
Hits(o, offset) == {i \in DOMAIN o.table : /\ o.table[i].ldelta \notin {0, NoLine}
                                           /\ End(o, i - 1) <= offset /\ offset < End(o, i)}

\* Bug: a range is given the line of the range before.
LineForOffsetBefore(o, offset) ==
  IF Hits(o, offset) = {} THEN 0 ELSE Line(o, (CHOOSE i \in Hits(o, offset) : TRUE) - 1)

\* line_number_for_code_offset
LineForOffset(o, offset) ==
  IF Hits(o, offset) = {} THEN 0 ELSE Line(o, CHOOSE i \in Hits(o, offset) : TRUE)

FindLines ==
  /\ object.kind = "code"
  /\ shown' = Form("lines", [offset \in object.offsets |-> LineForOffset(object, offset)])

----------------------------------------------------------------------------
(* What Python lays out in memory, and what an object may then be that has *)
(* been overwritten.                                                       *)

\* The digits that ob_size counts are an integer's, and the highest is not 0; ob_size
\* is a signed word, and a region less than half of the address space.
IntLaidOut(o) ==
  LET n == Magnitude(o.ob_size)
  IN /\ o.ob_size \in Int /\ o.before \in Nat
     /\ o.digits \in Seq(0 .. (DigitBase - 1))
     /\ n \in DOMAIN o.digits => o.digits[n] # 0
     /\ n < WordSize \div 2
     /\ o.before + Len(o.digits) < DigitSpace /\ 2 * Len(o.digits) < DigitSpace

StringLaidOut(o) ==
  /\ o.length \in 0 .. (WordSize - 1) /\ o.max_len \in Nat
  /\ o.chars \in Seq(Nat) /\ o.char_kind \in {1, 2, 4}
  /\ o.ascii \in BOOLEAN
  /\ o.ascii => o.char_kind = 1 /\ \A i \in 1 .. o.length : i <= Len(o.chars) => o.chars[i] < 128

\* Place i of a dict's table holds v, in so many bytes.
Holds(o, i, v) == Unsigned(o, i, o.width) = v % Limit(o.width)

Live(o) == {e \in DOMAIN o.entries : \E i \in 1 .. o.dk_size : Holds(o, i, e - 1)}

Value(o, e) == IF o.values = <<>> THEN o.entries[e].value ELSE o.values[e]

\* An index has the least width that its table's size has; the table's places are
\* empty or lead to entries of different keys, each once; the values are apart if
\* the keys are shared, and then some may be missing.
DictLaidOut(o) ==
  /\ o.dk_size \in Nat /\ o.width \in Widths
  /\ o.dk_size < Limit(o.width)
  /\ \A w \in Widths : o.dk_size < Limit(w) => o.width <= w
  /\ Len(o.entries) <= Limit(o.width) \div 2 /\ Len(o.entries) \in Nat
  /\ DOMAIN o.entries = 1 .. Len(o.entries)
  /\ \A i \in 1 .. o.dk_size : \E v \in -2 .. (Len(o.entries) - 1) : Holds(o, i, v)
  /\ \A e \in Live(o) : \A i, j \in 1 .. o.dk_size :
       Holds(o, i, e - 1) /\ Holds(o, j, e - 1) => i = j
  /\ \A e, f \in Live(o) : o.entries[e].key = o.entries[f].key => e = f
  /\ \A e \in Live(o) : o.entries[e].key # Null
  /\ o.values = <<>> => \A e \in Live(o) : o.entries[e].value # Null
  /\ o.values # <<>> => Live(o) \subseteq DOMAIN o.values
  /\ o.is = {<<o.entries[e].key, Value(o, e)>> : e \in {e \in Live(o) : Value(o, e) # Null}}

SetLaidOut(o) ==
  /\ o.mask \in Nat /\ o.fill \in Nat /\ o.used \in Nat /\ Len(o.table) \in Nat
  /\ o.mask + 1 <= Len(o.table)
  /\ o.used <= o.fill /\ o.fill <= o.mask + 1
  /\ \A i, j \in 1 .. (o.mask + 1) :
       o.table[i] = o.table[j] => i = j \/ o.table[i] \in {Null, Unset}
  /\ o.is = {o.table[i] : i \in 1 .. (o.mask + 1)} \ {Null, Unset}

LinesLaidOut(o) ==
  /\ o.co_firstlineno \in Int /\ o.offsets \subseteq Int
  /\ o.table \in Seq([sdelta : Nat, ldelta : Int])

LaidOut(o) ==
  /\ o.kind \in {"int", "str", "dict", "set", "code"}
  /\ o.kind = "int" => IntLaidOut(o)
  /\ o.kind = "str" => StringLaidOut(o)
  /\ o.kind \in {"dict", "set"} => o.overwritten \in BOOLEAN
  /\ o.kind = "dict" => o.overwritten \/ DictLaidOut(o)
  /\ o.kind = "set" => o.overwritten \/ SetLaidOut(o)
  /\ o.kind = "code" => LinesLaidOut(o)

ASSUME GivenAssumption == \A sort \in DOMAIN Given : \A o \in Given[sort] : LaidOut(o)

----------------------------------------------------------------------------
DecodeInit ==
  /\ \E sort \in DOMAIN Given : object \in Given[sort]
  /\ shown = Nothing

Decode ==
  /\ shown = Nothing
  /\ ReprInt \/ ReprString \/ ReprDict \/ ReprSet \/ FindLines
  /\ UNCHANGED object

DecodeOver == shown # Nothing /\ UNCHANGED decoded

DecodeNext == Decode \/ DecodeOver

DecodeSpec == DecodeInit /\ [][DecodeNext]_decoded

----------------------------------------------------------------------------
(* Properties. *)

\* What Python takes the object for.
IntIs(o) ==
  LET n == Magnitude(o.ob_size)
      value == Number(SubSeq(o.digits, 1, n), DigitBase)
  IN IF o.ob_size < 0 THEN -value ELSE value

FitsWord(v) == -(WordSize \div 2) < v /\ v < WordSize

\* The digits of an integer can be read, the first of 0 too, and lie within a region
\* that its negative size does not leave at the other end.
IntReadable(o) ==
  /\ Magnitude(o.ob_size) <= Len(o.digits) /\ o.digits # <<>>
  /\ o.ob_size < 0 => Magnitude(o.ob_size) <= o.before

\* The bytes of what a size counts are fewer than a word can count.
SizeFits(n, width) == n * width < WordSize

IntRight ==
  object.kind = "int" /\ SizeFits(Magnitude(object.ob_size), 8) =>
    IF IntReadable(object)
    THEN IF FitsWord(IntIs(object))
         THEN shown = Form("number", <<IntIs(object)>>)
         ELSE /\ shown.form = "digits"
              /\ shown.value[1] = IF object.ob_size < 0 THEN -1 ELSE 1
              /\ IF Magnitude(object.ob_size) = 3
                 THEN shown.value[2] = <<>>
                 ELSE Number(shown.value[2], DigitBase) = Magnitude(IntIs(object))
    ELSE shown \in {Invalid, Unreadable}

\* The character that some bytes stand for in UTF-8.
Character(bytes) ==
  IF Len(bytes) = 1 THEN bytes[1]
  ELSE IF Len(bytes) = 2 THEN 64 * (bytes[1] - 192) + (bytes[2] - 128)
  ELSE IF Len(bytes) = 3
  THEN 4096 * (bytes[1] - 224) + 64 * (bytes[2] - 128) + (bytes[3] - 128)
  ELSE 262144 * (bytes[1] - 240) + 4096 * (bytes[2] - 128) + 64 * (bytes[3] - 128)
       + (bytes[4] - 128)

StringRight ==
  object.kind = "str" /\ SizeFits(object.length, object.char_kind) =>
    IF shown.form = "text"
    THEN LET text == shown.value[1]
             excess == shown.value[2]
             limit == object.max_len
         IN /\ \A i \in DOMAIN text : Character(text[i]) = object.chars[i]
            /\ excess = (object.length - Len(text)) * object.char_kind
            /\ limit = 0 => excess = 0
            /\ limit > 0 /\ text # <<>> => Bytes(Front(text)) < limit
            /\ excess > 0 => Bytes(text) >= limit
    ELSE \/ object.chars = <<>> \/ object.length > Len(object.chars)
         \/ \E i \in 1 .. object.length : object.chars[i] >= CharLimit

\* A dict whose values are apart is invalid if it lacks one of the shared keys,
\* and a set's deleted entries are items.
ItemsRight ==
  object.kind \in {"dict", "set"} =>
    IF shown.form = "items"
    THEN ~object.overwritten =>
           LET items == IF object.kind = "dict" THEN shown.value
                        ELSE Kept(shown.value, ToSet(shown.value) \ {Unset})
           IN ToSet(items) = object.is /\ Len(items) = Cardinality(object.is)
    ELSE \/ object.overwritten
         \/ object.kind = "dict" /\ object.values # <<>> /\ Null \in ToSet(object.values)

\* What is shown of a value is what Python takes it for: the number, or its sign and
\* its digits if it does not fit a word; the first characters, up to the limit, and how
\* many bytes were left out; all items, once.  An object is dropped if it has been
\* overwritten, and else only if it is one of those named above.  Nothing is said of
\* sizes whose bytes overflow a word (PyIntegerObjects.cc:14-67,
\* PyStringObjects.cc:35-118, PyDictObject.cc:114-129, PySetObject.cc:5-15).
\* The exception is an integer of exactly three digits that does not fit a word, of
\* which no digit is shown: case 3 has read them all when it falls through to the
\* loop (:54-62), though README.md:155 says that integers are formatted.
ShownRight == shown # Nothing => IntRight /\ StringRight /\ ItemsRight

\* CPython's own search: every range has a line, that of the ranges so far, but
\* those without one.
PythonLine(o, offset) ==
  LET S[i \in 0 .. Len(o.table)] ==
        IF i = 0 THEN [end |-> 0, line |-> o.co_firstlineno, found |-> 0, moved |-> TRUE]
        ELSE LET r == o.table[i]
                 line == S[i - 1].line + (IF r.ldelta = NoLine THEN 0 ELSE r.ldelta)
                 here == S[i - 1].end <= offset /\ offset < S[i - 1].end + r.sdelta
             IN [end   |-> S[i - 1].end + r.sdelta,
                 line  |-> line,
                 found |-> IF here /\ r.ldelta # NoLine THEN line ELSE S[i - 1].found,
                 moved |-> IF here THEN r.ldelta # 0 ELSE S[i - 1].moved]
  IN S[Len(o.table)]

\* The line found for an instruction is the one Python finds, but that none is
\* found in a range that continues the line before (PyCodeObject.cc:102-130).
LinesRight ==
  shown.form = "lines" =>
    \A offset \in object.offsets :
      shown.value[offset] = IF PythonLine(object, offset).moved
                            THEN PythonLine(object, offset).found ELSE 0
=============================================================================
