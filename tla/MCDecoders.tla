------------------------------ MODULE MCDecoders ------------------------------
(* Small values, as CPython lays them out, for TLC. *)
EXTENDS Decoders

\* Integers of up to three digits and some of four, at the start of a region or
\* further in; with a digit missing, or a size whose bytes wrap around, they have been
\* overwritten.
DigitSeqs ==
  {<<>>} \cup {<<a>> : a \in 1 .. (DigitBase - 1)}
  \cup {<<a, b>> : a \in 0 .. (DigitBase - 1), b \in 1 .. (DigitBase - 1)}
  \cup {<<a, b, c>> : a \in 0 .. (DigitBase - 1), b \in {0, 1, DigitBase - 1},
                      c \in 1 .. (DigitBase - 1)}
  \cup {<<0, 0, 0, 1>>, <<1, 2, 3, 4>>}

Ints ==
  UNION {{[kind |-> "int", ob_size |-> n, digits |-> digits \o rest, before |-> before] :
            n \in {Len(digits), -Len(digits), Len(digits) + 1, -Len(digits) - 1,
                   Len(digits) + DigitSpace, Len(digits) - DigitSpace},
            rest \in {<<>>, <<7>>}, before \in {2, 5}} : digits \in DigitSeqs}

\* Characters of each length in UTF-8, at its limits, and one that is none.
Chars == {97, 127, 128, 2047, 2048, 65535, 65536, 1114111, 1114112}
Fit(char_kind) == {c \in Chars : \/ char_kind = 4
                                 \/ char_kind = 2 /\ c < 65536
                                 \/ char_kind = 1 /\ c < 256}
Upto(n, S) == UNION {[1 .. m -> S] : m \in 0 .. n}

Strings ==
  UNION {{[kind |-> "str", ascii |-> FALSE, char_kind |-> k, length |-> n, chars |-> chars,
           max_len |-> limit] :
            n \in {Len(chars), Len(chars) + 1, Len(chars) + (WordSize \div k) * (k \div 2)},
            limit \in {0, 1, 3, 4, 6}} :
           <<k, chars>> \in UNION {{k} \X Upto(IF k = 4 THEN 2 ELSE 3, Fit(k)) : k \in {1, 2, 4}}}
  \cup
  {[kind |-> "str", ascii |-> TRUE, char_kind |-> 1, length |-> n, chars |-> chars,
    max_len |-> limit] : n \in 0 .. 3, limit \in 0 .. 4, chars \in Upto(3, {97, 127})}

\* Dicts of n entries, some deleted; a key's place in the table depends on its
\* hash; other places are empty or once held a deleted entry.  CPython's dict
\* is filled to two thirds, and it takes the width from the table's size.
LittleEndian(v, w) == [b \in 1 .. w |-> ((v % Byte^w) \div Byte^(b - 1)) % Byte]

DictOf(dk_size, w, entries, live, values, from, step, free) ==
  LET place(e) == ((from + step * e) % dk_size) + 1
      cell(i) == IF \E e \in live : place(e) = i
                 THEN (CHOOSE e \in live : place(e) = i) - 1 ELSE free
      value(e) == IF values = <<>> THEN entries[e].value ELSE values[e]
  IN [kind |-> "dict", dk_size |-> dk_size, width |-> w, entries |-> entries,
      values |-> values,
      bytes |-> FlattenSeq([i \in 1 .. dk_size |-> LittleEndian(cell(i), w)]),
      is |-> {<<entries[e].key, value(e)>> : e \in {e \in live : value(e) # Null}},
      overwritten |-> FALSE]

Entries(n, live, apart) ==
  [e \in 1 .. n |-> [key |-> 10 + e, value |-> IF apart \/ e \notin live THEN Null ELSE 20 + (e % 2)]]

Dicts ==
  UNION {{DictOf(size[1], size[2], Entries(size[3], live, FALSE), live, <<>>, from, step, free) :
            from \in 0 .. 7, step \in {1, 3}, free \in {-1, -2}, live \in SUBSET (1 .. size[3])} :
           size \in {<<4, 1, 2>>, <<8, 2, 5>>}}
  \cup
  {DictOf(4, 1, Entries(2, {1, 2}, TRUE), {1, 2}, [e \in {1, 2} |-> IF e \in set THEN 30 + e ELSE Null],
          from, step, -1) : from \in 0 .. 3, step \in {1, 3}, set \in SUBSET {1, 2}}

\* Small ones with an index that has been overwritten.
BadDicts ==
  UNION {{[d EXCEPT !.bytes = [@ EXCEPT ![i] = v], !.overwritten = TRUE] :
            i \in DOMAIN d.bytes, v \in {1, 3, Byte - 1}} : d \in {d \in Dicts : d.dk_size = 4}}

\* Sets, with deleted entries, and with a size that has been overwritten.
Sets ==
  UNION {{[kind |-> "set", mask |-> 3, table |-> table, is |-> ToSet(table) \ {Null, Unset},
           fill |-> Cardinality({i \in 1 .. 4 : table[i] # Null}),
           used |-> Cardinality({i \in 1 .. 4 : table[i] \notin {Null, Unset}}),
           overwritten |-> FALSE]} :
           table \in {t \in [1 .. 4 -> {Null, Unset, 41, 42, 43}] :
                        \A i, j \in 1 .. 4 : i # j /\ t[i] = t[j] => t[i] \in {Null, Unset}}}

BadSets ==
  {[s EXCEPT !.mask = m, !.used = @ + u, !.fill = @ + f, !.overwritten = TRUE] :
     s \in {s \in Sets : s.table[1] = 41}, m \in {1, 3, 7}, u \in {0, 1}, f \in {0, 2}}

\* Line tables of up to three ranges, empty ones among them.
Tables ==
  {[kind |-> "code", co_firstlineno |-> 10, table |-> table, offsets |-> 0 .. 13] :
     table \in Upto(3, [sdelta : {0, 2, 4}, ldelta : {NoLine, -1, 0, 1, 3}])}

SmallGiven ==
  [int |-> Ints, str |-> Strings, dict |-> Dicts, bad_dict |-> BadDicts, set |-> Sets,
   bad_set |-> BadSets, code |-> Tables]
=============================================================================
