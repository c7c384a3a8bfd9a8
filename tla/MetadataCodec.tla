---------------------------- MODULE MetadataCodec ----------------------------
(***************************************************************************)
(* crates/catalog/src/codec.rs: the record of a table in the metadata heap *)
(* and back.  A cell stands for a fixed-width field (a tag byte, a flag, a *)
(* u32) or for one byte of a string; names are sequences of bytes.         *)
(***************************************************************************)
EXTENDS SlottedPage, SequencesExt

CONSTANT U32_MAX    \* the largest value of a four-byte field

ASSUME CodecAssumption == U32_MAX \in Nat

NOT_UTF8 == 255     \* a byte that no string holds
MAGIC == 9
MANIFEST == <<MAGIC, 0>>
TABLE == <<MAGIC, 1>>

Tags == <<"Boolean", "Int32", "Int64", "Uint32", "Float32", "Float64",
          "Text", "Varchar", "VarcharN">>
PrimaryKey == 1
Unique == 2

NoRepeats(s) == Cardinality(ToSet(s)) = Len(s)

(* A metadata record is [name, head, columns, constraints], a column is    *)
(* [name, nullable, type, bound] and a constraint is [tag, indices], with  *)
(* column indices that count from zero.                                    *)
validate(m) ==
    /\ m.name # <<>> /\ m.columns # <<>>
    /\ \A c \in ToSet(m.columns) : c.name # <<>> /\ c.type # "Null"
    /\ NoRepeats([i \in DOMAIN m.columns |-> m.columns[i].name])
    /\ Len(SelectSeq(m.constraints, LAMBDA k : k.tag = PrimaryKey)) <= 1
    /\ \A k \in ToSet(m.constraints) :
          /\ k.indices # <<>> /\ NoRepeats(k.indices)
          /\ \A i \in ToSet(k.indices) :
                /\ i < Len(m.columns)
                /\ ~(k.tag = PrimaryKey /\ m.columns[i + 1].nullable)

string(s) == <<Len(s)>> \o s
column(c) ==
    string(c.name) \o <<IF c.nullable THEN 1 ELSE 0,
                        CHOOSE t \in DOMAIN Tags : Tags[t] = c.type>>
                   \o (IF c.type = "VarcharN" THEN <<c.bound>> ELSE <<>>)
constraint(k) == <<k.tag, Len(k.indices)>> \o k.indices
each(Item(_), s) == FlattenSeq([i \in DOMAIN s |-> Item(s[i])])

encode(m) ==
    TABLE \o <<m.head>> \o string(m.name)
          \o <<Len(m.columns)>> \o each(column, m.columns)
          \o <<Len(m.constraints)>> \o each(constraint, m.constraints)
(* encode refuses invalid metadata, and a record that fits on no page. *)
encodes(m) == validate(m) /\ Len(encode(m)) <= MAX_TUPLE_SIZE

-----------------------------------------------------------------------------
(* A Reader takes a value off the front of the cells that are left. *)
Failed == [ok |-> FALSE, val |-> <<>>, rest |-> <<>>]
Took(val, rest) == [ok |-> TRUE, val |-> val, rest |-> rest]
Then(x, Rest(_)) == IF x.ok THEN Rest(x) ELSE Failed

take(r, n) == IF n > Len(r) THEN Failed
              ELSE Took(SubSeq(r, 1, n), SubSeq(r, n + 1, Len(r)))
number(r) == Then(take(r, 1), LAMBDA x : Took(x.val[1], x.rest))
byte(r, allowed) ==
    Then(number(r), LAMBDA x : IF x.val \in allowed THEN x ELSE Failed)
(* A count that the cells left could not hold is refused at once. *)
count(r) == Then(number(r), LAMBDA x : IF x.val > Len(x.rest) THEN Failed ELSE x)
read_string(r) ==
    Then(count(r), LAMBDA x : Then(take(x.rest, x.val), LAMBDA s :
         IF NOT_UTF8 \in ToSet(s.val) THEN Failed ELSE s))
many(Item(_), n, r) ==
    FoldLeft(LAMBDA acc, i : Then(acc, LAMBDA a :
                 Then(Item(a.rest), LAMBDA x : Took(Append(a.val, x.val), x.rest))),
             Took(<<>>, r), [i \in 1 .. n |-> i])

read_bound(r, tag) ==
    IF Tags[tag] # "VarcharN" THEN Took(0, r) ELSE byte(r, 1 .. U32_MAX)
read_column(r) ==
    Then(read_string(r), LAMBDA name :
    Then(byte(name.rest, {0, 1}), LAMBDA nullable :
    Then(byte(nullable.rest, DOMAIN Tags), LAMBDA tag :
    Then(read_bound(tag.rest, tag.val), LAMBDA bound :
        Took([name |-> name.val, nullable |-> nullable.val = 1,
              type |-> Tags[tag.val], bound |-> bound.val], bound.rest)))))
read_constraint(r) ==
    Then(byte(r, {PrimaryKey, Unique}), LAMBDA tag :
    Then(count(tag.rest), LAMBDA n :
    Then(many(number, n.val, n.rest), LAMBDA indices :
        Took([tag |-> tag.val, indices |-> indices.val], indices.rest))))

read_table(bytes) ==
    Then(take(bytes, Len(TABLE)), LAMBDA tag :
    IF tag.val # TABLE THEN Failed ELSE
    Then(number(tag.rest), LAMBDA head :
    Then(read_string(head.rest), LAMBDA name :
    Then(count(name.rest), LAMBDA n :
    Then(many(read_column, n.val, n.rest), LAMBDA columns :
    Then(count(columns.rest), LAMBDA k :
    Then(many(read_constraint, k.val, k.rest), LAMBDA constraints :
        Took([name |-> name.val, head |-> head.val, columns |-> columns.val,
              constraints |-> constraints.val], constraints.rest))))))))

decode_loose(bytes) ==
    Then(read_table(bytes), LAMBDA m : IF validate(m.val) THEN m ELSE Failed)
decode(bytes) ==
    Then(read_table(bytes), LAMBDA m :
         IF m.rest = <<>> /\ validate(m.val) THEN m ELSE Failed)
=============================================================================
