------------------------------ MODULE MCCatalog ------------------------------
(* The catalog with two tables that need two metadata pages, declarations  *)
(* that are refused, and records damaged in one cell.                      *)
EXTENDS Catalog

col(name, nullable, type, bound) ==
    [name |-> name, nullable |-> nullable, type |-> type, bound |-> bound]
key(tag, indices) == [tag |-> tag, indices |-> indices]
table(name, columns, constraints) ==
    [name |-> name, head |-> 0, columns |-> columns, constraints |-> constraints]

x == col(<<5>>, FALSE, "Int32", 0)
y == col(<<6>>, TRUE, "VarcharN", 2)

One == table(<<1>>, <<x>>, <<key(PrimaryKey, <<0>>)>>)
Two == table(<<2>>, <<x, y>>, <<key(Unique, <<1, 0>>)>>)
OneAgain == table(<<1>>, <<y>>, <<>>)
NullableKey == table(<<3>>, <<y>>, <<key(PrimaryKey, <<0>>)>>)
TooLong == table(<<3>>, <<x, y>>, <<key(Unique, <<0>>), key(Unique, <<1>>),
                                    key(Unique, <<1, 0>>)>>)
AllDeclarations == {One, Two, OneAgain, NullableKey, TooLong}

(* Every truncation, every extension and every change of one cell. *)
Damaged(r) ==
    {SubSeq(r, 1, n) : n \in 0 .. Len(r)} \union {Append(r, 0)}
    \union {[r EXCEPT ![i] = v] : i \in DOMAIN r, v \in {0, 1, 2, 3, NOT_UTF8}}
DamagedRecords ==
    {MANIFEST} \union Damaged(encode([Two EXCEPT !.head = 2]))

Crashing == [creates |-> 2, others |-> 1, records |-> 0, crashes |-> 2]
Damaging == [creates |-> 1, others |-> 2, records |-> 1, crashes |-> 0]
AllBudgets == {Crashing, Damaging}
=============================================================================
