------------------------------ MODULE Database ------------------------------
(***************************************************************************)
(* dbmanager.c and flatfile.c: tables of rows in memory, and the file they *)
(* are written to, one line for each row.                                  *)
(***************************************************************************)
EXTENDS Naturals, Sequences, SequencesExt, Lists

CONSTANT Short   \* the tables whose values are one word

VARIABLES
    db,          \* db->entries: containers [name, rows] in the order they were made
    file         \* the lines of security.db that end in a newline

Line(t, r) == [table |-> t, key |-> r.key, value |-> r.value]

\* get_db_rows.
Rows(d, t) ==
    LET i == SelectInSeq(d, LAMBDA c : c.name = t) IN IF i = 0 THEN <<>> ELSE d[i].rows

\* addto_db_entry: a row of that key is overwritten in its place.
AddRow(d, t, key, value) ==
    LET i   == SelectInSeq(d, LAMBDA c : c.name = t)
        row == [key |-> key, value |-> value]
    IN  IF i = 0 THEN Append(d, [name |-> t, rows |-> <<row>>])
        ELSE LET rows == d[i].rows
                 j    == SelectInSeq(rows, LAMBDA r : r.key = key)
             IN  [d EXCEPT ![i].rows = IF j = 0 THEN Append(rows, row) ELSE [rows EXCEPT ![j] = row]]

\* A wrong variant of DelRow: the row stays.
DelRowNever(d, t, key) == d

\* del_db_entry; an emptied container stays.
DelRow(d, t, key) ==
    LET i == SelectInSeq(d, LAMBDA c : c.name = t)
    IN  IF i = 0 THEN d
        ELSE LET rows == d[i].rows
             IN  [d EXCEPT ![i].rows = Picked(rows, {j \in DOMAIN rows : rows[j].key # key})]

\* del_db_entry for each row of a table.
DelRows(d, t) == FoldLeft(LAMBDA e, r : DelRow(e, t, r.key), d, Rows(d, t))

\* dbi_save, all of it.
Lines(d) == FlattenSeq([i \in DOMAIN d |-> [j \in DOMAIN d[i].rows |-> Line(d[i].name, d[i].rows[j])]])

\* db_parse leaves its loop at the first line with fewer than three words.
Readable(lines) ==
    LET i == SelectInSeq(lines, LAMBDA l : l.table \in Short)
    IN  IF i = 0 THEN lines ELSE SubSeq(lines, 1, i - 1)

\* db_load.
LoadRows(lines) == FoldLeft(LAMBDA d, l : AddRow(d, l.table, l.key, l.value), <<>>, Readable(lines))

\* The write is cut short: the old file is gone, the new one has what was flushed.
Cut(lines) == {SubSeq(lines, 1, n) : n \in 0..Len(lines)}

\* Every table is one container, every key one row.
DbTypeOK ==
    /\ \A i, j \in DOMAIN db : db[i].name = db[j].name => i = j
    /\ \A i \in DOMAIN db : \A j, k \in DOMAIN db[i].rows : db[i].rows[j].key = db[i].rows[k].key => j = k

=============================================================================
