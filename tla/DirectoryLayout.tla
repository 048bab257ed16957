--------------------------- MODULE DirectoryLayout ---------------------------
(***************************************************************************)
(* The columns of print_output in ls_cmd/my_ls.c.  Rows, columns and       *)
(* indices count from 0 as in the code, sequences from 1.                  *)
(***************************************************************************)
EXTENDS Integers, Sequences, FiniteSets

\* num_cols for a terminal of this width.
NumCols(width, colWidth) ==
    IF width \div colWidth = 0 THEN 1 ELSE width \div colWidth

\* Mutant of NumRows: rounded down.
NumRowsDown(count, cols) == count \div cols

\* num_rows: count / cols, rounded up.
NumRows(count, cols) == (count + cols - 1) \div cols

\* Column by column.
Index(row, col, rows) == col * rows + row

\* The columns that have an entry in this row.
InRow(row, count, cols) ==
    {col \in 0..cols-1 : Index(row, col, NumRows(count, cols)) < count}

\* The rows of the two loops.
InColumns(s, cols) ==
    LET rows == NumRows(Len(s), cols)
    IN  [r \in 1..rows |->
            [c \in 1..Cardinality(InRow(r - 1, Len(s), cols)) |->
                s[Index(r - 1, c - 1, rows) + 1]]]
=============================================================================
