------------------------------- MODULE CsvShape -------------------------------
(***************************************************************************)
(* validate_csv_product: the shape checks of one generated product.  A     *)
(* product is missing, a directory, or a file with the rows csv.reader     *)
(* gives: a blank line is a row without fields, and only an empty file has *)
(* no rows.  What an expectation leaves open is an empty set.              *)
(***************************************************************************)
EXTENDS Naturals, Sequences

DataRows(rows) == IF rows = <<>> THEN 0 ELSE Len(rows) - 1

CheckNames ==
    {"non_empty", "data_row_count", "minimum_data_row_count",
     "column_count", "header"}

Holds(check, rows, expectation) ==
    /\ check = "non_empty" => rows # <<>>
    /\ check = "data_row_count" =>
         \A n \in expectation.rows : DataRows(rows) = n
    /\ check = "minimum_data_row_count" =>
         \A n \in expectation.minimum : DataRows(rows) >= n
    /\ check = "column_count" =>
         \A n \in expectation.columns :
             rows # <<>> /\ \A i \in DOMAIN rows : Len(rows[i]) = n
    /\ check = "header" =>
         \A header \in expectation.header : rows # <<>> /\ rows[1] = header

(***************************************************************************)
(* Seeded fault: the columns are counted in the first row only.            *)
(***************************************************************************)
FailedAtHeader(product, expectation) ==
    {check \in CheckNames :
        ~Holds(check,
               IF check = "column_count" /\ product.rows # <<>>
               THEN <<product.rows[1]>> ELSE product.rows,
               expectation)}

(***************************************************************************)
(* The checks that fail; the first two end the validation.                 *)
(***************************************************************************)
FailedChecks(product, expectation) ==
    CASE product.kind = "missing" -> {"exists"}
      [] product.kind = "directory" -> {"is_file"}
      [] product.kind = "file" ->
           {check \in CheckNames : ~Holds(check, product.rows, expectation)}

Passed(product, expectation) == FailedChecks(product, expectation) = {}

-----------------------------------------------------------------------------
(***************************************************************************)
(* What an extraction that was stopped leaves of its product: n rows, and  *)
(* of the row after them the first k fields.  Fields are whole here: that  *)
(* a value has lost characters is beyond any check of the shape.           *)
(***************************************************************************)
Truncated(product, n, k) ==
    [product EXCEPT !.rows =
        SubSeq(@, 1, n)
        \o (IF k = 0 THEN <<>> ELSE <<SubSeq(product.rows[n + 1], 1, k)>>)]

(***************************************************************************)
(* Of a product that passes the configured expectation, a remainder passes *)
(* only if no field of it is missing and the minimum of rows is still      *)
(* there: cuts within a row are always noticed, cuts between rows down to  *)
(* the minimum never.                                                      *)
(***************************************************************************)
CutIsNoticed(product, expectation, n, k) ==
    Passed(product, expectation) =>
        LET rest == Truncated(product, n, k)
            whole == k \in {0, Len(product.rows[n + 1])}
        IN  Passed(rest, expectation) <=>
                /\ whole
                /\ rest.rows # <<>>
                /\ \A m \in expectation.minimum : Len(rest.rows) > m

=============================================================================
