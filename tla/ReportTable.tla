----------------------------- MODULE ReportTable -----------------------------
(***************************************************************************)
(* The `reports' table of internal/storage, as operators on the set of its *)
(* rows.  A row keeps the test it belongs to, the raw email, the report    *)
(* (report_json) and how long ago it was created.                          *)
(*                                                                         *)
(* A report is abstracted to what the analysis was given: the mail and the *)
(* provenance recorded in its `source' field.  The creation time is kept   *)
(* as an age, which is all the retention rule compares.                    *)
(***************************************************************************)
EXTENDS Integers

Matching(table, t) == {row \in table : row.testID = t}

\* DBStorage.ReportExists: SELECT count(*) ... WHERE test_id = t.
Exists(table, t) == Matching(table, t) # {}

\* DBStorage.GetReport: the most recent of the rows of test t.
RowFor(table, t) ==
  CHOOSE row \in Matching(table, t) :
    \A other \in Matching(table, t) : row.age =< other.age

\* The unique index on test_id: when an INSERT goes through.
\* Mutant: the index is not unique.
AlwaysInsertable(table, t) == TRUE
Insertable(table, t) == ~Exists(table, t)

\* DBStorage.CreateReport: the row of an INSERT, created now.
NewRow(t, raw, json) == [testID |-> t, raw |-> raw, json |-> json, age |-> 0]

Insert(table, t, raw, json) == table \cup {NewRow(t, raw, json)}

\* DBStorage.UpdateReport: only report_json changes, the other columns stay.
Rewrite(table, t, json) ==
  {IF row.testID = t THEN [row EXCEPT !.json = json] ELSE row : row \in table}

\* DBStorage.DeleteOldReports: WHERE created_at < now - retention.
\* Mutants: the bound is one unit late; the bound is reached.
MuchOlder(row, retention) == row.age > retention + 1
AsOld(row, retention) == row.age >= retention
Older(row, retention) == row.age > retention

DeleteOld(table, retention) == {row \in table : ~Older(row, retention)}
==============================================================================
