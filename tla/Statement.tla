------------------------------ MODULE Statement ------------------------------
(***************************************************************************)
(* What a Query (src/Database/mdz_db/query.cpp) and its three drivers      *)
(* (src/extras/mdz_db_mariadb, mdz_db_pgsql, mdz_db_sqlite3) do with the   *)
(* text of a statement, its parameters and its rows.                       *)
(*                                                                         *)
(* Parameters have names in the text (":a").  MariaDB and PostgreSQL take  *)
(* them by position, so the names are replaced, one at a time, and their   *)
(* order kept; SQLite binds them by name.  A name is found as a substring. *)
(*                                                                         *)
(* A row is a sequence of values: none is SQL's NULL and empty the empty   *)
(* text.  Of the types of variables those are kept apart that a driver     *)
(* treats differently.  The types are those of Memory::Abstract::Var:      *)
(* fixed for the numbers, text for the types made from a string.           *)
(***************************************************************************)
EXTENDS Naturals, Sequences, SequencesExt, FiniteSetsExt

CONSTANTS
  Drivers,   \* of "mariadb", "pgsql", "sqlite3"
  Names,     \* the names of parameters, sorted as std::map sorts them
  Blank,     \* the text between parameters
  Mark,      \* what a name is replaced by: ?, $0, $1...
  MaxTokens, \* bound of names in a text
  MaxRows    \* bound of rows

\* No name is empty, holds the text between names or begins with what it is replaced
\* by; a name that begins another one comes before it, as in any order of texts.
ASSUME StatementAssumption ==
  LET Letters == UNION {ToSet(Names[i]) : i \in DOMAIN Names}
  IN  /\ Drivers \subseteq {"mariadb", "pgsql", "sqlite3"} /\ MaxTokens \in Nat
      /\ Names \in Seq(Seq(Letters) \ {<<>>})
      /\ Blank \notin Letters
      /\ \A i \in DOMAIN Names : Names[i][1] # Mark
      /\ \A i, j \in DOMAIN Names : IsPrefix(Names[i], Names[j]) => i <= j

VARIABLES
  driver,
  tokens,    \* the text of the statement as it was written: names
  query,     \* the text as it is, a sequence of characters
  keysIn,    \* the places in Names of those not yet known to be absent
  keysByPos, \* the names by their position
  types,     \* of the two variables bound to the columns
  rows,      \* the rows of the result that were not read
  row,       \* the row that step gave last
  resultVars,
  isNull,
  got        \* what step answered last

svars == <<driver, tokens, query, keysIn, keysByPos, types, rows, row, resultVars, isNull, got>>

Types == {"fixed", "bool", "text", "bin", "varchar", "uint64"}
Values == {"none", "empty", "x"}
Columns == {1, 2}

-----------------------------------------------------------------------------
(* Names. *)

TextOf(ts) == FlattenSeq([i \in DOMAIN ts |-> ts[i] \o <<Blank>>])

\* std::string::find: where key begins in s.
Occurrences(s, key) ==
  {i \in 1..(Len(s) - Len(key) + 1) : SubSeq(s, i, i + Len(key) - 1) = key}
Find(s, key) == Min(Occurrences(s, key))

Present == {i \in keysIn : Occurrences(query, Names[i]) # {}}

\* (Mutant) The first in order.
FirstKeyStrict ==
  LET first == Min({Find(query, Names[i]) : i \in Present})
  IN  Names[Min({i \in Present : Find(query, Names[i]) = first})]

\* The first name of the text; of those that begin there, the last in order.
FirstKey ==
  LET first == Min({Find(query, Names[i]) : i \in Present})
  IN  Names[Max({i \in Present : Find(query, Names[i]) = first})]

\* postBindInputVars replaces names until none is left.  SQLite has its own.
ReplaceFirstKey ==
  /\ driver # "sqlite3"
  /\ Present # {}
  /\ LET key == FirstKey
         at == Find(query, key)
     IN  /\ query' = SubSeq(query, 1, at - 1) \o <<Mark>>
                       \o SubSeq(query, at + Len(key), Len(query))
         /\ keysByPos' = Append(keysByPos, key)
  /\ keysIn' = Present
  /\ UNCHANGED <<driver, tokens, types, rows, row, resultVars, isNull, got>>

-----------------------------------------------------------------------------
(* Parameters and columns. *)

\* What reaches the server of a variable that holds value: a VARCHAR goes with
\* its terminator to MariaDB, and with the rest of its buffer to SQLite.
BoundMariaDB(type, value) == IF type = "varchar" /\ value # "none" THEN "terminated" ELSE value
BoundSQLite3(type, value) == IF type = "varchar" /\ value # "none" THEN "padded" ELSE value
BoundPostgreSQL(type, value) == value

Bound(type, value) ==
  CASE driver = "mariadb" -> BoundMariaDB(type, value)
    [] driver = "sqlite3" -> BoundSQLite3(type, value)
    [] driver = "pgsql" -> BoundPostgreSQL(type, value)

\* Variables of type UINT64 make SQLite's driver throw; NULL is a type of its own.
Bindable(type) == ~(driver = "sqlite3" /\ type = "uint64")

\* A row is written with two variables of these types.
Insert(values) ==
  /\ tokens = <<>>
  /\ Len(rows) < MaxRows
  /\ \A c \in Columns : values[c] # "none" => Bindable(types[c])
  /\ rows' = Append(rows, [c \in Columns |-> Bound(types[c], values[c])])
  /\ UNCHANGED <<driver, tokens, query, keysIn, keysByPos, types, row, resultVars, isNull, got>>

\* What is left in a variable that held old, for a column of this value.  MariaDB's
\* driver asks for the size of a text first, and does not touch the variable when
\* it is zero; a boolean goes through a variable of its own, zero for NULL.
FetchedMariaDB(type, old, value) ==
  CASE type \in {"text", "bin"} /\ value \in {"none", "empty"} -> old
    [] type = "bool" /\ value = "none" -> "empty"
    [] value = "none" -> old
    [] OTHER -> value
FetchedPostgreSQL(type, old, value) == IF value = "none" THEN "empty" ELSE value
FetchedSQLite3(type, old, value) == IF value = "none" THEN old ELSE value

Fetched(type, old, value) ==
  CASE driver = "mariadb" -> FetchedMariaDB(type, old, value)
    [] driver = "sqlite3" -> FetchedSQLite3(type, old, value)
    [] driver = "pgsql" -> FetchedPostgreSQL(type, old, value)

\* Step0 on a row: each column in turn, and whether it was NULL.
Step0 ==
  /\ rows # <<>>
  /\ \A c \in Columns : Bindable(types[c]) \/ Head(rows)[c] = "none"
  /\ row' = Head(rows)
  /\ rows' = Tail(rows)
  /\ resultVars' = [c \in Columns |-> Fetched(types[c], resultVars[c], Head(rows)[c])]
  /\ got' = (driver # "pgsql")
  /\ UNCHANGED <<driver, tokens, query, keysIn, keysByPos, types>>

NullFlags == [c \in Columns |-> Head(rows)[c] = "none"]

\* (Mutant) The flags of the row before stay.
StepKeepsFlags == Step0 /\ isNull' = isNull \o NullFlags

\* step: the flags are those of the row.  PostgreSQL's driver fills the variables
\* and answers false.
Step == Step0 /\ isNull' = NullFlags

\* step when no row is left.
StepEnds ==
  /\ rows = <<>>
  /\ isNull' = <<>>
  /\ got' = FALSE
  /\ UNCHANGED <<driver, tokens, query, keysIn, keysByPos, types, rows, row, resultVars>>

\* A column that was not read counts as NULL.
getIsNull(column) == column > Len(isNull) \/ isNull[column]

-----------------------------------------------------------------------------
SInit ==
  /\ driver \in Drivers
  /\ \/ /\ tokens \in UNION {[1..n -> ToSet(Names)] : n \in 1..MaxTokens}
        /\ types = [c \in Columns |-> "fixed"]
     \/ tokens = <<>> /\ types \in [Columns -> Types]
  /\ query = TextOf(tokens)
  /\ keysIn = DOMAIN Names
  /\ keysByPos = <<>>
  /\ rows = <<>>
  /\ row = [c \in Columns |-> "none"]
  /\ resultVars = [c \in Columns |-> "old"]
  /\ isNull = <<>>
  /\ got = FALSE

SNext ==
  \/ ReplaceFirstKey
  \/ \E values \in [Columns -> Values] : Insert(values)
  \/ Step \/ StepEnds

-----------------------------------------------------------------------------
\* The positions of a statement are those of its names in the text, although a
\* name may begin another: nothing else tells the server which value is whose.
PositionsAreOfTheText ==
  driver # "sqlite3" =>
    /\ IsPrefix(keysByPos, tokens)
    /\ Present = {} => keysByPos = tokens

\* After step, a column that is not NULL is what its variable holds; except that
\* MariaDB's driver leaves the value of an earlier row where a text is empty.
ColumnsAreOfTheRow ==
  got => \A c \in Columns :
    /\ getIsNull(c) <=> row[c] = "none"
    /\ ~getIsNull(c) /\ ~(driver = "mariadb" /\ row[c] = "empty" /\ types[c] \in {"text", "bin"})
         => resultVars[c] = row[c]
===============================================================================
