----------------------------- MODULE Completion -----------------------------
(***************************************************************************)
(* What is offered at the cursor (src/src/analysis/completion.rs).  The      *)
(* statement at the cursor is mostly unfinished, so the context and the      *)
(* relations in scope are read off the tokens; only the query-local          *)
(* relations come from the statements that parse.                            *)
(*                                                                           *)
(* An author types a document, word by word, and asks for completions after  *)
(* each word, inside it, and anywhere in the finished draft.  The            *)
(* document is arbitrary; with each token it tells what SQL wants in its     *)
(* place, which is what the offers are compared with.  Names are compared    *)
(* without case, so a name is its folded form.                               *)
(***************************************************************************)
EXTENDS Naturals, Sequences, FiniteSets, SequencesExt

CONSTANTS
    Schema,       \* the relations of the index, each with its set of columns
    Keywords,     \* the words that the tokenizer takes for keywords
    Punctuation,  \* the other tokens that are no words
    Documents     \* what the author may have in mind: the tokens, and the
                  \* query-local relations of its statements

Starters  == {"FROM", "JOIN", "INTO", "UPDATE"}
Semicolon == ";"
Comma     == ","

(* What SQL wants in the place of a token: a relation after a starter or in a  *)
(* list, an alias of one, one of the columns of a relation, an expression.   *)
(* The relations are those it stands for, whose columns these are, or which  *)
(* the expression can be about.                                              *)
Tokens == [text : STRING,
           fits : {"table", "listed", "alias", "columns", "expression", "nothing"},
           of : SUBSET STRING]

(* A relation that a statement defines itself, and its last token.           *)
Locals == [name : STRING, columns : SUBSET STRING, statement : Nat, end : Nat]

ASSUME CompletionAssumption ==
    /\ Starters \cup {"AS", "TABLE"} \subseteq Keywords
    /\ {".", Comma, "(", ")", Semicolon} \subseteq Punctuation
    /\ Keywords \cap Punctuation = {}
    /\ Documents \subseteq [tokens : Seq(Tokens), locals : Seq(Locals)]

VARIABLES
    draft,      \* the document
    typed,      \* how many of its tokens have been typed
    parses,     \* whether the statement at the end of the text parses
    cursor,     \* the token that starts last before the cursor, and whether
                \* the cursor is inside or at the end of it
    asked,      \* whether completions have been asked for at the cursor
    offered     \* the completions that were offered then

completionVars == <<draft, typed, parses, cursor, asked, offered>>

Text(i)    == draft.tokens[i].text
IsWord(t)  == t \notin Punctuation
NoKeyword(t) == IsWord(t) /\ t \notin Keywords

(* Statements are told apart by semicolons.                                  *)
StatementOf(i) == 1 + Cardinality({j \in 1..(i - 1) : Text(j) = Semicolon})

Ended(s) == \A i \in DOMAIN draft.tokens : StatementOf(i) = s => i <= typed

(* The query-local relations of the statements that parse, in the order in   *)
(* which query_local_tables finds them.                                      *)
LocalTables ==
    {i \in DOMAIN draft.locals :
       LET l == draft.locals[i]
       IN  \/ Ended(l.statement)
           \/ l.statement = StatementOf(typed) /\ l.end <= typed /\ parses}
-----------------------------------------------------------------------------
(* Faulty variant: the statements before the cursor are not told apart.      *)
LocateAll ==
    [tokens |-> [i \in 1..typed |-> Text(i)], last |-> cursor.after]

(* Cursor::locate: the tokens between the semicolons around the cursor, and  *)
(* the last of them that starts before the cursor (0 if there is none).      *)
Locate ==
    LET semicolons == {i \in 1..typed : Text(i) = Semicolon}
        start == Max({0} \cup {i \in semicolons : i <= cursor.after})
        end   == Min({typed + 1} \cup {i \in semicolons : i > cursor.after})
    IN  [tokens |-> [i \in 1..(end - start - 1) |-> Text(start + i)],
         last   |-> cursor.after - start]

TouchesWord(located) ==
    located.last > 0 /\ IsWord(located.tokens[located.last]) /\ cursor.touching

Count(tokens, t, from, to) == Cardinality({i \in from..to : tokens[i] = t})

(* Faulty variant: the parentheses that have been closed are not skipped.    *)
AnyParen(tokens, index) == {i \in 1..index : tokens[i] = "("}

(* The opening parentheses that are not closed up to `index`, if those after *)
(* them are.                                                                 *)
OpenParen(tokens, index) ==
    {i \in 1..index : /\ tokens[i] = "("
                      /\ Count(tokens, "(", i + 1, index)
                           = Count(tokens, ")", i + 1, index)}

(* insert_column_list: the table of `INSERT INTO table (`, if that is the    *)
(* innermost parenthesis at `index`.                                         *)
InsertColumnList(tokens, index) ==
    LET open == OpenParen(tokens, index)
        i    == CHOOSE j \in open : \A k \in open : k <= j
    IN  IF /\ open # {}
           /\ i > 2
           /\ NoKeyword(tokens[i - 1])
           /\ tokens[i - 2] = "INTO"
        THEN {tokens[i - 1]} ELSE {}

General == [kind |-> "general", table |-> {}]

(* Cursor::context: the token before the word that is being typed decides.   *)
Context(located) ==
    LET tokens == located.tokens
        index  == IF TouchesWord(located) THEN located.last - 1 ELSE located.last
    IN  IF index = 0 THEN General
        ELSE IF tokens[index] = "."
        THEN IF index > 1 /\ IsWord(tokens[index - 1])
             THEN [kind |-> "columns", table |-> {tokens[index - 1]}]
             ELSE General
        ELSE IF tokens[index] \in Starters \cup {"TABLE"}
        THEN [kind |-> "tables", table |-> {}]
        ELSE IF InsertColumnList(tokens, index) # {}
        THEN [kind |-> "columns", table |-> InsertColumnList(tokens, index)]
        ELSE General

(* Cursor::scope: after each starter a list of `table [AS] [alias]`.         *)
TokenAt(tokens, i)  == IF i \in DOMAIN tokens THEN tokens[i] ELSE Semicolon
AliasAt(tokens, i)  == IF TokenAt(tokens, i + 1) = "AS" THEN i + 2 ELSE i + 1
HasAlias(tokens, i) == NoKeyword(TokenAt(tokens, AliasAt(tokens, i)))
EndAt(tokens, i)    == IF HasAlias(tokens, i) THEN AliasAt(tokens, i) + 1
                       ELSE AliasAt(tokens, i)

Tables(tokens) ==
    LET Follows(i, tables) == \/ tokens[i - 1] \in Starters
                              \/ /\ tokens[i - 1] = Comma
                                 /\ \E j \in tables : EndAt(tokens, j) = i - 1
        read[i \in 0..Len(tokens)] ==
            IF i = 0 THEN {}
            ELSE IF i > 1 /\ NoKeyword(tokens[i]) /\ Follows(i, read[i - 1])
            THEN read[i - 1] \cup {i}
            ELSE read[i - 1]
    IN  read[Len(tokens)]

(* Tables and aliases: where they are, their names, and the tables.          *)
Bindings(tokens) ==
    {<<i, tokens[i], tokens[i]>> : i \in Tables(tokens)}
    \cup {<<AliasAt(tokens, i), tokens[AliasAt(tokens, i)], tokens[i]>> :
            i \in {j \in Tables(tokens) : HasAlias(tokens, j)}}

(* The last one of a name counts.                                            *)
Scope(tokens) ==
    LET bindings  == Bindings(tokens)
        Newest(n) == CHOOSE b \in bindings :
                       b[2] = n /\ \A c \in bindings : c[2] = n => c[1] <= b[1]
    IN  [n \in {b[2] : b \in bindings} |-> Newest(n)[3]]
-----------------------------------------------------------------------------
Indexed(n) == IF n \in DOMAIN Schema THEN {Schema[n]} ELSE {}

(* resolve_table: the first query-local relation, what the scope leads to in *)
(* the schema, the relation of the schema: its columns, if it is found.      *)
ResolveTable(n, scope) ==
    LET own == {i \in LocalTables : draft.locals[i].name = n}
        via == IF n \in DOMAIN scope THEN Indexed(scope[n]) ELSE {}
    IN  IF own # {} THEN {draft.locals[Min(own)].columns}
        ELSE IF via # {} THEN via
        ELSE Indexed(n)

Items(kind, names) == [kind : {kind}, name : names]

(* The keywords and functions are one item, as they are offered together.    *)
Words == [kind |-> "word", name |-> "keywords"]

ColumnsOf(n, scope) == Items("column", UNION ResolveTable(n, scope))
LocalItems  == Items("relation", {draft.locals[i].name : i \in LocalTables})
SchemaItems == Items("relation", DOMAIN Schema)

(* Faulty variant: the names in scope are offered for its relations.         *)
InScopeByName(scope) ==
    Items("relation", DOMAIN scope)
    \cup UNION {ColumnsOf(n, scope) : n \in DOMAIN scope}

InScope(scope) ==
    UNION {ColumnsOf(scope[n], scope) : n \in DOMAIN scope}

Completions ==
    LET located == Locate
        scope   == Scope(located.tokens)
        context == Context(located)
    IN  CASE context.kind = "tables"  -> LocalItems \cup SchemaItems
          [] context.kind = "columns" ->
               UNION {ColumnsOf(n, scope) : n \in context.table}
          [] context.kind = "general" ->
               InScope(scope) \cup SchemaItems \cup {Words}
-----------------------------------------------------------------------------
CompletionInit ==
    /\ draft \in Documents
    /\ typed = 0
    /\ parses \in BOOLEAN
    /\ cursor = [after |-> 0, touching |-> FALSE]
    /\ asked = FALSE
    /\ offered = {}

(* The author types the next token and is at the end of it.                  *)
Type ==
    /\ typed < Len(draft.tokens)
    /\ typed' = typed + 1
    /\ parses' \in BOOLEAN
    /\ cursor' = [after |-> typed', touching |-> TRUE]
    /\ asked' = FALSE
    /\ offered' = {}
    /\ UNCHANGED draft

(* The author types a space, or goes back into the finished draft.           *)
Move ==
    /\ cursor' \in IF typed = Len(draft.tokens)
                   THEN [after : 1..typed, touching : BOOLEAN]
                   ELSE {[after |-> typed, touching |-> FALSE]}
    /\ cursor' # cursor
    /\ asked' = FALSE
    /\ offered' = {}
    /\ UNCHANGED <<draft, typed, parses>>

(* The completion request.                                                   *)
Complete ==
    /\ ~asked
    /\ asked' = TRUE
    /\ offered' = Completions
    /\ UNCHANGED <<draft, typed, parses, cursor>>

CompletionNext == Type \/ Move \/ Complete

CompletionSpec == CompletionInit /\ [][CompletionNext]_completionVars
-----------------------------------------------------------------------------
(* What SQL wants where the cursor is.                                       *)
Slot == IF cursor.touching /\ cursor.after > 0 /\ IsWord(Text(cursor.after))
        THEN cursor.after ELSE cursor.after + 1

Wants(fits) == /\ Slot \in DOMAIN draft.tokens
               /\ draft.tokens[Slot].fits = fits

OwnLocals == {i \in DOMAIN draft.locals :
                draft.locals[i].statement = StatementOf(Slot)}
OwnTables == OwnLocals \cap LocalTables
NamesOf(locals) == {draft.locals[i].name : i \in locals}

(* The columns of a relation in the statement at the cursor, if they can be  *)
(* known: those of a query-local one only while its statement parses.        *)
Columns(n) ==
    IF n \in NamesOf(OwnLocals)
    THEN UNION {draft.locals[i].columns : i \in {j \in OwnTables : draft.locals[j].name = n}}
    ELSE Schema[n]

Relations == draft.tokens[Slot].of

(* No semicolon stands between two places of a document.                     *)
SameStatement(d, i, j) ==
    \A k \in i..(j - 1) \cup j..(i - 1) : d.tokens[k].text # Semicolon

Namings(d) == {i \in DOMAIN d.tokens : d.tokens[i].fits \in {"table", "listed"}}

(* The relations that are named in the text so far, in the statement.        *)
Named == {n \in Relations :
            \E i \in Namings(draft) :
               i <= typed /\ Text(i) = n /\ SameStatement(draft, i, Slot)}

(* What is offered is there: relations of the schema and of the statements,  *)
(* columns of theirs, and the words of SQL; never an alias (completion.rs,   *)
(* Cursor::scope: "aliases map to their table, tables map to themselves").   *)
OffersAreKnown ==
    /\ typed \in 0..Len(draft.tokens)
    /\ cursor.after \in 0..typed
    /\ asked \in BOOLEAN
    /\ offered \subseteq {Words} \cup LocalItems \cup SchemaItems \cup
           Items("column", UNION ({Schema[n] : n \in DOMAIN Schema} \cup
                                  {draft.locals[i].columns : i \in DOMAIN draft.locals}))

(* Where a relation is to be named after a keyword, just the relations are   *)
(* offered; after a qualifier just the columns of what it stands for, and in *)
(* the column list of an INSERT just those of its table, whatever is around  *)
(* the cursor and however much of the statement is there (completion.rs,     *)
(* Cursor::locate: "track only the statement containing the cursor so scope  *)
(* scanning stays local"; completions: "nothing else is valid in an INSERT   *)
(* column list").                                                            *)
OffersJustWhatFits ==
    asked =>
        /\ Wants("table") => offered = SchemaItems \cup
               Items("relation", NamesOf(OwnTables))
        /\ Wants("columns") /\ Named = Relations =>
               offered = Items("column", UNION {Columns(n) : n \in Relations})

(* Where an expression is to be typed, the columns of every relation that its  *)
(* query has named are among the offers, and so are the relations themselves;  *)
(* those of a list are too (completion.rs, Context::InsertColumns: "A VALUES *)
(* (...) or subquery parenthesis is someone else's context"; Cursor::scope:  *)
(* "every FROM/JOIN/INTO/UPDATE target with its optional alias, including    *)
(* comma-separated FROM lists").                                             *)
OffersAllInScope ==
    asked =>
        /\ Wants("expression") =>
               SchemaItems \cup Items("column", UNION {Columns(n) : n \in Named})
                   \subseteq offered
        /\ Wants("listed") => SchemaItems \subseteq offered
-----------------------------------------------------------------------------
(* What is assumed of a document to prove this.  The words after a starter,  *)
(* and after a comma behind a relation or its alias, name relations; those   *)
(* behind a relation are aliases of it.                                      *)
RangesAreDeclared(d) ==
    LET TextAt(i) == IF i \in DOMAIN d.tokens THEN d.tokens[i].text ELSE Semicolon
        aliases  == {i \in DOMAIN d.tokens : d.tokens[i].fits = "alias"}
    IN  \A i \in DOMAIN d.tokens :
          LET listed == TextAt(i - 1) = Comma /\ i - 2 \in Namings(d) \cup aliases
              behind == {j \in Namings(d) :
                           \/ j = i - 1
                           \/ j = i - 2 /\ TextAt(i - 1) = "AS"}
          IN  /\ d.tokens[i].fits = "table" <=>
                     NoKeyword(TextAt(i)) /\ TextAt(i - 1) \in Starters
              /\ d.tokens[i].fits = "listed" <=> NoKeyword(TextAt(i)) /\ listed
              /\ i \in aliases <=> NoKeyword(TextAt(i)) /\ behind # {}
              /\ i \in Namings(d) => d.tokens[i].of = {TextAt(i)}
              /\ i \in aliases => \A j \in behind : d.tokens[i].of = {TextAt(j)}
              /\ TextAt(i) = "AS" /\ i - 1 \in Namings(d) => i + 1 \in aliases

Declarations(d) ==
    {i \in DOMAIN d.tokens : d.tokens[i].fits \in {"table", "listed", "alias"}}

(* A name means one relation throughout a statement.  It is of the schema or *)
(* the only local one of its name in the only statement, with no alias.      *)
NamesAreUnambiguous(d) ==
    LET locals == {d.locals[k].name : k \in DOMAIN d.locals}
    IN  /\ \A i, j \in Declarations(d) :
             SameStatement(d, i, j) /\ d.tokens[i].text = d.tokens[j].text =>
                 d.tokens[i].of = d.tokens[j].of
        /\ \A i \in Declarations(d) :
             IF d.tokens[i].text \in locals THEN i \in Namings(d)
             ELSE d.tokens[i].of \subseteq DOMAIN Schema
        /\ locals \cap DOMAIN Schema = {}
        /\ \A k, l \in DOMAIN d.locals : d.locals[k].name = d.locals[l].name => k = l
        /\ \A k \in DOMAIN d.locals :
             /\ d.locals[k].statement = 1
             /\ \A i \in DOMAIN d.tokens : d.tokens[i].text # Semicolon

(* The column list of an INSERT holds no parentheses; `k` is where one opens,   *)
(* and it is still open before `i`, or closed.                               *)
ColumnListAt(d, k) ==
    /\ {k - 2, k - 1, k} \subseteq DOMAIN d.tokens
    /\ d.tokens[k].text = "("
    /\ NoKeyword(d.tokens[k - 1].text)
    /\ d.tokens[k - 2].text = "INTO"

NoParenthesis(d, i, j) == \A m \in i..j : d.tokens[m].text \notin {"(", ")"}

ListClosed(d, k, i) ==
    \E m \in (k + 1)..(i - 1) : d.tokens[m].text = ")" /\ NoParenthesis(d, k + 1, m - 1)

(* The columns of a relation are wanted behind a name that means it, which is   *)
(* declared before unless the relation itself is only named later, and in a  *)
(* column list; expressions and further relations of a list elsewhere.       *)
Qualified(d, i) ==
    /\ i > 2
    /\ d.tokens[i - 1].text = "."
    /\ \E j \in Declarations(d) :
         /\ SameStatement(d, j, i)
         /\ d.tokens[j].text = d.tokens[i - 2].text
         /\ d.tokens[j].of = d.tokens[i].of
         /\ \/ j < i
            \/ \A n \in Namings(d) :
                 d.tokens[n].of = d.tokens[i].of /\ SameStatement(d, n, i) => n > i

InColumnList(d, i) ==
    /\ d.tokens[i - 1].text \in {"(", Comma}
    /\ \E k \in 1..(i - 1) :
         /\ ColumnListAt(d, k)
         /\ SameStatement(d, k, i)
         /\ d.tokens[k - 1].of = d.tokens[i].of
         /\ NoParenthesis(d, k + 1, i - 1)

OutsideColumnLists(d, i) ==
    /\ i > 1 => d.tokens[i - 1].text \notin {".", "TABLE"} \cup Starters
    /\ \A k \in 1..(i - 1) :
         ColumnListAt(d, k) /\ SameStatement(d, k, i) => ListClosed(d, k, i)

WantsAreInPlace(d) ==
    \A i \in DOMAIN d.tokens :
       /\ d.tokens[i].fits = "columns" => Qualified(d, i) \/ InColumnList(d, i)
       /\ d.tokens[i].fits \in {"listed", "expression"} => OutsideColumnLists(d, i)

Annotated(d) == RangesAreDeclared(d) /\ NamesAreUnambiguous(d) /\ WantsAreInPlace(d)
=============================================================================
