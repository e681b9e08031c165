---------------------------- MODULE OpenDocuments ----------------------------
(***************************************************************************)
(* One open document between the client and the server (src/src/document.rs, *)
(* src/src/server.rs, src/src/analysis/semantic_tokens.rs,                   *)
(* src/src/embedded.rs): the client edits its buffer and sends incremental   *)
(* changes in positions; the server keeps the text, the analyses of it, and  *)
(* the token stream it sent last; requests for tokens, whole, as a delta or   *)
(* of a range, and for completions at a caret cross the changes and each      *)
(* other.                                                                   *)
(*                                                                          *)
(* A text is a sequence of characters: "a" is one byte and one UTF-16 unit,  *)
(* "w" four bytes and two units; both are part of words.  "n" is the end of a *)
(* line.  "q" delimits a literal, which may span lines; in a Rust source the  *)
(* literals are the embedded queries.  Which words there are is all that a   *)
(* parse tells here, and that their class depends on the dialect.           *)
(***************************************************************************)
EXTENDS Integers, FiniteSets, Sequences, SequencesExt, FiniteSetsExt

CONSTANTS
    Encodings,     \* what sessions may negotiate, of {"utf8", "utf16"}
    Kinds,         \* backends
    Extension,     \* the language that the file's name tells
    Contents,      \* texts to open
    Inserts,       \* texts to insert
    None,
    Unannounced,   \* whether the client may forget to open the document
    Budgets,       \* how often things may happen in a session
    MaxBatch, MaxChannel

Chars     == {"a", "w", "n", "q"}
Languages == {"sql", "rust"}
Bounded   == {"edits", "opens", "streams", "ranges", "words", "reloads"}

Positions == [line : Nat, character : Nat]
Ranges    == [start : Positions, end : Positions]

ASSUME DocumentAssumption ==
    /\ Encodings \subseteq {"utf8", "utf16"} /\ Encodings # {}
    /\ Kinds # {} /\ "literal" \notin Kinds
    /\ Extension \in Languages
    /\ Contents \subseteq Seq(Chars)
    /\ Inserts \subseteq Seq(Chars)
    /\ Unannounced \in BOOLEAN
    /\ Budgets \subseteq [Bounded -> Nat]
    /\ {MaxBatch, MaxChannel} \subseteq Nat
    /\ None \notin Seq(Chars) \cup Ranges \cup Kinds \cup {"literal"}

VARIABLES
    budget,     \* what is left of the bounds
    encoding,   \* UTF8_POSITIONS, fixed at initialize
    kind,       \* the backend of the context that serves the document
    \* the client
    buffer,     \* its text, or None
    batch,      \* the changes it has not sent
    opens,      \* how often it has opened the document
    shown,      \* the token stream it shows
    part,       \* the answer to a range or completion request
    channel,    \* the messages on their way, with what the client meant
    \* the server
    open,       \* its OpenDocument, or None
    nextTokensId,
    meant       \* the client's buffer at the last notification handled

client == <<buffer, batch, opens>>
server == <<open, nextTokensId, meant>>
vars   == <<budget, encoding, kind, client, shown, part, channel, server>>
-----------------------------------------------------------------------------
(* Measures of a text.                                                       *)
Utf8(c)  == IF c = "w" THEN 4 ELSE 1
Utf16(c) == IF c = "w" THEN 2 ELSE 1

EncodedLen(e, c) == IF e = "utf8" THEN Utf8(c) ELSE Utf16(c)

Measure(e, s) ==
    LET sum[i \in 0..Len(s)] == IF i = 0 THEN 0 ELSE sum[i - 1] + EncodedLen(e, s[i])
    IN  sum[Len(s)]

Bytes(s) == Measure("utf8", s)
Units(s) == Measure(encoding, s)

Before(s, i) == SubSeq(s, 1, i)

(* The character boundary at a byte offset.  A slice at any other panics.     *)
IndexAt(s, byte) == CHOOSE i \in 0..Len(s) : Bytes(Before(s, i)) = byte

Slice(s, from, to) == SubSeq(s, IndexAt(s, from) + 1, IndexAt(s, to))

Boundaries(s) == {Bytes(Before(s, i)) : i \in 0..Len(s)}
-----------------------------------------------------------------------------
(* The client: carets between characters, and their positions.               *)
LinesBefore(s, i) == Cardinality({j \in 1..i : s[j] = "n"})
LineStart(s, i)   == Max({0} \cup {j \in 1..i : s[j] = "n"})

Position(line, character) == [line |-> line, character |-> character]

CaretPosition(s, i) ==
    Position(LinesBefore(s, i), Units(SubSeq(s, LineStart(s, i) + 1, i)))

AtLineEnd(s, i) == i = Len(s) \/ s[i + 1] = "n"

(* A caret at the end of a line is also meant by a character past it, one at  *)
(* the end of the text by a line past it.                                   *)
PositionsOf(s, i) ==
    LET p == CaretPosition(s, i)
    IN  {p} \cup (IF AtLineEnd(s, i) THEN {[p EXCEPT !.character = @ + 3]} ELSE {})
            \cup (IF i = Len(s) THEN {Position(p.line + 1, 0)} ELSE {})

Replaced(s, from, to, new) == Before(s, from) \o new \o SubSeq(s, to + 1, Len(s))
-----------------------------------------------------------------------------
(* Document.                                                                 *)
(* Faulty variant: the first line is forgotten.                              *)
ComputeLineStartsAfterBreaks(s) ==
    LET starts[i \in 0..Len(s)] ==
          IF i = 0 THEN <<>>
          ELSE IF s[i] = "n" THEN Append(starts[i - 1], Bytes(Before(s, i)))
          ELSE starts[i - 1]
    IN  starts[Len(s)]

ComputeLineStarts(s) ==
    LET starts[i \in 0..Len(s)] ==
          IF i = 0 THEN <<0>>
          ELSE IF s[i] = "n" THEN Append(starts[i - 1], Bytes(Before(s, i)))
          ELSE starts[i - 1]
    IN  starts[Len(s)]

NewDocument(s) == [text |-> s, lineStarts |-> ComputeLineStarts(s)]

LineSpan(d, line) ==
    [start |-> d.lineStarts[line + 1],
     end |-> IF line + 2 \in DOMAIN d.lineStarts THEN d.lineStarts[line + 2] - 1
                                                ELSE Bytes(d.text)]

LineText(d, line) == LET span == LineSpan(d, line) IN Slice(d.text, span.start, span.end)

(* Faulty variant: characters are counted, not the units of the encoding.     *)
OffsetAtByCharacters(d, position) ==
    IF position.line + 1 \notin DOMAIN d.lineStarts THEN Bytes(d.text)
    ELSE LET span == LineSpan(d, position.line)
         IN  Min({b \in Boundaries(d.text) :
                    /\ span.start <= b /\ b <= span.end
                    /\ \/ b = span.end
                       \/ Len(Slice(d.text, span.start, b)) >= position.character})

OffsetAt(d, position) ==
    IF position.line + 1 \notin DOMAIN d.lineStarts THEN Bytes(d.text)
    ELSE LET span == LineSpan(d, position.line)
         IN  Min({b \in Boundaries(d.text) :
                    /\ span.start <= b /\ b <= span.end
                    /\ \/ b = span.end
                       \/ Units(Slice(d.text, span.start, b)) >= position.character})

(* partition_point(start <= offset) - 1                                      *)
LineOf(d, offset) == Cardinality({i \in DOMAIN d.lineStarts : d.lineStarts[i] <= offset}) - 1

PositionAt(d, offset) ==
    LET line == LineOf(d, offset)
    IN  Position(line, Units(Slice(d.text, d.lineStarts[line + 1], offset)))

BytePoint(d, offset) ==
    LET row == LineOf(d, offset)
    IN  [row |-> row, column |-> offset - d.lineStarts[row + 1]]

(* Of a location of the parser, whose lines and columns count from 1 and in    *)
(* characters.                                                              *)
PositionOf(d, location) ==
    Position(location.line - 1,
             Units(Before(LineText(d, location.line - 1), location.column - 1)))

RangeOf(d, span) == [start |-> PositionOf(d, span.start),
                     end |-> PositionOf(d, span.end)]

LineLen(d, line) == Units(LineText(d, line))

(* Faulty variant: both ends are measured in the new text.                    *)
ApplyChangeAndMeasure(d, range, new) ==
    LET startByte  == OffsetAt(d, range.start)
        oldEndByte == Max({OffsetAt(d, range.end), startByte})
        changed    == NewDocument(Slice(d.text, 0, startByte) \o new
                                  \o Slice(d.text, oldEndByte, Bytes(d.text)))
        newEndByte == startByte + Bytes(new)
    IN  [document |-> changed,
         edit |-> [startByte |-> startByte, oldEndByte |-> oldEndByte,
                   newEndByte |-> newEndByte,
                   oldEndPoint |-> BytePoint(changed, oldEndByte),
                   newEndPoint |-> BytePoint(changed, newEndByte)]]

ApplyChange(d, range, new) ==
    LET startByte  == OffsetAt(d, range.start)
        oldEndByte == Max({OffsetAt(d, range.end), startByte})
        changed    == NewDocument(Slice(d.text, 0, startByte) \o new
                                  \o Slice(d.text, oldEndByte, Bytes(d.text)))
        newEndByte == startByte + Bytes(new)
    IN  [document |-> changed,
         edit |-> [startByte |-> startByte, oldEndByte |-> oldEndByte,
                   newEndByte |-> newEndByte,
                   oldEndPoint |-> BytePoint(d, oldEndByte),
                   newEndPoint |-> BytePoint(changed, newEndByte)]]
-----------------------------------------------------------------------------
(* What the parsers see.                                                     *)
Word(c) == c \in {"a", "w"}

Quotes(s) == {i \in DOMAIN s : s[i] = "q"}
NextQuote(s, i) == CHOOSE j \in Quotes(s) : i < j /\ \A k \in Quotes(s) : k <= i \/ j <= k

Literals(s) ==
    {<<i, NextQuote(s, i)>> :
       i \in {j \in Quotes(s) : /\ Cardinality(Quotes(Before(s, j))) % 2 = 1
                                /\ \E k \in Quotes(s) : j < k}}

(* A literal without an end takes what follows it along.                     *)
ClassAt(s, k, i) ==
    IF \E l \in Literals(s) : l[1] <= i /\ i <= l[2] THEN "literal"
    ELSE IF Word(s[i]) /\ Cardinality(Quotes(Before(s, i))) % 2 = 0 THEN k
    ELSE None

(* The tokens of a text: from and to are carets.                             *)
Runs(s, class(_)) ==
    {r \in {[from |-> i - 1, to |-> j, class |-> class(i)] :
              i \in DOMAIN s, j \in DOMAIN s} :
       /\ r.from < r.to
       /\ r.class # None
       /\ \A m \in r.from + 1 .. r.to : class(m) = r.class
       /\ r.from = 0 \/ class(r.from) # r.class
       /\ r.to = Len(s) \/ class(r.to + 1) # r.class}

Location(s, i) == [line |-> LinesBefore(s, i) + 1, column |-> i - LineStart(s, i) + 1]

(* ParsedSql::parse, as far as the tokens go.                                *)
Parse(k, s) ==
    LET Class(i) == ClassAt(s, k, i)
    IN  {[start |-> Location(s, r.from), end |-> Location(s, r.to), class |-> r.class] :
           r \in Runs(s, Class)}

(* The leaves of a syntax tree.                                              *)
Nodes(d) == {[byte |-> b, point |-> BytePoint(d, b), char |-> d.text[IndexAt(d.text, b) + 1]] :
               b \in Boundaries(d.text) \ {Bytes(d.text)}}

(* tree_sitter::Tree::edit: what was replaced will be parsed anew, what comes  *)
(* after it moves.                                                          *)
TreeEdit(tree, e) ==
    {n \in tree : n.byte + Utf8(n.char) <= e.startByte}
      \cup
    {[byte  |-> n.byte - e.oldEndByte + e.newEndByte,
      point |-> [row    |-> n.point.row - e.oldEndPoint.row + e.newEndPoint.row,
                 column |-> IF n.point.row = e.oldEndPoint.row
                            THEN n.point.column - e.oldEndPoint.column + e.newEndPoint.column
                            ELSE n.point.column],
      char  |-> n.char] :
       n \in {m \in tree : m.byte >= e.oldEndByte}}

ParseRust(d, previous) ==
    LET kept == IF previous = None THEN {} ELSE previous
    IN  kept \cup {n \in Nodes(d) : \A m \in kept : m.byte # n.byte}

(* region_from_macro: what is between the delimiters at two offsets.  One       *)
(* without a content is skipped.                                            *)
RegionFromMacro(d, opening, closing) ==
    IF closing = opening + 1 THEN {}
    ELSE {[text  |-> Slice(d.text, opening + 1, closing),
           start |-> PositionAt(d, opening + 1),
           end   |-> PositionAt(d, closing)]}

(* EmbeddedSql::extract_with: the regions of the literals that the tree shows. *)
Extract(d, tree) ==
    LET quotes  == {n.byte : n \in {m \in tree : m.char = "q"}}
        opening == {b \in quotes : /\ Cardinality({c \in quotes : c < b}) % 2 = 0
                                   /\ \E c \in quotes : b < c}
    IN  UNION {RegionFromMacro(d, b, Min({c \in quotes : b < c})) : b \in opening}

NotAfter(p, q) == p.line < q.line \/ (p.line = q.line /\ p.character <= q.character)

(* SqlRegion::contains, to_embedded and to_host: only the first line of a      *)
(* region does not begin where the line begins.                              *)
InRegion(region, position) ==
    NotAfter(region.start, position) /\ NotAfter(position, region.end)

ToEmbedded(region, position) ==
    Position(position.line - region.start.line,
             position.character - (IF position.line = region.start.line
                                   THEN region.start.character ELSE 0))

(* Faulty variant: every line does.                                          *)
ToHostEachLine(region, position) ==
    Position(position.line + region.start.line,
             position.character + region.start.character)

ToHost(region, position) ==
    Position(position.line + region.start.line,
             position.character + (IF position.line = 0
                                   THEN region.start.character ELSE 0))
-----------------------------------------------------------------------------
(* Semantic tokens.                                                          *)
(* segments: one for each line of a token.                                   *)
Segments(d, tokens) ==
    LET OfLine(t, line) ==
          LET from == PositionOf(d, t.start)
              to   == PositionOf(d, t.end)
              start == IF line = from.line THEN from.character ELSE 0
              end   == IF line = to.line THEN to.character ELSE LineLen(d, line)
          IN  [line |-> line, start |-> start, length |-> end - start, class |-> t.class]
    IN  {g \in UNION {{OfLine(t, line) : line \in (t.start.line - 1)..(t.end.line - 1)} :
                        t \in tokens} : g.length > 0}

(* embedded_token_segments: those of the regions, where they are in the host.  *)
RegionSegments(regions, k) ==
    UNION {{[g EXCEPT !.line = @ + r.start.line,
                      !.start = IF g.line = 0 THEN @ + r.start.character ELSE @] :
              g \in Segments(NewDocument(r.text), Parse(k, r.text))} : r \in regions}

Precedes(g, h) == g.line < h.line \/ (g.line = h.line /\ g.start < h.start)

(* In the order of their places, of which no two are the same.               *)
Encode(segments) ==
    LET sorted == [i \in 1..Cardinality(segments) |->
                     CHOOSE g \in segments :
                       Cardinality({h \in segments : Precedes(h, g)}) = i - 1]
        Line(i)  == IF i = 0 THEN 0 ELSE sorted[i].line
        Start(i) == IF i = 0 THEN 0 ELSE sorted[i].start
    IN  [i \in DOMAIN sorted |->
           [deltaLine  |-> Line(i) - Line(i - 1),
            deltaStart |-> IF Line(i) = Line(i - 1) THEN Start(i) - Start(i - 1)
                                                    ELSE Start(i),
            length |-> sorted[i].length, class |-> sorted[i].class]]

(* The longest common prefix, and suffix of what is left.  Positions in the    *)
(* stream count the five integers of a token.                               *)
TokenEdit(previous, current) ==
    LET Common(s, t) == Max({n \in 0..Min({Len(s), Len(t)}) :
                               Before(s, n) = Before(t, n)})
        prefix == Common(previous, current)
        suffix == Common(Reverse(SubSeq(previous, prefix + 1, Len(previous))),
                         Reverse(SubSeq(current, prefix + 1, Len(current))))
    IN  [start |-> 5 * prefix,
         deleteCount |-> 5 * (Len(previous) - prefix - suffix),
         data |-> SubSeq(current, prefix + 1, Len(current) - suffix)]

(* Faulty variant: a token that begins before the range is left out.          *)
InRangeByStart(g, range) ==
    /\ \/ g.line > range.start.line
       \/ g.line = range.start.line /\ g.start >= range.start.character
    /\ \/ g.line < range.end.line
       \/ g.line = range.end.line /\ g.start < range.end.character

(* semantic_tokens_range, segments.retain                                    *)
InRange(g, range) ==
    /\ \/ g.line > range.start.line
       \/ g.line = range.start.line /\ g.start + g.length > range.start.character
    /\ \/ g.line < range.end.line
       \/ g.line = range.end.line /\ g.start < range.end.character
-----------------------------------------------------------------------------
(* OpenDocument.                                                             *)
NewOpenDocument(s, language) ==
    [document |-> NewDocument(s), language |-> language,
     parsedSql |-> None, extracted |-> None, tree |-> None, lastTokens |-> None]

ApplyContentChange(o, change) ==
    IF change.range = None
    THEN [o EXCEPT !.document = NewDocument(change.text), !.tree = None]
    ELSE LET applied == ApplyChange(o.document, change.range, change.text)
         IN  [o EXCEPT !.document = applied.document,
                       !.tree = IF @ = None THEN None ELSE TreeEdit(@, applied.edit)]

(* One after another.                                                        *)
ApplyContentChanges(o, changes) ==
    LET after[i \in 0..Len(changes)] ==
          IF i = 0 THEN o ELSE ApplyContentChange(after[i - 1], changes[i])
    IN  after[Len(changes)]

(* Faulty variant: the regions of a Rust source are kept.                     *)
InvalidateParse(o) == [o EXCEPT !.parsedSql = None]

Invalidate(o) == [o EXCEPT !.parsedSql = None, !.extracted = None]

(* OpenDocument::parsed and extracted: computed unless they are there.         *)
Analysed(o) ==
    IF o.language = "sql"
    THEN IF o.parsedSql # None /\ o.parsedSql.kind = kind THEN o
         ELSE [o EXCEPT !.parsedSql =
                 [kind |-> kind, tokens |-> Parse(kind, o.document.text)]]
    ELSE IF o.extracted # None THEN o
         ELSE LET tree == ParseRust(o.document, o.tree)
              IN  [o EXCEPT !.tree = tree, !.extracted = Extract(o.document, tree)]

SegmentsOf(o) ==
    IF o.language = "sql" THEN Segments(o.document, Analysed(o).parsedSql.tokens)
    ELSE RegionSegments(Analysed(o).extracted, kind)

(* ServerState::compute_tokens                                               *)
ComputeTokens(o) == Encode(SegmentsOf(o))

(* Cursor::word_range: the last token that starts before the position, if it   *)
(* is a word and does not end before.                                        *)
WordRange(d, tokens, position) ==
    LET before == {t \in tokens : ~NotAfter(position, RangeOf(d, t).start)}
    IN  {RangeOf(d, t) :
           t \in {u \in before : /\ \A v \in before : NotAfter(RangeOf(d, v).start,
                                                           RangeOf(d, u).start)
                                 /\ u.class # "literal"
                                 /\ NotAfter(position, RangeOf(d, u).end)}}

(* What accepting a completion replaces: that word, or nothing.               *)
AcceptEdit(d, tokens, position) ==
    LET word == WordRange(d, tokens, position)
    IN  IF word = {} THEN [start |-> position, end |-> position]
        ELSE CHOOSE range \in word : TRUE

(* The ranges of the edits in the offers, of which there are some; in a Rust   *)
(* source only within a region.                                              *)
CompletionEdits(o, position) ==
    IF o.language = "sql"
    THEN {AcceptEdit(o.document, Analysed(o).parsedSql.tokens, position)}
    ELSE {LET edit == AcceptEdit(NewDocument(r.text), Parse(kind, r.text),
                                 ToEmbedded(r, position))
          IN  [start |-> ToHost(r, edit.start), end |-> ToHost(r, edit.end)] :
            r \in {s \in Analysed(o).extracted : InRegion(s, position)}}

RememberTokens(o, data) ==
    /\ open' = [Analysed(o) EXCEPT !.lastTokens = [id |-> nextTokensId, data |-> data]]
    /\ nextTokensId' = nextTokensId + 1
-----------------------------------------------------------------------------
Points       == [row : Int, column : Int]
Changes      == [range : Ranges \cup {None}, text : Seq(Chars)]
TokenClasses == Kinds \cup {"literal"}
Tokens       == [deltaLine : Nat, deltaStart : Nat, length : Nat, class : TokenClasses]
Streams      == [id : Nat, data : Seq(Tokens)]
Locations    == [line : Nat \ {0}, column : Nat \ {0}]

Fields == {"document", "language", "parsedSql", "extracted", "tree", "lastTokens"}

IsOpenDocument(o) ==
    /\ DOMAIN o = Fields
    /\ o.document.text \in Seq(Chars)
    /\ o.document.lineStarts \in Seq(Nat)
    /\ o.document.lineStarts # <<>> /\ Head(o.document.lineStarts) = 0
    /\ o.language \in Languages
    /\ o.parsedSql # None =>
         /\ o.parsedSql.kind \in Kinds
         /\ o.parsedSql.tokens \subseteq [start : Locations, end : Locations,
                                         class : TokenClasses]
    /\ o.extracted # None => o.extracted \subseteq [text : Seq(Chars), start : Positions,
                                            end : Positions]
    /\ o.tree # None => o.tree \subseteq [byte : Nat, point : Points, char : Chars]
    /\ o.lastTokens \in Streams \cup {None}

Requests == {"full", "delta", "range", "completion"}

(* What an answer is about is kept with it, for the properties only.          *)
About == [text : Seq(Chars), language : Languages, kind : Kinds]

TypeOK ==
    /\ budget \in [Bounded -> Nat]
    /\ encoding \in Encodings
    /\ kind \in Kinds
    /\ buffer \in Seq(Chars) \cup {None}
    /\ batch \in Seq(Changes)
    /\ {opens, nextTokensId} \subseteq Nat
    /\ shown \in [id : Nat, data : Seq(Tokens), about : About] \cup {None}
    /\ part # None =>
         /\ part.about \in About
         /\ \/ /\ "range" \in DOMAIN part
               /\ part.range \in Ranges /\ part.data \in Seq(Tokens)
            \/ /\ "caret" \in DOMAIN part
               /\ part.caret \in Nat /\ part.edits \subseteq Ranges
    /\ \A i \in DOMAIN channel :
         channel[i].type \in {"open", "change", "close"} \cup Requests
    /\ open # None => IsOpenDocument(open)
    /\ meant \in Seq(Chars) \cup {None}

Init ==
    /\ budget \in Budgets
    /\ encoding \in Encodings
    /\ kind \in Kinds
    /\ buffer = None
    /\ batch = <<>>
    /\ opens = 0
    /\ shown = None
    /\ part = None
    /\ channel = <<>>
    /\ open = None
    /\ nextTokensId = 0
    /\ meant = None
-----------------------------------------------------------------------------
(* The client.                                                               *)
Post(message) == /\ Len(channel) < MaxChannel
                 /\ channel' = Append(channel, message)
Client == /\ part' = None
          /\ UNCHANGED <<encoding, kind, server>>

Spend(what) == budget[what] > 0 /\ budget' = [budget EXCEPT ![what] = @ - 1]

OpenBuffer(s, language) ==
    /\ buffer = None
    /\ Spend("opens")
    /\ buffer' = s
    /\ opens' = opens + 1
    /\ \/ Post([type |-> "open", text |-> s, language |-> language, meant |-> s])
       \/ Unannounced /\ UNCHANGED channel
    /\ UNCHANGED <<batch, shown>>
    /\ Client

Edit(change, s) ==
    /\ Spend("edits")
    /\ Len(batch) < MaxBatch
    /\ batch' = Append(batch, change)
    /\ buffer' = s
    /\ UNCHANGED <<opens, shown, channel>>
    /\ Client

Replace(from, to, new) ==
    /\ buffer # None
    /\ from < to \/ new # <<>>
    /\ \E p \in PositionsOf(buffer, from), q \in PositionsOf(buffer, to) :
         /\ NotAfter(p, q)
         /\ Edit([range |-> [start |-> p, end |-> q], text |-> new],
                 Replaced(buffer, from, to, new))

ReplaceWhole(s) ==
    /\ buffer # None
    /\ Edit([range |-> None, text |-> s], s)

SendChanges ==
    /\ batch # <<>>
    /\ Post([type |-> "change", changes |-> batch, meant |-> buffer])
    /\ batch' = <<>>
    /\ UNCHANGED <<budget, buffer, opens, shown>>
    /\ Client

(* Bounded: as long as it can be opened again.                               *)
CloseBuffer ==
    /\ buffer # None
    /\ batch = <<>>
    /\ budget.opens > 0
    /\ Post([type |-> "close"])
    /\ buffer' = None
    /\ shown' = None
    /\ UNCHANGED <<budget, batch, opens>>
    /\ Client

(* Changes are sent before a request.                                        *)
Request(message, what) ==
    /\ buffer # None
    /\ batch = <<>>
    /\ Spend(what)
    /\ Post(message)
    /\ UNCHANGED <<client, shown>>
    /\ Client

RequestFull  == Request([type |-> "full", opens |-> opens], "streams")

(* A delta to what it shows, which it keeps until the answer is there.        *)
RequestDelta == /\ shown # None
                /\ Request([type |-> "delta", opens |-> opens, base |-> shown], "streams")

RequestRange(from, to) ==
    /\ from < to
    /\ Request([type |-> "range",
                range |-> [start |-> CaretPosition(buffer, from),
                           end |-> CaretPosition(buffer, to)]], "ranges")

RequestCompletion(caret) ==
    Request([type |-> "completion", caret |-> caret,
             position |-> CaretPosition(buffer, caret)], "words")
-----------------------------------------------------------------------------
(* The server.  The handlers of notifications change the document before they *)
(* await anything, in the order of the messages.  A request is answered for   *)
(* the document as it was when its handler began, but requests may pass one   *)
(* another at their await.                                                  *)
Handles(type) == /\ channel # <<>>
                 /\ Head(channel).type = type
                 /\ channel' = Tail(channel)
                 /\ part' = None
                 /\ UNCHANGED <<budget, encoding, kind, client, shown, nextTokensId>>

DidOpen ==
    /\ Handles("open")
    /\ open' = NewOpenDocument(Head(channel).text, Head(channel).language)
    /\ meant' = Head(channel).meant

(* The last change of the whole text, if the document is not open.            *)
FromFullText(changes) ==
    LET full == {i \in DOMAIN changes : changes[i].range = None}
    IN  IF full = {} THEN None ELSE NewOpenDocument(changes[Max(full)].text, Extension)

DidChange ==
    /\ Handles("change")
    /\ LET changes == Head(channel).changes
       IN  open' = IF open = None THEN FromFullText(changes)
                   ELSE Invalidate(ApplyContentChanges(open, changes))
    /\ meant' = Head(channel).meant

DidClose ==
    /\ Handles("close")
    /\ open' = None
    /\ meant' = None

Answers(i, type) ==
    /\ channel[i].type = type
    /\ \A j \in 1..i : channel[j].type \in Requests
    /\ channel' = RemoveAt(channel, i)
    /\ UNCHANGED <<budget, encoding, kind, client, meant>>

Nothing == part' = None /\ UNCHANGED <<shown, open, nextTokensId>>

Described == [text |-> meant, language |-> open.language, kind |-> kind]

(* The client no longer waits for the answer after closing the document.      *)
Show(message, data) ==
    /\ shown' = IF buffer # None /\ message.opens = opens
                THEN [id |-> nextTokensId, data |-> data, about |-> Described]
                ELSE shown
    /\ part' = None

SemanticTokensFull(i) ==
    /\ Answers(i, "full")
    /\ IF open = None THEN Nothing
       ELSE /\ RememberTokens(open, ComputeTokens(open))
            /\ Show(channel[i], ComputeTokens(open))

(* The client's part of a delta.                                             *)
ApplyEdits(data, edit) ==
    Before(data, edit.start \div 5) \o edit.data
      \o SubSeq(data, (edit.start + edit.deleteCount) \div 5 + 1, Len(data))

(* Faulty variant: a stream as long as the last one is taken for it.           *)
SemanticTokensFullDeltaByLength(i) ==
    /\ Answers(i, "delta")
    /\ IF open = None THEN Nothing
       ELSE LET current  == ComputeTokens(open)
                previous == open.lastTokens
            IN  /\ RememberTokens(open, current)
                /\ Show(channel[i],
                        IF /\ previous # None
                           /\ Len(previous.data) = Len(channel[i].base.data)
                        THEN ApplyEdits(channel[i].base.data, TokenEdit(previous.data, current))
                        ELSE current)

SemanticTokensFullDelta(i) ==
    /\ Answers(i, "delta")
    /\ IF open = None THEN Nothing
       ELSE LET current  == ComputeTokens(open)
                previous == open.lastTokens
            IN  /\ RememberTokens(open, current)
                /\ Show(channel[i],
                        IF previous # None /\ previous.id = channel[i].base.id
                        THEN ApplyEdits(channel[i].base.data, TokenEdit(previous.data, current))
                        ELSE current)

SemanticTokensRange(i) ==
    /\ Answers(i, "range")
    /\ IF open = None THEN Nothing
       ELSE /\ part' = [range |-> channel[i].range,
                        data |-> Encode({g \in SegmentsOf(open) : InRange(g, channel[i].range)}),
                        about |-> Described]
            /\ open' = Analysed(open)
            /\ UNCHANGED <<shown, nextTokensId>>

Completion(i) ==
    /\ Answers(i, "completion")
    /\ IF open = None THEN Nothing
       ELSE /\ part' = [caret |-> channel[i].caret,
                        edits |-> CompletionEdits(open, channel[i].position),
                        about |-> Described]
            /\ open' = Analysed(open)
            /\ UNCHANGED <<shown, nextTokensId>>

(* The diagnostics after opening and changing, and all other requests.        *)
Analyse ==
    /\ open # None
    /\ open' = Analysed(open)
    /\ part' = None
    /\ UNCHANGED <<budget, encoding, kind, client, shown, channel, nextTokensId, meant>>

Reload(k) ==
    /\ Spend("reloads")
    /\ k # kind
    /\ kind' = k
    /\ part' = None
    /\ UNCHANGED <<encoding, client, shown, channel, server>>
-----------------------------------------------------------------------------
Carets == IF buffer = None THEN {} ELSE 0..Len(buffer)

Next ==
    \/ \E s \in Contents : ReplaceWhole(s) \/ \E l \in Languages : OpenBuffer(s, l)
    \/ \E from \in Carets :
         \/ RequestCompletion(from)
         \/ \E to \in from..Len(buffer) :
              RequestRange(from, to) \/ \E new \in Inserts : Replace(from, to, new)
    \/ SendChanges \/ CloseBuffer
    \/ RequestFull \/ RequestDelta
    \/ DidOpen \/ DidChange \/ DidClose
    \/ \E i \in DOMAIN channel :
         \/ SemanticTokensFull(i) \/ SemanticTokensFullDelta(i) \/ SemanticTokensRange(i)
         \/ Completion(i)
    \/ Analyse
    \/ \E k \in Kinds : Reload(k)

Spec == Init /\ [][Next]_vars
-----------------------------------------------------------------------------
(* Whatever is typed where, in whatever positions, the server has the text the *)
(* client had when it sent the last notification (did_change: "each range     *)
(* refers to the document state left by the previous change"; offset_at:      *)
(* "clamped as the LSP specification prescribes").                          *)
TextIsTheClients == open # None => open.document.text = meant

(* The syntax tree that seeds the next parse has every node where it is in the *)
(* text (OpenDocument::tree: "kept aligned with the text"; extract_with:      *)
(* "must have been shifted ... to match the document's current text").       *)
TreeFitsTheText ==
    open # None /\ open.tree # None => open.tree \subseteq Nodes(open.document)

(* Where the client sees tokens of its text, line by line.                    *)
Pieces(about) ==
    LET s == about.text
        Class(i) ==
          IF s[i] = "n" THEN None
          ELSE IF about.language = "sql" THEN ClassAt(s, about.kind, i)
          ELSE IF Word(s[i]) /\ ClassAt(s, about.kind, i) = "literal" THEN about.kind
          ELSE None
    IN  Runs(s, Class)

OnScreen(about, piece) ==
    LET p == CaretPosition(about.text, piece.from)
        q == CaretPosition(about.text, piece.to)
    IN  [line |-> p.line, start |-> p.character, length |-> q.character - p.character,
         class |-> piece.class]

Decode(data) ==
    LET line[i \in 0..Len(data)] ==
          IF i = 0 THEN 0 ELSE line[i - 1] + data[i].deltaLine
        start[i \in 0..Len(data)] ==
          IF i = 0 THEN 0
          ELSE data[i].deltaStart + (IF data[i].deltaLine = 0 THEN start[i - 1] ELSE 0)
    IN  {[line |-> line[i], start |-> start[i], length |-> data[i].length,
          class |-> data[i].class] : i \in DOMAIN data}

(* The stream that the client shows, whole or put together from deltas, has     *)
(* the tokens of the text it was asked for, under the backend of the time, in  *)
(* the positions of the client (server.rs, last_tokens: "kept across edits so *)
(* delta requests can diff against it").                                     *)
TokensAreTheTexts ==
    shown # None =>
        Decode(shown.data) = {OnScreen(shown.about, piece) : piece \in Pieces(shown.about)}

(* A range request is answered with the tokens that reach into the range, and  *)
(* no others.                                                               *)
RangeTokensAreTheRanges ==
    Decode(part.data) =
      {OnScreen(part.about, piece) : piece \in
         {r \in Pieces(part.about) : \E i \in r.from..(r.to - 1) :
            LET p == CaretPosition(part.about.text, i)
            IN  NotAfter(part.range.start, p) /\ ~NotAfter(part.range.end, p)}}

(* Accepting a completion replaces the word before or around the caret, on the *)
(* screen of the client, or is put at the caret; in a Rust source there are    *)
(* none but in a query.                                                      *)
InQuery(about, caret) ==
    \/ about.language = "sql"
    \/ \E l \in Literals(about.text) : l[1] <= caret /\ caret < l[2] /\ l[1] + 1 < l[2]

WordsAreReplaced ==
    LET caret   == part.caret
        touched == {r \in Pieces(part.about) :
                      r.from < caret /\ caret <= r.to /\ r.class # "literal"}
        Between(from, to) == [start |-> CaretPosition(part.about.text, from),
                            end |-> CaretPosition(part.about.text, to)]
    IN  part.edits = IF ~InQuery(part.about, caret) THEN {}
                     ELSE IF touched = {} THEN {Between(caret, caret)}
                     ELSE {Between(r.from, r.to) : r \in touched}

(* What is asked of a part of a document is answered for that part, in the     *)
(* encoding of the session and, in a Rust source, in the positions of the file *)
(* (embedded.rs: "keeps the mapping between host and embedded positions a      *)
(* pure line/column shift"; completion.rs, accept_edit: "replace the word      *)
(* being typed (or insert at the cursor)").                                  *)
AnswersFitTheText ==
    part # None => IF "range" \in DOMAIN part THEN RangeTokensAreTheRanges
                   ELSE WordsAreReplaced
=============================================================================
