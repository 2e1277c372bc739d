--------------------------------- MODULE Loader ---------------------------------
(***************************************************************************)
(* The span-tracking loader (loader.cpp): libxml2 reads a file and calls    *)
(* back in document order; a scanner of the raw bytes follows the events    *)
(* to find where each element begins and ends.                              *)
(*                                                                         *)
(* A document is a sequence of lexemes, which libxml2 understands, and the  *)
(* bytes they are written with, which the scanner sees.  A byte is a short  *)
(* string: a markup character, a letter of a name, "0" for NUL, "~" for a   *)
(* byte beyond ASCII.                                                       *)
(***************************************************************************)
EXTENDS Integers, SequencesExt, FiniteSetsExt

CONSTANTS
    Documents,  \* inputs: a sequence of documents
    Disks       \* inputs: projects, as sequences of indices of documents

\* A file that is not there, and one that begins with a UTF-32 BOM.
Missing == 0
Utf32 == -1

ASSUME DiskAssumption ==
    \A d \in Disks : d # <<>> /\ d \in Seq(DOMAIN Documents \cup {Missing, Utf32})

VARIABLES
    disk,      \* disk[f]: the document of file f
    file,      \* the file being loaded, Len(disk) + 1 when all are
    input,     \* input[f]: the document of file f as it was read into memory
    bytes,     \* LoaderState::fileBytes: its bytes
    encoding,  \* RawEncodingClass: "single", "le" or "be"
    next,      \* the lexeme libxml2 is at
    sent,      \* how much of it has been delivered
    cursor,    \* LoaderState: the position of the scanner
    stack,     \* LoaderState: the open elements, as indices of nodes
    nodes,     \* the RawNodes so far, in document order
    trees,     \* trees[f]: the nodes of file f once it is loaded
    outcome    \* outcome[f]: "unread", "reading", "loaded", or the exception

loaderVars == <<file, input, bytes, encoding, next, sent, cursor, stack, nodes, trees, outcome>>

Outcomes == {"unread", "reading", "loaded", "io", "syntax", "refused"}

--------------------------------------------------------------------------------
(* Documents, and libxml2's reading of them *)

\* The value of DEST where there is none: no attribute can have it.
NoDest == <<"<">>

Lexeme(kind, units, tag, dest, text) ==
    [kind |-> kind, units |-> units, tag |-> tag, dest |-> dest, text |-> text]

\* attrs is the raw text between the name and the end of the tag; dest the value
\* of its DEST attribute.
StartTag(tag, attrs, dest) == Lexeme("start", <<"<">> \o tag \o attrs \o <<">">>, tag, dest, <<>>)
EmptyTag(tag, attrs, dest) == Lexeme("empty", <<"<">> \o tag \o attrs \o <<"/", ">">>, tag, dest, <<>>)
EndTag(tag, space) == Lexeme("end", <<"<", "/">> \o tag \o space \o <<">">>, tag, <<>>, <<>>)
Text(text) == Lexeme("text", text, <<>>, <<>>, text)
CData(text) ==
    Lexeme("text", <<"<", "!", "[", "C", "[">> \o text \o <<"]", "]", ">">>, <<>>, <<>>, text)
Comment(inner) == Lexeme("skip", <<"<", "!", "-", "-">> \o inner \o <<"-", "-", ">">>, <<>>, <<>>, <<>>)
Instruction(inner) == Lexeme("skip", <<"<", "?">> \o inner \o <<"?", ">">>, <<>>, <<>>, <<>>)
Doctype(inner) == Lexeme("doctype", <<"<", "!">> \o inner \o <<">">>, <<>>, <<>>, <<>>)

\* form: the width and byte order of a character and whether a BOM comes first.
Document(form, lexemes) == [form |-> form, lexemes |-> lexemes]

\* A unit is what the scanner steps over: a byte, or in UTF-16 the two bytes of "~"
\* with one that looks like '<', or of another unit with NUL.
Encode(width, unit) ==
    CASE width = "le" -> IF unit = "~" THEN <<"<", "~">> ELSE <<unit, "0">>
      [] width = "be" -> IF unit = "~" THEN <<"~", "<">> ELSE <<"0", unit>>

Encoded(form, units) ==
    IF form.width = "single" THEN units
    ELSE [p \in 1..(2 * Len(units)) |-> Encode(form.width, units[(p + 1) \div 2])[2 - (p % 2)]]

Bom(form) ==
    IF ~form.bom THEN <<>>
    ELSE CASE form.width = "single" -> <<"EF", "BB", "BF">>
           [] form.width = "le" -> <<"FF", "FE">>
           [] form.width = "be" -> <<"FE", "FF">>

Units(d) == FlattenSeq([k \in DOMAIN d.lexemes |-> d.lexemes[k].units])
Space == {" ", "\n"}
IsBlank(text) == ToSet(text) \subseteq Space
IsTag(lexeme) == lexeme.kind \in {"start", "empty"}

\* The start tags open before each lexeme and at the end, Ill from where they are not
\* well-formed.
Ill == <<0>>

Legal(lexemes, k, open) ==
    LET rooted == \E j \in 1..(k - 1) : IsTag(lexemes[j]) IN
    CASE IsTag(lexemes[k]) -> open # <<>> \/ ~rooted
      [] lexemes[k].kind = "end" -> open # <<>> /\ lexemes[open[Len(open)]].tag = lexemes[k].tag
      [] lexemes[k].kind = "text" ->
           open # <<>> \/ (lexemes[k].units = lexemes[k].text /\ IsBlank(lexemes[k].text))
      [] lexemes[k].kind = "skip" -> TRUE
      [] lexemes[k].kind = "doctype" -> ~rooted

OpenAfter(lexemes, k, open) ==
    IF open = Ill \/ ~Legal(lexemes, k, open) THEN Ill
    ELSE CASE lexemes[k].kind = "start" -> Append(open, k)
           [] lexemes[k].kind = "end" -> Front(open)
           [] OTHER -> open

Opened(lexemes) ==
    LET open[k \in 1..(Len(lexemes) + 1)] ==
            IF k = 1 THEN <<>> ELSE OpenAfter(lexemes, k - 1, open[k - 1])
    IN open

WellFormed(d) ==
    /\ Opened(d.lexemes)[Len(d.lexemes) + 1] = <<>>
    /\ \E k \in DOMAIN d.lexemes : IsTag(d.lexemes[k])

\* What XML asks of a lexeme.  A name holds no markup and is ASCII (requireAsciiName); the
\* bytes of an encoding are not units.
Kinds == {"start", "empty", "end", "text", "skip", "doctype"}
Lexemes == [kind : Kinds, units : Seq(STRING), tag : Seq(STRING), dest : Seq(STRING), text : Seq(STRING)]
Quotes == {"'", "\""}
Reserved == {"0", "EF", "BB", "BF", "FF", "FE"}
IsName(tag) == tag # <<>> /\ ToSet(tag) \cap ({"<", ">", "/", "?", "!", "~"} \cup Quotes \cup Space) = {}

\* The literal stands at the m-th unit; it ends the units and stands nowhere before, from
\* the given unit on.
Stands(units, m, literal) ==
    m + Len(literal) - 1 <= Len(units) /\ \A i \in DOMAIN literal : units[m + i - 1] = literal[i]
EndsAtFirst(units, from, literal) ==
    LET last == Len(units) - Len(literal) + 1 IN
    last >= from /\ \A m \in from..last : Stands(units, m, literal) <=> m = last

\* The quote that is open after each unit, and how many brackets are.
Unquoted == "unquoted"
QuoteAfter(quote, unit) ==
    IF quote = Unquoted /\ unit \in Quotes THEN unit ELSE IF unit = quote THEN Unquoted ELSE quote
QuoteAt(units) ==
    LET quote[k \in 0..Len(units)] == IF k = 0 THEN Unquoted ELSE QuoteAfter(quote[k - 1], units[k])
    IN quote
DepthAfter(depth, unit) == IF unit = "[" THEN depth + 1 ELSE IF unit = "]" THEN depth - 1 ELSE depth
DepthAt(units) ==
    LET depth[k \in 0..Len(units)] ==
            IF k = 0 THEN 0
            ELSE IF QuoteAt(units)[k - 1] = Unquoted THEN DepthAfter(depth[k - 1], units[k]) ELSE depth[k - 1]
    IN depth

IsStartTag(l, close) ==
    LET attrs == SubSeq(l.units, Len(l.tag) + 2, Len(l.units) - Len(close)) IN
    /\ IsName(l.tag) /\ l.units = <<"<">> \o l.tag \o attrs \o close
    /\ attrs # <<>> => attrs[1] \in Space
    /\ QuoteAt(attrs)[Len(attrs)] = Unquoted
    /\ \A k \in DOMAIN attrs : QuoteAt(attrs)[k - 1] = Unquoted => attrs[k] \notin {"<", ">", "/"}

IsEndTag(l) ==
    LET space == SubSeq(l.units, Len(l.tag) + 3, Len(l.units) - 1) IN
    /\ IsName(l.tag) /\ l.units = <<"<", "/">> \o l.tag \o space \o <<">">>
    /\ IsBlank(space)

IsText(l) ==
    \/ l.units = l.text /\ "<" \notin ToSet(l.units)
    \/ Stands(l.units, 1, <<"<", "!", "[", "C", "[">>) /\ EndsAtFirst(l.units, 6, <<"]", "]", ">">>)

IsComment(l) == Stands(l.units, 1, <<"<", "!", "-", "-">>)
IsSkip(l) ==
    \/ IsComment(l) /\ EndsAtFirst(l.units, 5, <<"-", "-", ">">>)
    \/ Stands(l.units, 1, <<"<", "?">>) /\ l.units[3] # ">" /\ EndsAtFirst(l.units, 3, <<"?", ">">>)

IsDoctype(l) == Len(l.units) > 3 /\ Stands(l.units, 1, <<"<", "!">>) /\ l.units[3] \notin {"-", "["}

IsLexeme(l) ==
    /\ l \in Lexemes
    /\ ToSet(l.units) \cap Reserved = {}
    /\ CASE l.kind = "start" -> IsStartTag(l, <<">">>)
         [] l.kind = "empty" -> IsStartTag(l, <<"/", ">">>)
         [] l.kind = "end" -> IsEndTag(l)
         [] l.kind = "text" -> IsText(l)
         [] l.kind = "skip" -> IsSkip(l)
         [] l.kind = "doctype" -> IsDoctype(l)

IsDocument(d) ==
    /\ d.form \in [width : {"single", "le", "be"}, bom : BOOLEAN]
    /\ d.lexemes \in Seq(Lexemes) /\ \A k \in DOMAIN d.lexemes : IsLexeme(d.lexemes[k])
    /\ d = Document(d.form, d.lexemes)

ASSUME DocumentAssumption == DOMAIN Documents = 1..Len(Documents) /\ \A i \in DOMAIN Documents : IsDocument(Documents[i])

\* What the scanner takes for whole: it looks for the end of a comment from its '<' on
\* (loader.cpp:252-263), so one that begins with '>' or '->' ends there for it; and in a
\* DOCTYPE it knows quotes and brackets, but no comment that holds one of them.
Balanced(units) ==
    LET inner == Tail(units)
        ends(k) == inner[k] = ">" /\ QuoteAt(inner)[k - 1] = Unquoted /\ DepthAt(inner)[k - 1] = 0
    IN \A k \in DOMAIN inner : ends(k) <=> k = Len(inner)

Scannable(d) ==
    \A k \in DOMAIN d.lexemes :
        LET l == d.lexemes[k] IN
        /\ l.kind = "skip" /\ IsComment(l) => EndsAtFirst(l.units, 1, <<"-", "-", ">">>)
        /\ l.kind = "doctype" => Balanced(l.units)

\* What libxml2 makes of each document.
Read ==
    LET documents == Documents IN
    [i \in DOMAIN documents |->
        LET d == documents[i] IN
        [bytes |-> Bom(d.form) \o Encoded(d.form, Units(d)),
         open |-> Opened(d.lexemes), wellFormed |-> WellFormed(d)]]

--------------------------------------------------------------------------------
(* The raw-byte scanner: positions are offsets from 0 *)

Fail == -1
Width == IF encoding = "single" THEN 1 ELSE 2
Stops(from) == {p \in from..(Len(bytes) - 1) : (p - from) % Width = 0}

First(S) == IF S = {} THEN Fail ELSE Min(S)

\* The positions of a literal in the bytes, counted from 1.
Occurrences(raw, literal) == {m \in DOMAIN raw : Stands(raw, m, literal)}

\* asciiUpper, for the letters the detection looks for.
Upper == [u |-> "U", t |-> "T", f |-> "F", l |-> "L", e |-> "E", b |-> "B"]
asciiUpper(units) == [m \in DOMAIN units |-> IF units[m] \in DOMAIN Upper THEN Upper[units[m]] ELSE units[m]]

\* The quoted value after the first "encoding" among the first 300 bytes, wherever it
\* stands there; it runs to the end of them when its quote is not closed.
HeadBytes == 300
EncodingKey == <<"e", "n", "c", "o", "d", "i", "n", "g">>

Declared(raw) ==
    LET head == SubSeq(raw, 1, Min({Len(raw), HeadBytes}))
        key == First(Occurrences(head, EncodingKey))
        quote == First({m \in DOMAIN head : m >= key /\ head[m] \in Quotes})
        close == First({m \in DOMAIN head : m > quote /\ head[m] = head[quote]})
    IN IF key = Fail \/ quote = Fail THEN <<>>
       ELSE asciiUpper(SubSeq(head, quote + 1, IF close = Fail THEN Len(head) ELSE close - 1))

Utf16 == <<"U", "T", "F", "-", "1", "6">>
Claims(raw, literal) == Occurrences(Declared(raw), literal) # {}

sniffLessThanEndianness(raw) ==
    LET first == First({m \in DOMAIN raw : raw[m] \notin Space}) IN
    CASE first # Fail /\ Stands(raw, first, <<"<", "0">>) -> "le"
      [] first # Fail /\ Stands(raw, first, <<"0", "<">>) -> "be"
      [] OTHER -> "single"

declarationEncodingClass(raw) ==
    IF ~Claims(raw, Utf16) THEN "single"
    ELSE IF Claims(raw, <<"L", "E">>) THEN "le"
    ELSE IF Claims(raw, <<"B", "E">>) THEN "be"
    ELSE sniffLessThanEndianness(raw)

\* bomEncodingClass, then the declaration; loadRawDocument has the UTF-32 case.
detectEncodingClass(raw) ==
    CASE IsPrefix(<<"FF", "FE">>, raw) -> "le"
      [] IsPrefix(<<"FE", "FF">>, raw) -> "be"
      [] OTHER -> declarationEncodingClass(raw)

unitAscii(p) ==
    IF p + Width > Len(bytes) THEN "~"
    ELSE CASE encoding = "single" -> bytes[p + 1]
           [] encoding = "le" -> IF bytes[p + 2] = "0" THEN bytes[p + 1] ELSE "~"
           [] encoding = "be" -> IF bytes[p + 1] = "0" THEN bytes[p + 2] ELSE "~"

matchLiteral(p, literal) ==
    \A k \in DOMAIN literal : unitAscii(p + (k - 1) * Width) = literal[k]

\* Mutant of skipDelimited: the terminator's last unit is enough.
SkipToGreater(open, terminator) ==
    LET p == First({q \in Stops(open) : unitAscii(q) = ">"}) IN
        IF p = Fail THEN Fail ELSE p + Width

skipDelimited(open, terminator) ==
    LET p == First({q \in Stops(open) : matchLiteral(q, terminator)}) IN
        IF p = Fail THEN Fail ELSE p + Len(terminator) * Width

skipQuoted(quote) ==
    LET p == First({q \in Stops(quote + Width) : unitAscii(q) = unitAscii(quote)}) IN
        IF p = Fail THEN Fail ELSE p + Width

\* The loops of the scanner end where the bytes do, or where a skip has failed.
Inside(p) == p \in 0..(Len(bytes) - 1)

\* Past a unit, or past the quoted value it opens.
PastUnit(p) == IF unitAscii(p) \in Quotes THEN skipQuoted(p) ELSE p + Width

skipDeclaration(open) ==
    LET past[at \in Int \X Int] ==
            LET p == at[1] depth == at[2] IN
            IF ~Inside(p) THEN Fail
            ELSE IF unitAscii(p) = ">" /\ depth = 0 THEN p + Width
            ELSE past[<<PastUnit(p), DepthAfter(depth, unitAscii(p))>>]
    IN past[<<open + Width, 0>>]

IsSpecial(p) == unitAscii(p + Width) \in {"?", "!"}

skipSpecialUnit(p) ==
    CASE matchLiteral(p, <<"<", "?">>) -> skipDelimited(p, <<"?", ">">>)
      [] matchLiteral(p, <<"<", "!", "-", "-">>) -> skipDelimited(p, <<"-", "-", ">">>)
      [] matchLiteral(p, <<"<", "!", "[", "C", "[">>) -> skipDelimited(p, <<"]", "]", ">">>)
      [] OTHER -> skipDeclaration(p)

\* The first '<' from the position on that opens element markup.
Markup(from) ==
    LET seek[p \in Int] ==
            IF ~Inside(p) THEN Fail
            ELSE IF unitAscii(p) = "<" /\ ~IsSpecial(p) THEN p
            ELSE seek[IF unitAscii(p) = "<" THEN skipSpecialUnit(p) ELSE p + Width]
    IN seek[from]

Bounds(open, end, selfClosed) == [open |-> open, end |-> end, selfClosed |-> selfClosed]
NoTag == Bounds(Fail, Fail, FALSE)

\* The end of a start tag: the first '>' or '/>' outside quotes.
TagEnd(open, from) ==
    LET end[p \in Int] ==
            IF ~Inside(p) THEN NoTag
            ELSE IF unitAscii(p) = ">" THEN Bounds(open, p + Width, FALSE)
            ELSE IF unitAscii(p) = "/" /\ unitAscii(p + Width) = ">" THEN Bounds(open, p + 2 * Width, TRUE)
            ELSE end[PastUnit(p)]
    IN end[from]

scanStartTag(from, tag) ==
    LET p == Markup(from)
        after == p + (Len(tag) + 1) * Width
    IN IF p # Fail /\ matchLiteral(p + Width, tag) /\ unitAscii(after) \in Space \cup {"/", ">"}
       THEN TagEnd(p, after)
       ELSE NoTag

\* Mutant of scanEndTag: one unit too far.
ScanEndTagPast(from, tag) ==
    LET p == Markup(from)
        close == First({q \in Stops(p) : unitAscii(q) = ">"})
    IN IF p = Fail \/ close = Fail THEN Fail ELSE close + 2 * Width

\* Just past </tag>, or Fail.
scanEndTag(from, tag) ==
    LET p == Markup(from)
        after == p + (Len(tag) + 2) * Width
        close == First({q \in Stops(after) : unitAscii(q) \notin Space})
    IN IF p # Fail /\ matchLiteral(p + Width, <<"/">> \o tag) /\ close # Fail /\ unitAscii(close) = ">"
       THEN close + Width
       ELSE Fail

lineNumberAt(offset) == 1 + Cardinality({p \in Stops(0) : p < offset /\ unitAscii(p) = "\n"})

--------------------------------------------------------------------------------
(* The callbacks *)

Reading == file <= Len(disk) /\ outcome[file] = "reading"
lexemes == Documents[input[file]].lexemes
lexeme == lexemes[next]

\* libxml2 is at a lexeme of these kinds, and it is legal there.
At(kinds) ==
    /\ Reading
    /\ next <= Len(lexemes) /\ Read[input[file]].open[next + 1] # Ill
    /\ lexeme.kind \in kinds

\* An exception ends the load of the file, and with it that of the project.
Throw(what) ==
    /\ outcome' = [outcome EXCEPT ![file] = what]
    /\ UNCHANGED <<file, input, bytes, encoding, next, sent, cursor, stack, nodes, trees>>

\* readFileBytes and the detection of the encoding, which rejects UTF-32.
loadRawDocument ==
    /\ file <= Len(disk) /\ outcome[file] = "unread"
    /\ \A f \in 1..(file - 1) : outcome[f] = "loaded"
    /\ IF disk[file] = Missing
       THEN Throw("io")
       ELSE /\ input' = [input EXCEPT ![file] = disk[file]]
            /\ outcome' = [outcome EXCEPT ![file] = IF disk[file] = Utf32 THEN "refused" ELSE "reading"]
            /\ IF disk[file] = Utf32
               THEN UNCHANGED <<bytes, encoding, next, sent, cursor, stack, nodes>>
               ELSE /\ bytes' = Read[disk[file]].bytes
                    /\ encoding' = detectEncodingClass(bytes')
                    /\ next' = 1 /\ sent' = 0
                    /\ cursor' = 0 /\ stack' = <<>> /\ nodes' = <<>>
            /\ UNCHANGED <<file, trees>>

\* Comments, instructions, the DOCTYPE and blanks outside the root: no callback.
Quiet ==
    /\ At({"skip", "doctype", "text"})
    /\ lexeme.kind = "text" => stack = <<>> \/ sent = Len(lexeme.text)
    /\ next' = next + 1 /\ sent' = 0
    /\ UNCHANGED <<file, input, bytes, encoding, cursor, stack, nodes, trees, outcome>>

\* The node is entered when its start tag is found; an empty element has its whole
\* span then, another one has end = start until its end tag is found.
onStartElement ==
    LET bounds == scanStartTag(cursor, lexeme.tag) IN
    /\ At({"start", "empty"}) /\ sent = 0
    /\ IF bounds = NoTag
       THEN Throw("refused")
       ELSE /\ cursor' = bounds.end
            /\ nodes' = Append(nodes,
                 [tag |-> lexeme.tag, dest |-> lexeme.dest, text |-> <<>>,
                  parent |-> IF stack = <<>> THEN 0 ELSE stack[Len(stack)],
                  start |-> bounds.open,
                  end |-> IF bounds.selfClosed THEN bounds.end ELSE bounds.open,
                  line |-> lineNumberAt(bounds.open)])
            /\ stack' = Append(stack, Len(nodes) + 1)
            /\ IF lexeme.kind = "empty" THEN sent' = 1 /\ next' = next
                                        ELSE sent' = 0 /\ next' = next + 1
            /\ UNCHANGED <<file, input, bytes, encoding, trees, outcome>>

\* A run of text comes in any number of pieces.
onCharacters ==
    /\ At({"text"}) /\ stack # <<>>
    /\ \E n \in (sent + 1)..Len(lexeme.text) :
          /\ nodes' = [nodes EXCEPT ![stack[Len(stack)]].text = @ \o SubSeq(lexeme.text, sent + 1, n)]
          /\ sent' = n
    /\ UNCHANGED <<file, input, bytes, encoding, next, cursor, stack, trees, outcome>>

onEndElement ==
    LET node == stack[Len(stack)]
        closed == nodes[node].end # nodes[node].start
        end == scanEndTag(cursor, nodes[node].tag)
    IN
    /\ At({"end", "empty"}) /\ (lexeme.kind = "empty" => sent = 1)
    /\ IF ~closed /\ end = Fail
       THEN Throw("refused")
       ELSE /\ IF closed THEN nodes' = nodes /\ cursor' = cursor
                         ELSE nodes' = [nodes EXCEPT ![node].end = end] /\ cursor' = end
            /\ stack' = Front(stack)
            /\ next' = next + 1 /\ sent' = 0
            /\ UNCHANGED <<file, input, bytes, encoding, trees, outcome>>

\* libxml2 meets something illegal, or the end with elements open or none read.
IllFormed ==
    /\ Reading
    /\ \/ next <= Len(lexemes) /\ Read[input[file]].open[next + 1] = Ill
       \/ next > Len(lexemes) /\ ~Read[input[file]].wellFormed
    /\ Throw("syntax")

\* The document is moved out and its nodes are relinked to their parents; the next
\* file follows.
Loaded ==
    /\ Reading /\ next > Len(lexemes) /\ Read[input[file]].wellFormed
    /\ outcome' = [outcome EXCEPT ![file] = "loaded"]
    /\ trees' = [trees EXCEPT ![file] = nodes]
    /\ file' = file + 1
    /\ UNCHANGED <<input, bytes, encoding, next, sent, cursor, stack, nodes>>

LoaderInit ==
    /\ disk \in Disks
    /\ file = 1
    /\ input = [f \in DOMAIN disk |-> Missing]
    /\ bytes = <<>> /\ encoding = "single"
    /\ next = 1 /\ sent = 0
    /\ cursor = 0 /\ stack = <<>> /\ nodes = <<>>
    /\ trees = [f \in DOMAIN disk |-> <<>>]
    /\ outcome = [f \in DOMAIN disk |-> "unread"]

Load ==
    \/ loadRawDocument \/ Quiet
    \/ onStartElement \/ onCharacters \/ onEndElement
    \/ IllFormed \/ Loaded

--------------------------------------------------------------------------------
(* What a tree should say, from the lexemes alone *)

\* The elements of a set of positions up to n in increasing order.
InOrder(S, n) ==
    LET upTo[k \in 0..n] ==
            IF k = 0 THEN <<>> ELSE IF k \in S THEN Append(upTo[k - 1], k) ELSE upTo[k - 1]
    IN upTo[n]

Tags(d) == {k \in DOMAIN d.lexemes : IsTag(d.lexemes[k])}

\* The units before each lexeme and at the end, and the offset in bytes.
Place(d) ==
    LET place[k \in 1..(Len(d.lexemes) + 1)] ==
            IF k = 1 THEN 0 ELSE place[k - 1] + Len(d.lexemes[k - 1].units)
    IN place
Offset(d, k) == Len(Bom(d.form)) + (IF d.form.width = "single" THEN 1 ELSE 2) * Place(d)[k]

\* The tag of the element around lexeme k, 0 outside the root, and the lexeme that ends
\* the element of tag k.
ParentOf(open, k) == IF open[k] = <<>> THEN 0 ELSE Last(open[k])
LastOf(d, open, k) ==
    IF d.lexemes[k].kind = "empty" THEN k
    ELSE Min({j \in DOMAIN d.lexemes : d.lexemes[j].kind = "end" /\ ParentOf(open, j) = k})

LineOf(d, k) == 1 + Cardinality({u \in 1..Place(d)[k] : Units(d)[u] = "\n"})

\* The pieces of text that belong to the element of tag k.
Pieces(d, open, k) ==
    [j \in DOMAIN d.lexemes |->
        IF d.lexemes[j].kind = "text" /\ ParentOf(open, j) = k THEN d.lexemes[j].text ELSE <<>>]
TextOf(d, open, k) == FlattenSeq(Pieces(d, open, k))

\* The position of tag k among the tags: the index of its node.
NodeOf(d, k) == Cardinality({j \in Tags(d) : j <= k})

Tree(d) ==
    LET open == Opened(d.lexemes) IN
    [n \in 1..Cardinality(Tags(d)) |->
        LET k == CHOOSE k \in Tags(d) : NodeOf(d, k) = n IN
        [tag |-> d.lexemes[k].tag, dest |-> d.lexemes[k].dest, text |-> TextOf(d, open, k),
         parent |-> NodeOf(d, ParentOf(open, k)),
         start |-> Offset(d, k), end |-> Offset(d, LastOf(d, open, k) + 1), line |-> LineOf(d, k)]]

\* A declaration, or what the code takes for one, that asks for the wrong width.
Misleads(d) ==
    LET raw == Bom(d.form) \o Encoded(d.form, Units(d)) IN
    Claims(raw, Utf16) /\ (Claims(raw, <<"L", "E">>) \/ Claims(raw, <<"B", "E">>))

\* libxml2 and the scanner understand the same encoding.
Plain(d) == IF d.form.width = "single" THEN ~Misleads(d) ELSE d.form.bom

\* The documents the scanner reads as XML does.
Scannables == LET documents == Documents IN {i \in DOMAIN documents : Scannable(documents[i])}

\* What a tree should say, for each document libxml2 accepts.
Expected ==
    LET documents == Documents IN
    [i \in DOMAIN documents |-> IF WellFormed(documents[i]) THEN Tree(documents[i]) ELSE <<>>]

\* The tree of a loaded file is exactly what its lexemes say: every element with the
\* bytes from its '<' to just past its end, its line, its parent and its whole text,
\* whatever its text, quoted values, comments, instructions and CDATA look like; a
\* well-formed file loads unless it is UTF-32, UTF-16 without a BOM, or of single bytes
\* whose first 300 claim UTF-16LE or UTF-16BE; and one that is not well-formed fails with
\* an exception (loader.hpp:28-31 and 39-44, loader.cpp:122-191).  Comments and
\* declarations are those the scanner takes for whole.
LoadsExactly ==
    \A f \in DOMAIN outcome :
        /\ outcome[f] = "loaded" =>
              Read[input[f]].wellFormed /\ (input[f] \in Scannables => trees[f] = Expected[input[f]])
        /\ outcome[f] = "syntax" => ~Read[input[f]].wellFormed
        /\ outcome[f] = "refused" =>
              input[f] = Utf32 \/ ~Plain(Documents[input[f]]) \/ input[f] \notin Scannables

\* A loaded tree is exact or the load has thrown: the scanner is "loud, never silently
\* wrong" (loader.cpp:248-251), whatever the comments hold.
NeverSilentlyWrong ==
    \A f \in DOMAIN outcome : outcome[f] = "loaded" => trees[f] = Expected[input[f]]

\* The document of a file that was refused though the scanner reads it as XML does.
RefusedWhole(f, width) ==
    /\ outcome[f] = "refused" /\ input[f] \in Scannables
    /\ Documents[input[f]].form.width = width

\* The XML declaration, which has to be the first thing in a file.
Declaration(d) == IF Stands(Units(d), 1, <<"<", "?">>) THEN d.lexemes[1].units ELSE <<>>

\* The detection reads "the XML declaration's encoding" (loader.cpp:158-159): a file of
\* single bytes is refused only when its declaration says it is UTF-16.
DeclarationDecides ==
    \A f \in DOMAIN outcome :
        RefusedWhole(f, "single") =>
            Occurrences(asciiUpper(Declaration(Documents[input[f]])), Utf16) # {}

\* A file in UTF-16 with a declaration and no BOM is told by its first '<' ("sniff for
\* BOM-less UTF-16: the XML declaration must start the file", loader.cpp:139-140).
BareUtf16Sniffed ==
    \A f \in DOMAIN outcome, width \in {"le", "be"} :
        RefusedWhole(f, width) => Declaration(Documents[input[f]]) = <<>>

================================================================================
