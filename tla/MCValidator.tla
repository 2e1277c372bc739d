------------------------------ MODULE MCValidator ------------------------------
(* Documents for Loader and Validator.  Tags p and ps share a prefix, as         *)
(* AR-PACKAGE and AR-PACKAGES do; n is SHORT-NAME, p-r a reference, x a tag the   *)
(* schema rejects.                                                               *)
EXTENDS Validator

Name == <<"n">>
P == <<"p">>
PS == <<"p", "s">>
Ref == <<"p", "-", "r">>
X == <<"x">>

Form(width, bom) == [width |-> width, bom |-> bom]
Forms == <<Form("single", TRUE), Form("single", FALSE), Form("le", TRUE), Form("be", TRUE)>>
Bare == <<Form("le", FALSE), Form("be", FALSE)>>

Times(s, t) ==
    [k \in 1..(Len(s) * Len(t)) |-> <<s[1 + ((k - 1) \div Len(t))], t[1 + ((k - 1) % Len(t))]>>]
Each(s, Op(_)) == [k \in DOMAIN s |-> Op(s[k])]

\* Pieces of markup that look like something else.
Fragments ==
    <<<<Text(<<"~", "~", ">", "'", "\n">>)>>,
      <<CData(<<">", "<", "/", "p", ">", "]">>), Text(<<"x">>)>>,
      <<Comment(<<" ", "-", ">", "<", "p", ">", "'">>)>>,
      <<Instruction(<<"p", " ", ">", "<", "p", "/", ">">>)>>,
      <<EmptyTag(P, <<>>, NoDest)>>,
      <<EmptyTag(PS, <<" ", "d", "=", "'", "/", ">", "\"", "'">>, <<"/", ">", "\"">>), Text(<<"\n">>)>>,
      <<StartTag(P, <<"\n", "d", "=", "\"", "~", ">", "\"", " ">>, <<"~", ">">>), EndTag(P, <<" ", "\n">>)>>,
      <<StartTag(PS, <<>>, NoDest), Text(<<"/">>), EndTag(PS, <<>>)>>>>
Prologs ==
    <<<<>>, <<Text(<<"\n">>), Comment(<<"p">>)>>,
      <<Doctype(<<"D", "[", "<", "!", "\"", "]", ">", "\"", ">", "]">>)>>>>

Wrapped(prolog, tag, inner) ==
    prolog \o <<StartTag(tag, <<>>, NoDest)>> \o inner \o <<EndTag(tag, <<>>)>>

\* Not well-formed.
Odd == <<<<>>, <<StartTag(P, <<>>, NoDest)>>, <<StartTag(P, <<>>, NoDest), EndTag(PS, <<>>)>>,
         <<EmptyTag(P, <<>>, NoDest), EmptyTag(P, <<>>, NoDest)>>, <<Text(<<"x">>), EmptyTag(P, <<>>, NoDest)>>>>

Scanned ==
    Each(Times(Forms, Times(Prologs, Fragments)), LAMBDA c : Document(c[1], Wrapped(c[2][1], P, c[2][2])))
    \o Each(Times(SubSeq(Forms, 2, 3), Times(Fragments, Fragments)),
            LAMBDA c : Document(c[1], Wrapped(<<>>, PS, c[2][1] \o c[2][2])))
    \o Each(Times(Bare, Fragments), LAMBDA c : Document(c[1], Wrapped(<<Instruction(<<"p">>)>>, P, c[2])))
    \o Each(Times(Forms, Odd), LAMBDA c : Document(c[1], c[2]))

Element(tag, name, inner) ==
    <<StartTag(tag, <<>>, NoDest), StartTag(Name, <<>>, NoDest), Text(name), EndTag(Name, <<>>)>>
        \o inner \o <<EndTag(tag, <<>>)>>
RefTo(path, dest) == <<StartTag(Ref, <<" ">>, dest), Text(path), EndTag(Ref, <<>>)>>
Group(inner) == <<StartTag(PS, <<>>, NoDest)>> \o inner \o <<EndTag(PS, <<>>)>>

Contents ==
    <<Element(P, <<"a">>, <<>>), Element(PS, <<" ", "a", "\n">>, <<>>),
      Element(P, <<"b">>, Element(PS, <<"a">>, <<>>)), Element(P, <<"b", "/", "a">>, <<>>),
      Group(Element(P, <<"a">>, <<>>)), Element(P, <<" ">>, Element(P, <<"a">>, <<>>)),
      RefTo(<<"/", "a">>, P), RefTo(<<"\n", "/", "b", "/", "a">>, PS), RefTo(<<"/", "a">>, X),
      RefTo(<<" ">>, P), <<Text(<<"\n">>), EmptyTag(X, <<>>, NoDest), Text(<<"\n">>)>>,
      <<EmptyTag(X, <<"\n">>, NoDest), Text(<<"\n">>), EmptyTag(P, <<>>, NoDest)>>,
      RefTo(<<"/", "a">>, <<>>), RefTo(<<"/", "a">>, NoDest)>>

Judged ==
    Each(Contents, LAMBDA one : Document(Form("single", FALSE), Group(one)))
    \o Each(Times(Contents, Contents), LAMBDA c : Document(Form("single", FALSE), Group(c[1] \o c[2])))

\* A comment that ends early for the scanner.
Misread ==
    Each(<<<<Comment(<<">", "<", "/", "p", ">">>)>>, <<Comment(<<"-", ">", "<", "p", ">">>)>>>>,
         LAMBDA inner : Document(Form("single", FALSE), Wrapped(<<>>, P, inner)))

\* Documents that speak of encodings.
Claim(quote, letters) == EncodingKey \o <<"=", quote>> \o letters
LittleClaim == Claim("'", <<"u", "t", "f", "-", "1", "6", "L", "e", "'">>)
BigClaim == Claim("\"", Utf16 \o <<"B", "E", "\"">>)
WideClaim == Claim("'", Utf16 \o <<"'">>)
Declaring(claim) == <<Instruction(<<"x", " ">> \o claim)>>
Long == [k \in 1..HeadBytes |-> IF k = 99 THEN "\n" ELSE "x"]

Claiming ==
    Each(<<<<Comment(LittleClaim)>>, <<Comment(BigClaim)>>, <<Comment(WideClaim)>>, <<Comment(EncodingKey)>>,
           Declaring(Claim("'", <<"U", "T", "F", "-", "8", "'">>)) \o <<Comment(LittleClaim)>>,
           <<Comment(Long \o LittleClaim)>>,
           <<Comment(Claim("'", Utf16 \o <<"L", "E">> \o Long \o <<"'">>))>>>>,
         LAMBDA prolog : Document(Form("single", Len(prolog) = 2), Wrapped(prolog, P, <<Text(<<"\n">>)>>)))
    \o Each(<<LittleClaim, WideClaim>>,
            LAMBDA claim : Document(Form("single", TRUE), <<EmptyTag(P, <<" ">> \o claim, NoDest)>>))
    \o Each(Bare \o SubSeq(Forms, 3, 4),
            LAMBDA form : Document(form, Wrapped(Declaring(WideClaim), P, <<Comment(BigClaim)>>)))

MCDocuments == Scanned \o Judged \o Misread \o Claiming

\* Documents of one content, and of one of the first two with a reference.
Small == (Len(Scanned) + 1)..(Len(Scanned) + Len(Contents))
Referring == {Len(Scanned) + Len(Contents) * a + b : a \in 1..2, b \in {7, 8, 9, 13, 14}}
MCDisks ==
    {<<i>> : i \in DOMAIN MCDocuments} \cup {<<i, j>> : i \in Small, j \in Small \cup Referring}
        \cup {<<Missing>>} \cup {<<i, f>> : i \in Small, f \in {Missing, Utf32}}

MCInvalid == {X}
MCdestToTags == [dest \in {P, PS} |-> IF dest = P THEN {P} ELSE {P, PS}]
MCEdits == {<<1, 1>>, <<1, Missing>>, <<2, Len(Scanned) + Len(Judged)>>}
================================================================================
