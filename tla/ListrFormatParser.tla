--------------------------- MODULE ListrFormatParser ---------------------------
(***************************************************************************)
(* The parser of the format language (format/parser.ts) on a source of     *)
(* tokens, and a user who writes a format piece by piece.                  *)
(*                                                                         *)
(* A token is a word, a mark, " " for one column of white space, "\n", or  *)
(* "#" for a comment with all its text; an escaped character is one token. *)
(* A quoted string is its tokens between two marks '"'; flexible quotes    *)
(* (q, v) and numbers of minutes are left out.  Of the diagnostics the     *)
(* model keeps what is wrong and whether it is an error.                   *)
(***************************************************************************)
EXTENDS Integers, Sequences, SequencesExt, FiniteSets, TLC

CONSTANTS
    Unwritten,        \* undefined
    Toplines,       \* what the user may write: toplevel lines,
    Directives,     \* directives (with the comments and lines they span),
    Definitions,    \* definitions: [name, tokens]
    MaxDirectives,  \* how many directives and definitions
    MaxDefinitions

VARIABLES
    topline,
    directives,     \* a sequence of Directives
    spaced,         \* a blank line before the definitions
    definitions     \* a sequence of Definitions

parserVars == <<topline, directives, spaced, definitions>>

Marks == {" ", "\n", "#", "=", "==", "!=", "<", "<=", ">", ">=", "=>", "(", ")", "[", "]", "!", "?", "/", ":", ",", ".", "@", "+", "-", "*"}
Literals == {"1", "true", "false", "done"}
Comparisons == {"==", "!=", "<", "<=", ">", ">="}
IsWord(t) == t \notin Marks \union {"1", "\""}

----------------------------------------------------------------------------
(* Scanning.  A result is [i, v, errs, failed]: where the parser stands,   *)
(* what it read, the errors so far, and whether it threw.                  *)

Ok(i, v) == [i |-> i, v |-> v, errs |-> {}, failed |-> FALSE]
Fail(i, err) == [i |-> i, v |-> Unwritten, errs |-> {err}, failed |-> TRUE]
Adding(errs, r) == [r EXCEPT !.errs = @ \union errs]

\* F goes on where r ended.
Then(r, F(_, _)) == IF r.failed THEN r ELSE Adding(r.errs, F(r.i, r.v))

At(src, i) == IF i \in DOMAIN src THEN src[i] ELSE "eof"

\* The first index from i on whose token is not one of some; the end of the source otherwise.
FirstNotIn(src, i, some) ==
    IF \E j \in i .. Len(src) : src[j] \notin some
    THEN CHOOSE j \in i .. Len(src) : src[j] \notin some /\ \A k \in i .. j - 1 : src[k] \in some
    ELSE IF i > Len(src) THEN i ELSE Len(src) + 1

EolIndex(src, i) ==
    IF \E j \in i .. Len(src) : src[j] = "\n"
    THEN CHOOSE j \in i .. Len(src) : src[j] = "\n" /\ \A k \in i .. j - 1 : src[k] # "\n"
    ELSE Len(src) + 1

SkipInline(src, i) == FirstNotIn(src, i, {" "})
SkipWs(src, i, newlines) == FirstNotIn(src, i, {" ", "#"} \union IF newlines THEN {"\n"} ELSE {})
AtEol(src, i) == At(src, i) \in {"eof", "\n"}

\* expectWord, expectChar
Expect(src, i, t) ==
    LET j == SkipWs(src, i, TRUE) IN IF At(src, j) = t THEN Ok(j + 1, t) ELSE Fail(j, "expected")

ReadIdent(src, i) == IF i \in DOMAIN src /\ IsWord(src[i]) THEN Ok(i + 1, src[i]) ELSE Fail(i, "expected a name")

\* The index of the close that matches the open at start, 0 if there is none
\* before end.
MatchClose(src, start, end, open, close) ==
    LET level(j) == Cardinality({k \in start .. j : src[k] = open}) - Cardinality({k \in start .. j : src[k] = close})
        closes == {j \in start .. end - 1 : src[j] = close /\ level(j) = 0}
    IN IF closes = {} THEN 0 ELSE CHOOSE j \in closes : \A k \in closes : j <= k

----------------------------------------------------------------------------
(* Text mode: the parts between two indexes; it never throws.              *)

\* The ranges of the arguments, at the commas outside brackets, without the
\* white space around them
SplitArgs(src, start, end) ==
    LET level(j) == Cardinality({k \in start .. j : src[k] \in {"[", "("}}) - Cardinality({k \in start .. j : src[k] \in {"]", ")"}})
        commas == {j \in start .. end - 1 : src[j] = "," /\ level(j) = 0}
        cuts == <<start - 1>> \o SetToSortSeq(commas, <) \o <<end>>
        trimmed(s, e) ==
            LET from == IF \E j \in s .. e - 1 : src[j] # " " THEN FirstNotIn(src, s, {" "}) ELSE e
                last == CHOOSE j \in from - 1 .. e - 1 : (j = from - 1 \/ src[j] # " ") /\ \A k \in j + 1 .. e - 1 : src[k] = " "
            IN <<from, last + 1>>
        ranges == [n \in 1 .. Len(cuts) - 1 |-> trimmed(cuts[n] + 1, cuts[n + 1])]
    IN IF Len(ranges) = 1 /\ ranges[1][1] = ranges[1][2] THEN <<>> ELSE ranges

TextExpr(parts) == [k |-> "text", parts |-> parts]
NoPart == [v |-> Unwritten, errs |-> {"invalid reference"}]

RECURSIVE ParseText(_, _, _)

\* name, (args), :variant, /fallback between start and end
ParseRef(src, start, end, optSpace) ==
    LET named == start < end /\ IsWord(src[start])
        call == At(src, start + 1) = "("
        close == MatchClose(src, start + 1, end, "(", ")")
        ranges == IF call /\ close # 0 THEN SplitArgs(src, start + 2, close) ELSE <<>>
        args == [n \in DOMAIN ranges |-> ParseText(src, ranges[n][1], ranges[n][2])]
        j == IF call THEN close + 1 ELSE start + 1
        variant == j + 1 < end /\ src[j] = ":" /\ IsWord(src[j + 1])
        rest == IF variant THEN j + 2 ELSE j
        fallback == ParseText(src, rest + 1, end)
    IN IF ~named \/ (call /\ close = 0) THEN NoPart
       ELSE IF rest < end /\ src[rest] # "/" THEN [NoPart EXCEPT !.errs = @ \union UNION {args[n].errs : n \in DOMAIN args}]
       ELSE [v |-> [k |-> "ref", name |-> src[start], args |-> [n \in DOMAIN args |-> TextExpr(args[n].v)],
                    variant |-> IF variant THEN src[j + 1] ELSE Unwritten,
                    fallback |-> IF rest < end THEN fallback.v ELSE Unwritten, optSpace |-> optSpace],
             errs |-> UNION {args[n].errs : n \in DOMAIN args} \union IF rest < end THEN fallback.errs ELSE {}]

\* What stands at j: its parts, its errors, where the text goes on.  A reference
\* that is none stays as literal text, unless it is optional: then it is dropped.
PartAt(src, j, end) ==
    LET optional == j + 2 < end /\ src[j] = " " /\ src[j + 1] = "?" /\ src[j + 2] = "["
        image == src[j] = "!" /\ j + 1 < end /\ src[j + 1] = "["
        open == IF optional THEN j + 2 ELSE IF image THEN j + 1 ELSE j
        close == MatchClose(src, open, end, "[", "]")
        target == close # 0 /\ close + 1 < end /\ src[close + 1] = "("
        paren == IF target THEN MatchClose(src, close + 1, end, "(", ")") ELSE 0
        ref == ParseRef(src, open + 1, close, optional)
        inner == ParseText(src, open + 1, close)
        url == ParseText(src, close + 2, paren)
        to(part, errs, n) == [parts |-> <<part>>, errs |-> errs, next |-> n]
        literal(errs, n) == to([k |-> "lit", text |-> SubSeq(src, j, n - 1)], errs, n)
    IN IF optional /\ close # 0
            THEN [to(ref.v, ref.errs, close + 1) EXCEPT !.parts = IF ref.v = Unwritten THEN <<>> ELSE @]
       ELSE IF ~optional /\ src[open] = "[" /\ paren # 0
            THEN to([k |-> IF image THEN "img" ELSE "link", text |-> inner.v, url |-> url.v], inner.errs \union url.errs, paren + 1)
       ELSE IF src[j] # "[" THEN literal({}, j + 1)
       ELSE IF close = 0 THEN literal({"unclosed ["}, j + 1)
       ELSE IF ref.v = Unwritten THEN literal(ref.errs, close + 1)
       ELSE to(ref.v, ref.errs, close + 1)

ParseText(src, start, end) ==
    IF start >= end THEN [v |-> <<>>, errs |-> {}]
    ELSE LET at == PartAt(src, start, end)
             rest == ParseText(src, at.next, end)
         IN [v |-> at.parts \o rest.v, errs |-> at.errs \union rest.errs]

Parsed(i, text) == Adding(text.errs, Ok(i, TextExpr(text.v)))

----------------------------------------------------------------------------
(* Expressions                                                             *)

\* A string ends at the next quote, in whatever line that is.
ParseQuoted(src, i) ==
    LET ends == {j \in i + 1 .. Len(src) : src[j] = "\""}
        end == CHOOSE j \in ends : \A k \in ends : j <= k
    IN IF ends = {} THEN Fail(i, "unterminated string") ELSE Parsed(end + 1, ParseText(src, i + 1, end))

\* [...] or ![...], with a (...) that follows
ParseBracketExpr(src, i) ==
    LET open == IF src[i] = "!" THEN i + 1 ELSE i
        close == MatchClose(src, open, Len(src) + 1, "[", "]")
        paren == IF At(src, close + 1) = "(" THEN MatchClose(src, close + 1, Len(src) + 1, "(", ")") ELSE 0
        end == IF paren # 0 THEN paren + 1 ELSE close + 1
    IN IF close = 0 THEN Fail(i, "unclosed [") ELSE Parsed(end, ParseText(src, i, end))

ParseLiteral(src, i) ==
    IF At(src, i) \in Literals THEN Ok(i + 1, [k |-> "lit", value |-> src[i]]) ELSE Fail(i, "expected a value")

ParseOperand(src, from) ==
    LET i == SkipWs(src, from, TRUE)
    IN CASE At(src, i) = "@" -> Then(ReadIdent(src, i + 1), LAMBDA j, name : Ok(j, [k |-> "attr", name |-> name]))
         [] At(src, i) = "\"" -> Then(ParseQuoted(src, i), LAMBDA j, text : Ok(j, [k |-> "text", expr |-> text]))
         [] OTHER -> ParseLiteral(src, i)

RECURSIVE ParseSeq(_, _, _, _, _), ParseCond(_, _), ParseUnary(_, _), ParseTerms(_, _, _, _), ParseArgs(_, _, _),
          ParseChanges(_, _, _), ParsePatterns(_, _, _), ParseArms(_, _, _, _)

\* [?name, ?name]
ParseSet(src, i) ==
    LET closes == {j \in i .. Len(src) : src[j] = "]"}
        close == CHOOSE j \in closes : \A k \in closes : j <= k
        inner == SelectSeq(SubSeq(src, i + 1, close - 1), LAMBDA t : t # " ")
        wellFormed == Len(inner) % 3 = 2 /\ \A n \in DOMAIN inner :
                          CASE n % 3 = 1 -> inner[n] = "?" [] n % 3 = 2 -> IsWord(inner[n]) [] OTHER -> inner[n] = ","
    IN IF closes = {} THEN Fail(i, "unclosed [?")
       ELSE IF ~wellFormed THEN Fail(i, "expected [?name]")
       ELSE Ok(close + 1, [k |-> "set", names |-> SelectSeq(inner, IsWord)])

\* What follows the left operand of a comparison
ParseComparison(src, start, i, left) ==
    LET j == SkipWs(src, i, TRUE)
        with(k) == Then(ParseOperand(src, j + 1), LAMBDA n, right : Ok(n, [k |-> k, left |-> left, right |-> right]))
    IN CASE At(src, j) \in Comparisons -> with(At(src, j))
         [] At(src, j) = "in" -> with("in")
         [] OTHER -> IF left.k = "attr" \/ (left.k = "lit" /\ left.value \in {"true", "false"}) THEN Ok(j, [k |-> "truthy", left |-> left])
                     ELSE Fail(j, "expected a condition")

ParseUnary(src, from) ==
    LET i == SkipWs(src, from, TRUE)
    IN CASE At(src, i) = "not" -> Then(ParseUnary(src, i + 1), LAMBDA j, c : Ok(j, [k |-> "not", c |-> c]))
         [] At(src, i) = "(" -> Then(ParseCond(src, i + 1), LAMBDA j, c : Then(Expect(src, j, ")"), LAMBDA k, t : Ok(k, c)))
         [] At(src, i) = "[" /\ At(src, i + 1) = "?" -> ParseSet(src, i)
         [] OTHER -> Then(ParseOperand(src, i), LAMBDA j, left : ParseComparison(src, i, j, left))

\* Terms under one operator; items: those before i
ParseTerms(src, i, op, items) ==
    LET j == SkipWs(src, i, TRUE)
        w == At(src, j)
    IN IF w \notin {"and", "or"} THEN Ok(j, IF op = Unwritten THEN items[1] ELSE [k |-> op, items |-> items])
       ELSE IF op \notin {Unwritten, w} THEN Fail(j, "mixing and and or")
       ELSE Then(ParseUnary(src, j + 1), LAMBDA n, c : ParseTerms(src, n, w, Append(items, c)))

ParseCond(src, i) == Then(ParseUnary(src, i), LAMBDA j, c : ParseTerms(src, j, Unwritten, <<c>>))

\* The body of a block and the word that closes it; an else if it may have one
ParseBody(src, i, stops) == ParseSeq(src, i, stops, FALSE, <<>>)
ParseBlock(src, i) == Then(ParseBody(src, i, {"end"}), LAMBDA j, b : Then(Expect(src, j, "end"), LAMBDA k, t : Ok(k, b)))

ParseBranches(src, from) ==
    Then(Expect(src, from, ":"), LAMBDA i, t :
    Then(ParseBody(src, i, {"end", "else"}), LAMBDA j, body :
        LET k == SkipWs(src, j, TRUE)
        IN IF At(src, k) # "else" THEN Then(Expect(src, k, "end"), LAMBDA n, e : Ok(n, <<body, Unwritten>>))
           ELSE Then(Expect(src, k + 1, ":"), LAMBDA n, c : Then(ParseBlock(src, n), LAMBDA m, b : Ok(m, <<body, b>>)))))

ParseIf(src, i) ==
    Then(ParseCond(src, i), LAMBDA j, cond :
    Then(ParseBranches(src, j), LAMBDA k, b : Ok(k, [k |-> "if", cond |-> cond, then |-> b[1], else |-> b[2]])))
ParseIfdef(src, i) == Then(ParseBranches(src, i), LAMBDA k, b : Ok(k, [k |-> "ifdef", body |-> b[1], else |-> b[2]]))

\* Arguments after the opening parenthesis
ParseArgs(src, i, args) ==
    Then(ParseBody(src, i, {",", ")"}), LAMBDA from, e :
        LET j == SkipWs(src, from, TRUE)
        IN CASE At(src, j) = "," -> ParseArgs(src, j + 1, Append(args, e))
             [] At(src, j) = ")" -> Ok(j + 1, Append(args, e))
             [] OTHER -> Fail(j, "expected , or )"))

ParseCondCall(src, i) ==
    Then(Expect(src, i, "("), LAMBDA j, t : Then(ParseCond(src, j), LAMBDA k, cond : Then(Expect(src, k, ","), LAMBDA n, c :
    Then(ParseArgs(src, n, <<>>), LAMBDA m, rest :
        IF Len(rest) > 2 THEN Fail(m, "cond takes one or two values")
        ELSE Ok(m, [k |-> "if", cond |-> cond, then |-> rest[1], else |-> IF Len(rest) = 2 THEN rest[2] ELSE Unwritten])))))

ParseJoin(src, i) ==
    Then(Expect(src, i, "("), LAMBDA j, t : Then(ParseArgs(src, j, <<>>), LAMBDA k, args :
        Ok(k, [k |-> "join", sep |-> Head(args), items |-> Tail(args)])))

\* +name, -name, ...)
ParseChanges(src, from, changes) ==
    LET i == SkipWs(src, from, TRUE)
        j == SkipWs(src, i + 2, TRUE)
        all == Append(changes, <<At(src, i), At(src, i + 1)>>)
    IN CASE At(src, i) \notin {"+", "-"} -> Fail(i, "expected +name or -name")
         [] At(src, i) \in {"+", "-"} /\ ReadIdent(src, i + 1).failed -> Fail(i + 1, "expected a style name")
         [] OTHER -> CASE At(src, j) = "," -> ParseChanges(src, j + 1, all)
                       [] At(src, j) = ")" -> Ok(j + 1, all)
                       [] OTHER -> Fail(j, "expected , or )")

\* A style with a body if a colon follows
ParseStyle(src, i) ==
    LET style(j, changes) ==
            LET k == SkipInline(src, j)
            IN IF At(src, k) # ":" THEN Ok(k, [k |-> "style", changes |-> changes, body |-> Unwritten])
               ELSE Then(ParseBlock(src, k + 1), LAMBDA n, b : Ok(n, [k |-> "style", changes |-> changes, body |-> b]))
    IN Then(Expect(src, i, "("), LAMBDA j, t : Then(ParseChanges(src, j, <<>>), style))

\* A literal, or a string with or without globs
ParsePattern(src, i) ==
    LET start == IF At(src, i) = "*" THEN i + 1 ELSE i
        ends == {j \in start + 1 .. Len(src) : src[j] = "\""}
        close == CHOOSE j \in ends : \A k \in ends : j <= k
        value == IF At(src, start) # "\"" THEN ParseLiteral(src, start)
                 ELSE IF ends = {} THEN Fail(start, "unterminated string")
                 ELSE Ok(close + 1, [k |-> "str", text |-> SubSeq(src, start, close)])
        glob(j, v) ==
            LET k == IF At(src, j) = "*" THEN j + 1 ELSE j
            IN IF v.k # "str" /\ (start > i \/ k > j) THEN Fail(k, "* only applies to strings")
               ELSE Ok(k, [value |-> v, globStart |-> start > i, globEnd |-> k > j])
    IN Then(value, glob)

ParsePatterns(src, i, patterns) ==
    Then(ParsePattern(src, SkipWs(src, i, TRUE)), LAMBDA j, p :
        LET k == SkipWs(src, j, TRUE)
        IN IF At(src, k) = "," THEN ParsePatterns(src, k + 1, Append(patterns, p)) ELSE Ok(k, Append(patterns, p)))

\* The arms of a match up to its end
ParseArms(src, from, arms, elseArm) ==
    LET i == SkipWs(src, from, TRUE)
        isElse == At(src, i) = "else"
        head == IF isElse THEN Ok(i + 1, <<>>) ELSE ParsePatterns(src, i, <<>>)
        arm(n, patterns, body) ==
            IF ~isElse THEN ParseArms(src, n, Append(arms, [patterns |-> patterns, body |-> body]), elseArm)
            ELSE Adding(IF elseArm = Unwritten THEN {} ELSE {"duplicate else arm"}, ParseArms(src, n, arms, body))
    IN IF At(src, i) = "end" THEN Ok(i + 1, <<arms, elseArm>>)
       ELSE IF i > Len(src) THEN Fail(i, "expected end to close match")
       ELSE Then(head, LAMBDA j, patterns : Then(Expect(src, j, "=>"), LAMBDA k, t :
            Then(ParseBody(src, k, {"."}), LAMBDA m, body : Then(Expect(src, m, "."), LAMBDA n, d : arm(n, patterns, body)))))

ParseMatch(src, i) ==
    Then(ParseOperand(src, i), LAMBDA j, subject : Then(Expect(src, j, ":"), LAMBDA k, t :
    Then(ParseArms(src, k, <<>>, Unwritten), LAMBDA n, a : Ok(n, [k |-> "match", subject |-> subject, arms |-> a[1], elseArm |-> a[2]]))))

\* name(...): a call; a bare name is an error
ParseBareCall(src, i) ==
    LET call(args) == TextExpr(<<[k |-> "ref", name |-> src[i], args |-> args, variant |-> Unwritten, fallback |-> Unwritten, optSpace |-> FALSE]>>)
        j == SkipWs(src, i + 2, TRUE)
    IN IF At(src, i + 1) # "(" THEN Fail(i + 1, "unexpected name")
       ELSE IF At(src, j) = ")" THEN Ok(j + 1, call(<<>>))
       ELSE Then(ParseArgs(src, j, <<>>), LAMBDA n, args : Ok(n, call(args)))

ParseItem(src, i) ==
    LET c == src[i]
    IN CASE c = "\"" -> ParseQuoted(src, i)
         [] c = "[" \/ (c = "!" /\ At(src, i + 1) = "[") -> ParseBracketExpr(src, i)
         [] c = "ifdef" -> ParseIfdef(src, i + 1)
         [] c = "if" -> ParseIf(src, i + 1)
         [] c = "match" -> ParseMatch(src, i + 1)
         [] c = "cond" -> ParseCondCall(src, i + 1)
         [] c = "join" -> ParseJoin(src, i + 1)
         [] c = "style" -> ParseStyle(src, i + 1)
         [] c \in {"else", "end"} -> Fail(i, "unexpected word")
         [] OTHER -> IF IsWord(c) THEN ParseBareCall(src, i) ELSE Fail(i, "unexpected mark")

\* Adjacent expressions up to a token of stops or, if it stops there, the end
\* of the line
ParseSeq(src, from, stops, eolStops, items) ==
    LET i == SkipWs(src, from, ~eolStops)
        ends == i > Len(src) \/ (eolStops /\ AtEol(src, i)) \/ At(src, i) \in stops
    IN IF ends THEN Ok(i, IF Len(items) = 1 THEN items[1] ELSE [k |-> "seq", items |-> items])
       ELSE Then(ParseItem(src, i), LAMBDA j, e : ParseSeq(src, j, stops, eolStops, Append(items, e)))

----------------------------------------------------------------------------
(* Programs                                                                *)

LineIsBlank(src, i) == \A j \in i .. EolIndex(src, i) - 1 : src[j] = " "

\* The next line that starts in column 0
Recover(src, i) ==
    LET starts == {j \in i + 1 .. Len(src) : src[j - 1] = "\n" /\ src[j] \notin {" ", "\n"}}
    IN IF starts = {} THEN Len(src) + 1 ELSE CHOOSE j \in starts : \A k \in starts : j <= k

LooksLikeDefinition(src, i) ==
    LET eol == EolIndex(src, i)
        closes == {j \in i + 2 .. eol - 1 : src[j] = ")"}
        afterName == SkipInline(src, i + 1)
        params == At(src, afterName) = "(" /\ closes # {}
        close == CHOOSE j \in closes : \A k \in closes : j <= k
    IN /\ i \in DOMAIN src /\ IsWord(src[i])
       /\ At(src, IF params THEN SkipInline(src, close + 1) ELSE afterName) = "="

\* A directive: its kind, the name wrap binds, its body
ParseDirective(src, i) ==
    LET block(from, kind, name) ==
            Then(Expect(src, from, ":"), LAMBDA j, t : Then(ParseBlock(src, j), LAMBDA k, body : Ok(k, [kind |-> kind, name |-> name, body |-> body])))
        named(j, t) == Then(ReadIdent(src, SkipWs(src, j, FALSE)), LAMBDA k, name : block(k, "wrap", name))
    IN CASE At(src, i) = "wrap" -> Then(Expect(src, i + 1, "as"), named)
         [] At(src, i) \in {"tooltip", "behavior"} -> block(i + 1, At(src, i), Unwritten)
         [] OTHER -> Fail(i, "expected a directive")

\* The program with a directive; a second one of its kind is an error.
Directed(p, d) ==
    CASE d.kind = "behavior" -> p
      [] d.kind = "wrap" -> IF p.wrap # Unwritten THEN Adding({"only one wrap"}, p) ELSE [p EXCEPT !.wrap = d]
      [] d.kind = "tooltip" -> IF p.tooltip # Unwritten THEN Adding({"only one tooltip"}, p) ELSE [p EXCEPT !.tooltip = d]

RECURSIVE ParseDirectives(_, _, _), ParseDefinitions(_, _, _), ParseParams(_, _, _)
ParseDirectives(p, src, i) ==
    LET j == SkipInline(src, i)
        d == ParseDirective(src, j)
        k == SkipWs(src, d.i, FALSE)
        next == Adding(d.errs, IF d.failed THEN p ELSE Directed(p, d.v))
    IN IF i > Len(src) THEN [p EXCEPT !.i = i]
       ELSE IF LineIsBlank(src, i) THEN [p EXCEPT !.i = EolIndex(src, i) + 1]
       ELSE IF At(src, j) = "#" THEN ParseDirectives(p, src, EolIndex(src, j) + 1)
       ELSE IF LooksLikeDefinition(src, i) THEN [p EXCEPT !.i = i]
       ELSE IF d.failed THEN ParseDirectives(next, src, Recover(src, d.i))
       ELSE IF AtEol(src, k) THEN ParseDirectives(next, src, k + 1)
       ELSE ParseDirectives(Adding({"unexpected text after directive"}, next), src, Recover(src, k))

ParseParams(src, from, params) ==
    LET i == SkipInline(src, from)
        more(j, name) ==
            LET k == SkipInline(src, j)
            IN IF \E n \in DOMAIN params : params[n] = name THEN Fail(j, "duplicate parameter")
               ELSE CASE At(src, k) = "," -> ParseParams(src, k + 1, Append(params, name))
                      [] At(src, k) = ")" -> Ok(k + 1, Append(params, name))
                      [] OTHER -> Fail(k, "expected , or )")
    IN IF params = <<>> /\ At(src, i) = ")" THEN Ok(i + 1, <<>>) ELSE Then(ReadIdent(src, i), more)

\* The end of the lines from i on that are blank or indented by indent
BlockEnd(src, i, indent) ==
    LET lines == {j \in i .. Len(src) : j = i \/ src[j - 1] = "\n"}
        less == {j \in lines : ~LineIsBlank(src, j) /\ SkipInline(src, j) - j < indent}
    IN IF less = {} THEN Len(src) + 1 ELSE CHOOSE j \in less : \A k \in less : j <= k

\* The rest of the line, or the block of indented lines below it
ParseDefinitionBody(src, from) ==
    LET i == SkipWs(src, from, FALSE)
        start == i + 1
        indent == SkipInline(src, start) - start
        end == BlockEnd(src, start, indent)
        sub == SubSeq(src, 1, end - 1)
        whole(j, e) == IF SkipWs(sub, j, TRUE) <= Len(sub) THEN Fail(i, "unexpected text in definition") ELSE Ok(end, e)
        inBlock == Then(ParseSeq(sub, start, {}, FALSE, <<>>), whole)
    IN IF ~AtEol(src, i) THEN ParseSeq(src, i, {}, TRUE, <<>>)
       ELSE IF indent = 0 \/ LineIsBlank(src, start) THEN Ok(start, TextExpr(<<>>))
       ELSE inBlock

\* name(params)=body
ParseDefinition(src, i) ==
    LET body(params, j) ==
            LET k == SkipInline(src, j)
            IN IF At(src, k) # "=" THEN Fail(k, "expected =")
               ELSE Then(ParseDefinitionBody(src, k + 1), LAMBDA n, e : Ok(n, [name |-> src[i], params |-> params, expr |-> e]))
        signature(j, name) ==
            LET k == SkipInline(src, j)
            IN IF At(src, k) = "(" THEN Then(ParseParams(src, k + 1, <<>>), LAMBDA n, params : body(params, n)) ELSE body(<<>>, k)
    IN Then(ReadIdent(src, i), signature)

\* Where the definitions go on after one that starts at start: after it, or at
\* the next line in column 0 after its first.  Mutation: after where the
\* parser stopped.
ResumePointWhereStopped(src, start, d) == IF d.failed THEN Recover(src, d.i) ELSE d.i

ResumePoint(src, start, d) == IF d.failed THEN Recover(src, start) ELSE d.i

Defined(p, d) ==
    IF \E n \in DOMAIN p.defs : p.defs[n].name = d.name THEN Adding({"duplicate definition"}, p) ELSE [p EXCEPT !.defs = Append(@, d)]

ParseDefinitions(p, src, from) ==
    LET i == SkipWs(src, from, TRUE)
        d == ParseDefinition(src, i)
    IN IF i > Len(src) THEN p
       ELSE ParseDefinitions(Adding(d.errs, IF d.failed THEN p ELSE Defined(p, d.v)), src, ResumePoint(src, i, d))

ParseProgram(src) ==
    LET eol == EolIndex(src, 1)
        top == ParseText(src, 1, eol)
        empty == [toplevel |-> top.v, wrap |-> Unwritten, tooltip |-> Unwritten, defs |-> <<>>, errs |-> top.errs, i |-> eol + 1]
        directed == ParseDirectives(empty, src, eol + 1)
    IN ParseDefinitions(directed, src, directed.i)

----------------------------------------------------------------------------
(* The editor                                                              *)

\* The pieces one below the other
Lines(pieces) == FlattenSeq([n \in DOMAIN pieces |-> pieces[n] \o <<"\n">>])
Source(top, dirs, blank, defs) ==
    Lines(<<top>> \o dirs) \o (IF blank THEN <<"\n">> ELSE <<>>) \o Lines([n \in DOMAIN defs |-> defs[n].tokens])

WriteTopline == topline' \in Toplines /\ UNCHANGED <<directives, spaced, definitions>>

WriteDirective ==
    /\ Len(directives) < MaxDirectives
    /\ \E d \in Directives : directives' = Append(directives, d)
    /\ UNCHANGED <<topline, spaced, definitions>>

WriteDefinition ==
    /\ Len(definitions) < MaxDefinitions
    /\ \E d \in Definitions : \E n \in 1 .. Len(definitions) + 1 : definitions' = InsertAt(definitions, n, d)
    /\ UNCHANGED <<topline, directives, spaced>>

Space == spaced' = ~spaced /\ UNCHANGED <<topline, directives, definitions>>

ParserInit == topline \in Toplines /\ directives = <<>> /\ spaced = TRUE /\ definitions = <<>>

ParserNext == WriteTopline \/ WriteDirective \/ WriteDefinition \/ Space

ParserSpec == ParserInit /\ [][ParserNext]_parserVars

----------------------------------------------------------------------------
(* Properties                                                              *)

\* What a definition is when it stands alone
Alone(d) == ParseProgram(Source(<<>>, <<>>, TRUE, <<d>>))
WellFormed(d) == Alone(d).errs = {}

\* Errors stay where they are: after every edit, while everything else in the
\* format parses, a definition that does not costs no other one ("Errors inside a directive or
\* definition are recorded as diagnostics and parsing resumes at the next
\* line"): the others mean what they mean alone, and the error is told.
ErrorsLocal(top, dirs, blank, defs) ==
    LET before == ParseProgram(Source(top, dirs, blank, <<>>))
        all == ParseProgram(Source(top, dirs, blank, defs))
        malformed == {n \in DOMAIN defs : ~WellFormed(defs[n])}
        first(n) == \A k \in 1 .. n - 1 : defs[k].name # defs[n].name
    IN before.errs = {} /\ Cardinality(malformed) <= 1 =>
           /\ malformed # {} => all.errs # {}
           /\ all.wrap = before.wrap /\ all.tooltip = before.tooltip
           /\ \A n \in DOMAIN defs \ malformed :
                  first(n) => \E k \in DOMAIN all.defs : all.defs[k] = Alone(defs[n]).defs[1]

ErrorsStayLocal == [][ErrorsLocal(topline', directives', spaced', definitions')]_parserVars

\* Without the conditions (not an invariant: a directive that is not closed
\* and two strings that are not take definitions with them, see the README).
NothingLost ==
    LET all == ParseProgram(Source(topline, directives, spaced, definitions))
    IN \A n \in DOMAIN definitions : WellFormed(definitions[n]) => \E k \in DOMAIN all.defs : all.defs[k].name = definitions[n].name
=============================================================================
