------------------------------ MODULE ListrFormat ------------------------------
(***************************************************************************)
(* The format language: the checks of a parsed format against the board's  *)
(* schema (format/check.ts), its evaluation on an item (evaluate.ts,       *)
(* values.ts), what a list inherits from its board (index.ts), and the     *)
(* forms that save formats and schemas after checking them                 *)
(* (BoardFormModal.tsx, the form of a list).                               *)
(*                                                                         *)
(* A program is the record of ast.ts, an expression a record with a field  *)
(* k.  Rendered text is a sequence of tokens: <<"lit", x>>, <<"blank">>,   *)
(* <<"tag", x>> for an HTML tag, <<variant, raw>> for a rendered value.    *)
(* Styles are left out: no condition reads them.  A raw value is tagged    *)
(* with its JavaScript type.                                               *)
(***************************************************************************)
EXTENDS Integers, Sequences, SequencesExt, FiniteSets, TLC

CONSTANTS
    Missing,       \* undefined
    MaxDepth,      \* MAX_DEPTH
    Toplevels,     \* the texts a user may write, by part of a program
    Wraps,
    Tooltips,
    Bodies,        \* name of a definition -> the [params, expr] it may get
    Types,         \* name of an attribute -> the types it may get, or Missing
    Items,         \* what items hold: name of an attribute -> raw value
    MaxOwn         \* bound: the parts a list writes beside its toplevel line

VARIABLES
    boardFormat,   \* the board's program
    listFormat,    \* the list's own, or Missing
    schema         \* name of an attribute -> type

formatVars == <<boardFormat, listFormat, schema>>

----------------------------------------------------------------------------
(* values.ts                                                               *)

BuiltinTypes == [title |-> "text", created_at |-> "datetime", updated_at |-> "datetime"]

AttrType(key, sch) ==
    IF key \in DOMAIN BuiltinTypes THEN BuiltinTypes[key] ELSE IF key \in DOMAIN sch THEN sch[key] ELSE Missing

ValueTypeOf(type) ==
    CASE type \in {"number", "integer", "duration"} -> "num"
      [] type = "boolean" -> "bool"
      [] type = "todo" -> "todo"
      [] type \in {"date", "datetime"} -> "date"
      [] type = "tags" -> "tags"
      [] OTHER -> "str"

IsSet(raw) == raw \notin {<<"undefined">>, <<"str", <<>>>>, <<"tags", <<>>>>}
IsTruthy(raw) == IsSet(raw) /\ raw \notin {<<"num", 0>>, <<"bool", FALSE>>}

\* The stored value; absent booleans are false.
RawValue(it, key, type) ==
    IF type = "boolean" /\ it[key] = <<"undefined">> THEN <<"bool", FALSE>> ELSE it[key]

TypedValue(raw, type) ==
    CASE type = "todo" -> [t |-> "todo", v |-> IF IsSet(raw) THEN raw ELSE <<"str", <<<<"lit", "unchecked">>>>>>]
      [] type # "todo" /\ ~IsSet(raw) -> [t |-> "none", v |-> <<"undefined">>]
      [] OTHER -> [t |-> IF type = Missing THEN "str" ELSE ValueTypeOf(type), v |-> raw]

AnyVariants == {"str", "url", "upper", "lower"}
IsTextVariant(variant) == variant \in AnyVariants

VariantError(variant, type) ==
    /\ variant \notin AnyVariants
    /\ ~(variant = "stars" /\ type \in {"number", "integer"})
    /\ ~(variant = "short" /\ type \in {"duration", "date", "datetime"})

\* Texts are rendered as they are, other values as one token.
RenderValue(raw, variant) ==
    IF raw[1] = "str" /\ variant \in {Missing, "str"} THEN raw[2]
    ELSE <<<<IF variant = Missing THEN "default" ELSE variant, raw>>>>

TypesComparable(a, b, op) == a = b /\ (op \in {"==", "!="} \/ a \in {"num", "str", "date"})

\* Only numbers are put in order: the instances compare nothing else.
Ordered(op, x, y) ==
    /\ x[1] = "num" /\ y[1] = "num"
    /\ CASE op = "<" -> x[2] < y[2] [] op = "<=" -> x[2] <= y[2] [] op = ">" -> x[2] > y[2] [] op = ">=" -> x[2] >= y[2]

Compare(op, a, b) ==
    IF a.t = "none" \/ b.t = "none" THEN op = IF a.t = b.t THEN "==" ELSE "!="
    ELSE /\ TypesComparable(a.t, b.t, op)
         /\ CASE op = "==" -> a.v = b.v
              [] op = "!=" -> a.v # b.v
              [] OTHER -> Ordered(op, a.v, b.v)

Within(s, t) == \E i \in 0 .. Len(t) - Len(s) : SubSeq(t, i + 1, i + Len(s)) = s

HasValue(needle, hay) ==
    /\ needle.t # "none"
    /\ \/ hay.t = "tags" /\ hay.v[1] = "tags" /\ \E i \in DOMAIN hay.v[2] : hay.v[2][i] = needle.v
       \/ hay.t = "str" /\ hay.v[1] = "str" /\ needle.v[1] = "str" /\ Within(needle.v[2], hay.v[2])

----------------------------------------------------------------------------
(* check.ts.  A check returns the set of what it finds: <<"error", what,   *)
(* base>>, <<"warning", what, base>>, and <<"dep", name>> for a definition *)
(* that is referred to.  A scope is [locals, base]; base: the text is an   *)
(* inherited one.                                                          *)

Error(what, scope) == {<<"error", what, scope.base>>}

Known(p, sch, name, scope) == AttrType(name, sch) # Missing \/ name \in scope.locals \/ name \in DOMAIN p.defs

CheckName(p, sch, name, scope) ==
    IF AttrType(name, sch) # Missing \/ name \in scope.locals THEN {}
    ELSE IF name \in DOMAIN p.defs THEN {<<"dep", name>>} ELSE Error("unknown attribute", scope)

\* A reference passes a definition the arguments it takes; mutation: it may
\* pass fewer.
CheckArityAtMost(p, sch, ref, scope) ==
    LET isDef == AttrType(ref.name, sch) = Missing /\ ref.name \notin scope.locals /\ ref.name \in DOMAIN p.defs
        params == IF isDef THEN p.defs[ref.name].params ELSE <<>>
    IN IF Len(ref.args) > Len(params) THEN Error("arguments", scope) ELSE {}

CheckArity(p, sch, ref, scope) ==
    LET isDef == AttrType(ref.name, sch) = Missing /\ ref.name \notin scope.locals /\ ref.name \in DOMAIN p.defs
        params == IF isDef THEN p.defs[ref.name].params ELSE <<>>
    IN IF (ref.args # <<>> /\ params = <<>>) \/ (isDef /\ Len(ref.args) # Len(params)) THEN Error("arguments", scope) ELSE {}

CheckVariant(sch, ref, scope) ==
    LET type == AttrType(ref.name, sch)
        bad == ref.variant # Missing
               /\ IF type # Missing THEN VariantError(ref.variant, type) ELSE ~IsTextVariant(ref.variant)
    IN IF bad THEN Error("variant", scope) ELSE {}

OperandType(sch, operand) ==
    CASE operand.k = "attr" -> LET type == AttrType(operand.name, sch) IN IF type = Missing THEN Missing ELSE ValueTypeOf(type)
      [] operand.k = "lit" -> operand.value.t
      [] operand.k = "text" -> "str"

RECURSIVE CheckText(_, _, _, _), CheckExpr(_, _, _, _), CheckCond(_, _, _, _)

CheckAll(Check(_, _, _, _), p, sch, items, scope) == UNION {Check(p, sch, items[i], scope) : i \in DOMAIN items}

CheckOperand(p, sch, operand, scope) ==
    CASE operand.k = "attr" -> IF AttrType(operand.name, sch) # Missing THEN {} ELSE Error("no attribute", scope)
      [] operand.k = "lit" -> {}
      [] operand.k = "text" -> CheckExpr(p, sch, operand.expr, scope)

CheckRef(p, sch, ref, scope) ==
    CheckName(p, sch, ref.name, scope)
    \union IF ~Known(p, sch, ref.name, scope) THEN {}
           ELSE CheckArity(p, sch, ref, scope) \union CheckVariant(sch, ref, scope)
                \union CheckAll(CheckExpr, p, sch, ref.args, scope)
                \union IF ref.fallback = Missing THEN {} ELSE CheckText(p, sch, ref.fallback, scope)

CheckText(p, sch, parts, scope) ==
    UNION {LET part == parts[i]
           IN CASE part.k = "lit" -> {}
                [] part.k = "ref" -> CheckRef(p, sch, part, scope)
                [] part.k \in {"link", "img"} -> CheckText(p, sch, part.text, scope) \union CheckText(p, sch, part.url, scope)
           : i \in DOMAIN parts}

\* [?name, ...]
CheckSet(p, sch, name, scope) ==
    CheckName(p, sch, name, scope)
    \union (IF AttrType(name, sch) = "boolean" THEN {<<"warning", "always set", scope.base>>} ELSE {})
    \union (IF name \notin scope.locals /\ name \in DOMAIN p.defs /\ p.defs[name].params # <<>>
            THEN Error("needs arguments", scope) ELSE {})

CheckCond(p, sch, cond, scope) ==
    CASE cond.k = "truthy" -> CheckOperand(p, sch, [k |-> "attr", name |-> cond.name], scope)
      [] cond.k = "set" -> CheckAll(CheckSet, p, sch, cond.names, scope)
      [] cond.k = "lit" -> {}
      [] cond.k = "cmp" ->
            LET a == OperandType(sch, cond.left)
                b == OperandType(sch, cond.right)
            IN CheckOperand(p, sch, cond.left, scope) \union CheckOperand(p, sch, cond.right, scope)
               \union IF a # Missing /\ b # Missing /\ ~TypesComparable(a, b, cond.op) THEN Error("cannot compare", scope) ELSE {}
      [] cond.k = "in" ->
            CheckOperand(p, sch, cond.needle, scope) \union CheckOperand(p, sch, cond.hay, scope)
            \union IF OperandType(sch, cond.hay) \in {Missing, "tags", "str"} THEN {} ELSE Error("in", scope)
      [] cond.k = "not" -> CheckCond(p, sch, cond.c, scope)
      [] cond.k \in {"and", "or"} -> CheckAll(CheckCond, p, sch, cond.items, scope)

CheckOptional(p, sch, expr, scope) == IF expr = Missing THEN {} ELSE CheckExpr(p, sch, expr, scope)

CheckArms(p, sch, expr, scope) ==
    LET subject == OperandType(sch, expr.subject)
    IN UNION {CheckExpr(p, sch, expr.arms[i].body, scope)
              \union IF subject # Missing /\ \E j \in DOMAIN expr.arms[i].patterns : expr.arms[i].patterns[j].value.t # subject
                     THEN Error("never matches", scope) ELSE {}
              : i \in DOMAIN expr.arms}

CheckExpr(p, sch, expr, scope) ==
    CASE expr.k = "text" -> CheckText(p, sch, expr.parts, scope)
      [] expr.k = "verbatim" -> {}
      [] expr.k = "seq" -> CheckAll(CheckExpr, p, sch, expr.items, scope)
      [] expr.k = "if" -> CheckCond(p, sch, expr.cond, scope) \union CheckExpr(p, sch, expr.then, scope)
                          \union CheckOptional(p, sch, expr.else, scope)
      [] expr.k = "ifdef" -> CheckExpr(p, sch, expr.body, scope) \union CheckOptional(p, sch, expr.else, scope)
      [] expr.k = "match" -> CheckOperand(p, sch, expr.subject, scope) \union CheckArms(p, sch, expr, scope)
                             \union CheckOptional(p, sch, expr.elseArm, scope)
      [] expr.k = "join" -> CheckExpr(p, sch, expr.sep, scope) \union CheckAll(CheckExpr, p, sch, expr.items, scope)
      [] expr.k = "style" -> CheckOptional(p, sch, expr.body, scope)

\* Names that are taken
Shadowing(p, sch) ==
    UNION {LET def == p.defs[n]
               taken == AttrType(n, sch) # Missing
                        \/ \E i \in DOMAIN def.params : AttrType(def.params[i], sch) # Missing \/ def.params[i] \in DOMAIN p.defs
           IN IF taken THEN Error("shadows", def) ELSE {}
           : n \in DOMAIN p.defs}
    \union IF p.wrap = Missing THEN {}
           ELSE IF AttrType(p.wrap.name, sch) # Missing \/ p.wrap.name \in DOMAIN p.defs THEN Error("shadows", p.wrap) ELSE {}

\* What the check of each definition found
DefFindings(p, sch) == [n \in DOMAIN p.defs |->
    CheckExpr(p, sch, p.defs[n].expr, [locals |-> ToSet(p.defs[n].params), base |-> p.defs[n].base])]

\* The walk of the definitions that refer to each other, in some order: done
\* and the names found in a cycle.  Mutation: a cycle is seen only when it
\* comes back to where the walk started.
RECURSIVE Visit(_, _, _, _)
Visited(v, deps, names, stack) == FoldLeft(LAMBDA w, n : Visit(w, deps, n, stack), v, names)
Visit(v, deps, name, stack) ==
    IF name \in v.done THEN v
    ELSE IF \E i \in DOMAIN stack : stack[i] = name
         THEN LET from == CHOOSE i \in DOMAIN stack : stack[i] = name
              IN [v EXCEPT !.inCycle = @ \union {stack[i] : i \in from .. Len(stack)}]
         ELSE LET w == Visited(v, deps, SetToSeq(deps[name]), Append(stack, name))
              IN [w EXCEPT !.done = @ \union {name}]

InCycleDirect(deps) == {n \in DOMAIN deps : n \in deps[n]}

InCycle(deps) == Visited([done |-> {}, inCycle |-> {}], deps, SetToSeq(DOMAIN deps), <<>>).inCycle

CheckProgram(p, sch) ==
    LET none == [locals |-> {}, base |-> p.toplevelBase]
        found == DefFindings(p, sch)
        deps == [n \in DOMAIN found |-> {f[2] : f \in {x \in found[n] : x[1] = "dep"}}]
    IN Shadowing(p, sch) \union CheckText(p, sch, p.toplevel, none)
       \union (IF p.wrap = Missing THEN {} ELSE CheckExpr(p, sch, p.wrap.body, [locals |-> {p.wrap.name}, base |-> p.wrap.base]))
       \union (IF p.tooltip = Missing THEN {} ELSE CheckExpr(p, sch, p.tooltip.body, [locals |-> {}, base |-> p.tooltip.base]))
       \union UNION {found[n] : n \in DOMAIN found}
       \union UNION {Error("cycle", p.defs[n]) : n \in InCycle(deps)}

Errors(p, sch) == {f \in CheckProgram(p, sch) : f[1] = "error"}

----------------------------------------------------------------------------
(* evaluate.ts.  c is [program, schema, item]; a result is [out, faults],  *)
(* the tokens and what the checks should have excluded.  An environment    *)
(* maps a name to [expr, env].                                             *)

Nothing == [out |-> <<>>, faults |-> {}]
Token(t) == [out |-> t, faults |-> {}]
Fault(f) == [out |-> <<>>, faults |-> {f}]
Joined(r, s) == [out |-> r.out \o s.out, faults |-> r.faults \union s.faults]
JoinedAll(rs) == FoldLeft(Joined, Nothing, rs)
Except(f, r) == [r EXCEPT !.faults = @ \union f]

IsEmptyRuns(out) == \A i \in DOMAIN out : out[i] = <<"blank">>
PlainText(out) == SelectSeq(out, LAMBDA t : t[1] # "tag")
Text(parts) == [k |-> "text", parts |-> parts]

\* The references that ifdef tests
RECURSIVE RequiredInText(_), CollectRequiredRefs(_)
RequiredInText(parts) == FlattenSeq([i \in DOMAIN parts |->
    LET p == parts[i]
    IN CASE p.k = "ref" /\ p.fallback = Missing /\ ~p.optSpace -> <<p>>
         [] p.k \in {"link", "img"} -> RequiredInText(p.text) \o RequiredInText(p.url)
         [] OTHER -> <<>>])
CollectRequiredRefs(expr) ==
    CASE expr.k = "text" -> RequiredInText(expr.parts)
      [] expr.k = "seq" -> FlattenSeq([i \in DOMAIN expr.items |-> CollectRequiredRefs(expr.items[i])])
      [] expr.k = "style" /\ expr.body # Missing -> CollectRequiredRefs(expr.body)
      [] OTHER -> <<>>

RECURSIVE EvalText(_, _, _, _), EvalExpr(_, _, _, _), EvalCond(_, _, _, _)

\* A binding or a definition, in place; nothing for another name.
EvalNamed(c, name, args, env, depth) ==
    LET isDef == AttrType(name, c.schema) = Missing /\ name \in DOMAIN c.program.defs
        params == IF isDef THEN c.program.defs[name].params ELSE <<>>
        bound == [x \in ToSet(params) |->
                     LET i == CHOOSE j \in DOMAIN params : params[j] = x
                     IN [expr |-> IF i <= Len(args) THEN args[i] ELSE Text(<<>>), env |-> env]]
    IN IF depth > MaxDepth THEN Fault("depth")
       ELSE IF name \in DOMAIN env
            THEN Except(IF args = <<>> THEN {} ELSE {"arguments"}, EvalExpr(c, env[name].expr, env[name].env, depth + 1))
       ELSE IF isDef
            THEN Except(IF Len(args) = Len(params) THEN {} ELSE {"arguments"},
                        EvalExpr(c, c.program.defs[name].expr, bound, depth + 1))
       ELSE Fault("unknown")

\* [holds, faults]
NameIsSet(c, name, args, env, depth) ==
    LET type == AttrType(name, c.schema)
        r == EvalNamed(c, name, args, env, depth)
    IN IF name \notin DOMAIN env /\ type # Missing THEN [holds |-> IsSet(RawValue(c.item, name, type)), faults |-> {}]
       ELSE [holds |-> ~IsEmptyRuns(r.out), faults |-> r.faults]

\* A variant applied to rendered text: str and url drop the tags.
ApplyTextVariant(out, variant) ==
    CASE variant = "str" -> PlainText(out)
      [] variant = "url" -> IF PlainText(out) = <<>> THEN <<>> ELSE <<<<"url", PlainText(out)>>>>
      [] variant \in {"upper", "lower"} -> [i \in DOMAIN out |-> IF out[i][1] = "lit" THEN <<variant, out[i]>> ELSE out[i]]
      [] OTHER -> out

\* evalRef: [set, value] before the fallback
RefValue(c, ref, env, depth) ==
    LET type == IF ref.name \in DOMAIN env THEN Missing ELSE AttrType(ref.name, c.schema)
        raw == RawValue(c.item, ref.name, type)
        named == EvalNamed(c, ref.name, ref.args, env, depth)
        value == [named EXCEPT !.out = IF ref.variant = Missing THEN @ ELSE ApplyTextVariant(@, ref.variant)]
        bad == (IF ref.args = <<>> THEN {} ELSE {"arguments"})
               \union (IF ref.variant # Missing /\ VariantError(ref.variant, type) THEN {"variant"} ELSE {})
    IN IF type # Missing
       THEN [set |-> IsSet(raw),
             value |-> Except(bad, IF IsSet(raw) \/ (type = "todo" /\ ref.fallback = Missing)
                                   THEN Token(RenderValue(raw, ref.variant)) ELSE Nothing)]
       ELSE [set |-> ~IsEmptyRuns(value.out),
             value |-> Except(IF ref.variant # Missing /\ ~IsTextVariant(ref.variant) THEN {"variant"} ELSE {}, value)]

EvalRef(c, ref, env, depth) ==
    LET r == RefValue(c, ref, env, depth)
        value == IF ~r.set /\ ref.fallback # Missing THEN Except(r.value.faults, EvalText(c, ref.fallback, env, depth)) ELSE r.value
    IN IF value.out # <<>> /\ ref.optSpace THEN Joined(Token(<<<<"blank">>>>), value) ELSE value

EvalPart(c, part, env, depth) ==
    CASE part.k = "lit" -> Token(part.text)
      [] part.k = "ref" -> EvalRef(c, part, env, depth)
      [] part.k = "link" ->
            LET url == EvalText(c, part.url, env, depth)
            IN Except(url.faults, JoinedAll(<<Token(<<<<"tag", url.out>>>>), EvalText(c, part.text, env, depth), Token(<<<<"tag", "/a">>>>)>>))
      [] part.k = "img" ->
            LET url == EvalText(c, part.url, env, depth)
                alt == EvalText(c, part.text, env, depth)
            IN Except(url.faults \union alt.faults, Token(<<<<"tag", url.out, PlainText(alt.out)>>>>))

EvalText(c, parts, env, depth) == JoinedAll([i \in DOMAIN parts |-> EvalPart(c, parts[i], env, depth)])

\* [value, faults]
OperandValue(c, operand, env, depth) ==
    CASE operand.k = "attr" ->
            LET type == AttrType(operand.name, c.schema)
            IN [value |-> TypedValue(RawValue(c.item, operand.name, type), type), faults |-> IF type = Missing THEN {"unknown"} ELSE {}]
      [] operand.k = "lit" -> [value |-> operand.value, faults |-> {}]
      [] operand.k = "text" ->
            LET r == EvalExpr(c, operand.expr, env, depth)
            IN [value |-> [t |-> "str", v |-> <<"str", PlainText(r.out)>>], faults |-> r.faults]

Mismatch(op, a, b) == IF a.t # "none" /\ b.t # "none" /\ ~TypesComparable(a.t, b.t, op) THEN {"types"} ELSE {}

\* A string pattern may be a suffix or a prefix.
Matches(pattern, subject) ==
    LET v == pattern.value.v[2]
        s == subject.v[2]
    IN IF pattern.value.t = "str" /\ subject.t = "str" /\ (pattern.globStart \/ pattern.globEnd)
       THEN IF pattern.globStart /\ pattern.globEnd THEN Within(v, s)
            ELSE IF pattern.globStart THEN IsSuffix(v, s) ELSE IsPrefix(v, s)
       ELSE Compare("==", subject, pattern.value)

EvalMatch(c, expr, env, depth) ==
    LET subject == OperandValue(c, expr.subject, env, depth)
        matching == {i \in DOMAIN expr.arms : \E j \in DOMAIN expr.arms[i].patterns :
                        Matches(expr.arms[i].patterns[j], subject.value)}
        first == CHOOSE i \in matching : \A j \in matching : i <= j
        bad == UNION {UNION {Mismatch("==", subject.value, expr.arms[i].patterns[j].value) : j \in DOMAIN expr.arms[i].patterns}
                      : i \in DOMAIN expr.arms}
    IN Except(subject.faults \union bad,
              IF matching # {} THEN EvalExpr(c, expr.arms[first].body, env, depth)
              ELSE IF expr.elseArm = Missing THEN Nothing ELSE EvalExpr(c, expr.elseArm, env, depth))

\* The pieces that are not empty, with the separator between them
EvalJoin(c, expr, env, depth) ==
    LET all == [i \in DOMAIN expr.items |-> EvalExpr(c, expr.items[i], env, depth)]
        pieces == SelectSeq(all, LAMBDA r : ~IsEmptyRuns(r.out))
        sep == EvalExpr(c, expr.sep, env, depth)
    IN Except(UNION {all[i].faults : i \in DOMAIN all},
              JoinedAll([i \in DOMAIN pieces |-> IF i = 1 THEN pieces[i] ELSE Joined(sep, pieces[i])]))

Branch(c, test, then, else, env, depth) ==
    Except(test.faults, IF test.holds THEN EvalExpr(c, then, env, depth)
                        ELSE IF else = Missing THEN Nothing ELSE EvalExpr(c, else, env, depth))

EvalIfdef(c, expr, env, depth) ==
    LET refs == CollectRequiredRefs(expr.body)
        tests == {NameIsSet(c, refs[i].name, refs[i].args, env, depth) : i \in DOMAIN refs}
    IN Branch(c, [holds |-> \A t \in tests : t.holds, faults |-> UNION {t.faults : t \in tests}], expr.body, expr.else, env, depth)

EvalExpr(c, expr, env, depth) ==
    CASE expr.k = "text" -> EvalText(c, expr.parts, env, depth)
      [] expr.k = "verbatim" -> Token(expr.text)
      [] expr.k = "seq" -> JoinedAll([i \in DOMAIN expr.items |-> EvalExpr(c, expr.items[i], env, depth)])
      [] expr.k = "if" -> Branch(c, EvalCond(c, expr.cond, env, depth), expr.then, expr.else, env, depth)
      [] expr.k = "ifdef" -> EvalIfdef(c, expr, env, depth)
      [] expr.k = "match" -> EvalMatch(c, expr, env, depth)
      [] expr.k = "join" -> EvalJoin(c, expr, env, depth)
      [] expr.k = "style" -> IF expr.body = Missing THEN Nothing ELSE EvalExpr(c, expr.body, env, depth)

\* [holds, faults]; the terms after the one that decides are not evaluated.
EvalCond(c, cond, env, depth) ==
    CASE cond.k = "truthy" ->
            LET type == AttrType(cond.name, c.schema)
            IN [holds |-> type # Missing /\ IsTruthy(RawValue(c.item, cond.name, type)),
                faults |-> IF type = Missing THEN {"unknown"} ELSE {}]
      [] cond.k = "set" ->
            LET tests == {NameIsSet(c, cond.names[i], <<>>, env, depth) : i \in DOMAIN cond.names}
            IN [holds |-> \A t \in tests : t.holds, faults |-> UNION {t.faults : t \in tests}]
      [] cond.k = "lit" -> [holds |-> cond.value, faults |-> {}]
      [] cond.k = "cmp" ->
            LET a == OperandValue(c, cond.left, env, depth)
                b == OperandValue(c, cond.right, env, depth)
            IN [holds |-> Compare(cond.op, a.value, b.value), faults |-> a.faults \union b.faults \union Mismatch(cond.op, a.value, b.value)]
      [] cond.k = "in" ->
            LET a == OperandValue(c, cond.needle, env, depth)
                b == OperandValue(c, cond.hay, env, depth)
            IN [holds |-> HasValue(a.value, b.value),
                faults |-> a.faults \union b.faults \union IF b.value.t \in {"none", "tags", "str"} THEN {} ELSE {"types"}]
      [] cond.k = "not" -> LET r == EvalCond(c, cond.c, env, depth) IN [r EXCEPT !.holds = ~@]
      [] cond.k \in {"and", "or"} ->
            LET decided(r) == r.holds = (cond.k = "or")
                step(r, x) == IF decided(r) THEN r
                              ELSE LET s == EvalCond(c, x, env, depth) IN [s EXCEPT !.faults = @ \union r.faults]
            IN FoldLeft(step, [holds |-> cond.k = "and", faults |-> {}], cond.items)

RenderToplevel(c) ==
    LET wrap == c.program.wrap
        top == [expr |-> Text(c.program.toplevel), env |-> <<>>]
    IN IF wrap = Missing THEN EvalText(c, c.program.toplevel, <<>>, 0)
       ELSE EvalExpr(c, wrap.body, wrap.name :> top, 0)

RenderTooltip(c) ==
    IF c.program.tooltip = Missing THEN Nothing
    ELSE LET r == EvalExpr(c, c.program.tooltip.body, <<>>, 0) IN [r EXCEPT !.out = PlainText(@)]

----------------------------------------------------------------------------
(* index.ts                                                                *)

\* The board's program as the base of a list's
AsBase(p) ==
    [p EXCEPT !.toplevelBase = TRUE,
              !.wrap = IF @ = Missing THEN @ ELSE [@ EXCEPT !.base = TRUE],
              !.tooltip = IF @ = Missing THEN @ ELSE [@ EXCEPT !.base = TRUE],
              !.defs = [n \in DOMAIN @ |-> [@[n] EXCEPT !.base = TRUE]]]

Inherit(base, own) ==
    [toplevel |-> own.toplevel, toplevelBase |-> FALSE,
     wrap |-> IF own.wrap = Missing THEN base.wrap ELSE own.wrap,
     tooltip |-> IF own.tooltip = Missing THEN base.tooltip ELSE own.tooltip,
     defs |-> own.defs @@ base.defs]

Composed(own, base) == IF base = Missing THEN own ELSE Inherit(AsBase(base), own)

\* compileFormat: the errors of the text itself
HasErrors(own, sch, base) == \E e \in Errors(Composed(own, base), sch) : e[3] = FALSE

----------------------------------------------------------------------------
(* The forms                                                               *)

Plain(toplevel) == [toplevel |-> toplevel, toplevelBase |-> FALSE, wrap |-> Missing, tooltip |-> Missing, defs |-> <<>>]

With(p, name, def) ==
    [p EXCEPT !.defs = IF def = Missing THEN [n \in DOMAIN @ \ {name} |-> @[n]] ELSE (name :> def) @@ @]

\* What one part of a program may be changed to
Edits(p) ==
    {[p EXCEPT !.toplevel = t] : t \in Toplevels} \union {[p EXCEPT !.wrap = w] : w \in Wraps}
    \union {[p EXCEPT !.tooltip = t] : t \in Tooltips}
    \union UNION {{With(p, n, d) : d \in Bodies[n] \union {Missing}} : n \in DOMAIN Bodies}

Retyped(sch, name, type) ==
    IF type = Missing THEN [n \in DOMAIN sch \ {name} |-> sch[n]] ELSE (name :> type) @@ sch

\* The form of a board: format and schema are saved together, without errors;
\* the user may confirm that formats of lists break.
SaveBoard(p, sch) ==
    /\ ~HasErrors(p, sch, Missing)
    /\ boardFormat' = p /\ schema' = sch
    /\ UNCHANGED listFormat

EditBoardFormat == \E p \in Edits(boardFormat) : SaveBoard(p, schema)
EditSchema == \E n \in DOMAIN Types : \E t \in Types[n] : SaveBoard(boardFormat, Retyped(schema, n, t))

OwnParts(p) == Cardinality(DOMAIN p.defs) + (IF p.wrap = Missing THEN 0 ELSE 1) + (IF p.tooltip = Missing THEN 0 ELSE 1)

\* The form of a list: the format of the board, or one of its own, which
\* starts with the board's toplevel line.
SaveList ==
    /\ \E p \in {Missing} \union IF listFormat = Missing THEN {Plain(boardFormat.toplevel)} ELSE Edits(listFormat) :
           /\ p # Missing => OwnParts(p) <= MaxOwn /\ ~HasErrors(p, schema, boardFormat)
           /\ listFormat' = p
    /\ UNCHANGED <<boardFormat, schema>>

FormatInit ==
    /\ boardFormat = Plain(<<>>) /\ listFormat = Missing
    /\ schema = <<>>

FormatNext == EditBoardFormat \/ EditSchema \/ SaveList

FormatSpec == FormatInit /\ [][FormatNext]_formatVars

----------------------------------------------------------------------------
(* Properties                                                              *)

\* What evaluating a program on the items meets
Faults(p, sch) ==
    LET on(item) == [program |-> p, schema |-> sch, item |-> item]
    IN UNION {RenderToplevel(on(item)).faults \union RenderTooltip(on(item)).faults : item \in Items}

Sound(board, list, sch) ==
    LET programs == {board} \union IF list = Missing THEN {} ELSE {Composed(list, board)}
    IN \A p \in programs : Errors(p, sch) = {} => Faults(p, sch) = {}

\* The checks are sound: after every save a program they find no error in, the
\* board's or the list's with what it inherits, meets no unknown name, no wrong
\* number of arguments, no variant and no comparison its types exclude, and runs
\* into no cycle, on any item: its values stay when the type of their attribute
\* changes.  (Definitions may be nested deeper than MAX_DEPTH without a cycle; the
\* programs here have fewer than MaxDepth of them, so only a cycle gets there.)
CheckedRuns == [][Sound(boardFormat', listFormat', schema')]_formatVars

\* What the editor says of a list's format (not an invariant: errors at
\* inherited positions are not shown, see the README).
CleanListRuns ==
    listFormat # Missing /\ ~HasErrors(listFormat, schema, boardFormat) => Faults(Composed(listFormat, boardFormat), schema) = {}
=============================================================================
