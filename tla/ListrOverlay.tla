----------------------------- MODULE ListrOverlay -----------------------------
(***************************************************************************)
(* What an integration finds and what a reader sees of it: the lookup of a *)
(* title at OMDb (integrations/omdb.ts), the options it offers and the     *)
(* user's pick, the overlay of results over the values the user has set    *)
(* (shared/src/integrations.ts, ListView.tsx), and the config of the       *)
(* integration, whose attribute map decides what a value fills.            *)
(*                                                                         *)
(* One item of one board.  The queue of the runner is ListrRunner's: here  *)
(* a lookup may start whenever the runner would queue it, and its answer   *)
(* is dropped when the item has other inputs by then.  The device and the  *)
(* server hold the same versions (ListrSync).  OMDb answers as it likes.   *)
(***************************************************************************)
EXTENDS Integers, Sequences, SequencesExt, TLC

CONSTANTS
    Unfilled,      \* no value, no pick, no result
    Film,          \* IMDb ids
    Typed,         \* titles a user types
    Exact,         \* title -> the films of exactly that title
    Searches,      \* the films a search may find
    MaxOptions,    \* MAX_OPTIONS
    OtherResult,   \* values of another integration on the item
    Boards,        \* the boards the item may be on: [integrations, config, schema]
    Template,      \* the config template of the module
    MaxItemEdits, MaxBoardEdits, MaxFailures

VARIABLES
    own,           \* what the user has set: [title, imdb_id]
    pick,          \* item.choices.imdb_id
    onBoard,       \* the board's integrations, config of omdb and schema
    found,         \* the result of omdb: [status, inputs, film, choice]
    lookup,        \* the lookup under way: [inputs, stage, choice, film]
    spent          \* steps of users and failures of OMDb

overlayVars == <<own, pick, onBoard, found, lookup, spent>>

Keys == <<"imdb_id", "title", "year">>
Given(v) == v # Unfilled

----------------------------------------------------------------------------
(* The config, as its lines without the empty ones: a comment, a table     *)
(* header, or a setting, which is on or commented out.                     *)

Comment(text) == [kind |-> "comment", key |-> <<text>>, on |-> FALSE, to |-> text]
Table(name) == [kind |-> "table", key |-> <<name>>, on |-> TRUE, to |-> name]
Setting(key, on, to) == [kind |-> "setting", key |-> key, on |-> on, to |-> to]

TableLines(lines) == {i \in DOMAIN lines : lines[i].kind = "table"}

\* The full key of the setting in line i: keys below a header are its own.
FullKey(lines, i) ==
    LET above == {j \in TableLines(lines) : j < i}
    IN  IF above = {} THEN lines[i].key
        ELSE lines[CHOOSE j \in above : \A n \in above : n <= j].key \o lines[i].key

SettingLines(lines) == {i \in DOMAIN lines : lines[i].kind = "setting"}
MentionedSettings(lines) == {FullKey(lines, i) : i \in SettingLines(lines)}

\* What the TOML parser makes of the config.
Meaning(lines) == {<<FullKey(lines, i), lines[i].to>> : i \in {n \in SettingLines(lines) : lines[n].on}}

\* A setting of the template with the comments above it, commented out.
TemplateEntry(i) ==
    LET last == {j \in SettingLines(Template) : j < i}
        from == IF last = {} THEN 1 ELSE 1 + CHOOSE j \in last : \A n \in last : n <= j
    IN  [SubSeq(Template, from, i) EXCEPT ![i - from + 1].on = FALSE]

Additions(lines) ==
    LET missing == {i \in SettingLines(Template) : FullKey(Template, i) \notin MentionedSettings(lines)}
    IN  FlattenSeq([i \in 1 .. Len(Template) |-> IF i \in missing THEN TemplateEntry(i) ELSE <<>>])

\* The additions go before the first header, so that they stay top-level keys.
AddMissingSettings(lines) ==
    LET tables == TableLines(lines)
        first == IF tables = {} THEN Len(lines) + 1 ELSE CHOOSE i \in tables : \A n \in tables : i <= n
    IN  SubSeq(lines, 1, first - 1) \o Additions(lines) \o SubSeq(lines, first, Len(lines))

\* The board attribute a value of omdb fills, "" when it is left out.
AttributeOf(board, key) ==
    LET set == {m \in Meaning(board.config) : m[1] = <<"attributes", key>>}
    IN  IF set = {} THEN key ELSE (CHOOSE m \in set : TRUE)[2]

----------------------------------------------------------------------------
(* The overlay.  A value is [kind, of]: a word, a number or a list.        *)

Convertible ==
    [type \in {"text", "url", "enum"} |-> {"word", "number", "list"}]
    @@ [type \in {"number", "integer", "duration", "date"} |-> {"number"}]
    @@ [tags |-> {"word", "list"}, todo |-> {}, boolean |-> {}]

CoerceValue(v, type) == IF v.kind \in Convertible[type] THEN [v EXCEPT !.kind = type] ELSE Unfilled

ValuesOf(film) ==
    [key \in Range(Keys) |-> [kind |-> IF key = "year" THEN "number" ELSE "word", of |-> film]]

\* The places of the values on offer: that of the integration on the board, then
\* that of the key; a disabled integration offers nothing.
OrderResults(board) ==
    {p \in (DOMAIN board.integrations) \X (DOMAIN Keys) :
        IF board.integrations[p[1]] = "other" THEN Given(OtherResult[Keys[p[2]]])
        ELSE Given(found) /\ Given(found.film)}

Before(p, q) == p[1] < q[1] \/ (p[1] = q[1] /\ p[2] < q[2])

Offer(board, p) ==
    LET key == Keys[p[2]]
    IN  IF board.integrations[p[1]] = "other"
        THEN [from |-> "other", key |-> key, target |-> key, raw |-> OtherResult[key]]
        ELSE [from |-> "omdb", key |-> key, target |-> AttributeOf(board, key), raw |-> ValuesOf(found.film)[key]]

\* A pick among other options than the result's hides the value of its key.
PickIsStale(o) ==
    /\ o.from = "omdb" /\ o.key = "imdb_id"
    /\ Given(found.choice) /\ Given(pick) /\ pick.options # found.choice

Filling(board, o) ==
    IF o.target = "title" THEN (IF o.raw.kind = "word" THEN o.raw ELSE Unfilled)
    ELSE IF o.target \in DOMAIN board.schema THEN CoerceValue(o.raw, board.schema[o.target]) ELSE Unfilled

Shown(board, p) ==
    LET o == Offer(board, p) IN o.target # "" /\ ~PickIsStale(o) /\ Given(Filling(board, o))

\* The first offer that fills an attribute wins it.
ResolveOverlay(board) ==
    LET shown == {p \in OrderResults(board) : Shown(board, p)}
        filling(key) == {p \in shown : Offer(board, p).target = key}
        first(key) == CHOOSE p \in filling(key) : \A q \in filling(key) : q = p \/ Before(p, q)
    IN  [key \in {Offer(board, p).target : p \in shown} |-> Filling(board, Offer(board, first(key)))]

\* What a reader sees of an attribute: the user's value if there is one.
EffectiveValue(board, key) ==
    LET o == ResolveOverlay(board) IN
    IF Given(own[key]) \/ key \notin DOMAIN o THEN own[key] ELSE o[key].of

----------------------------------------------------------------------------
(* The lookup.                                                             *)

LookupTitle == IF Given(own.title) THEN own.title ELSE IF Given(pick) THEN pick.query ELSE Unfilled

\* inputsOf: a title the overlay shows is never searched for.
InputsOf(config) ==
    LET type == {m \in Meaning(config) : m[1] = <<"type">>} IN
    IF Given(own.imdb_id) THEN [imdb_id |-> own.imdb_id, type |-> type]
    ELSE IF ~Given(LookupTitle) THEN Unfilled
    ELSE [title |-> LookupTitle, type |-> type, picked |-> IF Given(pick) THEN [value |-> pick.value, options |-> pick.options] ELSE Unfilled]

ById(inputs) == "imdb_id" \in DOMAIN inputs
Enabled(board) == "omdb" \in Range(board.integrations)

OptionsOf(films) == SubSeq(films, 1, IF Len(films) < MaxOptions THEN Len(films) ELSE MaxOptions)

\* The film looked up: the pick, if it was made among these options, or the
\* only one, or the only one found of exactly this title, option or not.
Chosen(inputs, films) ==
    LET options == OptionsOf(films)
        exact == {f \in Range(films) : f \in Exact[inputs.title]} IN
    IF Given(inputs.picked) /\ inputs.picked.options = options /\ inputs.picked.value \in Range(options)
    THEN inputs.picked.value
    ELSE IF Len(options) = 1 THEN options[1]
    ELSE IF \E f \in exact : exact = {f} THEN CHOOSE f \in exact : TRUE ELSE Unfilled

Offered(films) == IF Len(films) > 1 THEN OptionsOf(films) ELSE Unfilled

\* What stands for nothing is no film, value or pick, and boards are what they
\* are said to be above.
ASSUME OverlayAssumption ==
    /\ Unfilled \notin Film
    /\ Unfilled \notin [kind : DOMAIN Convertible \union {"word"}, of : Film]
    /\ Unfilled \notin [value : Film, options : {OptionsOf(films) : films \in Searches}]
    /\ \A b \in Boards :
          /\ DOMAIN b = {"integrations", "config", "schema"}
          /\ b.integrations \in Seq({"omdb", "other"})
          /\ \A key \in DOMAIN b.schema : b.schema[key] \in DOMAIN Convertible

StartLookup ==
    /\ ~Given(lookup) /\ Enabled(onBoard)
    /\ Given(InputsOf(onBoard.config))
    /\ LET inputs == InputsOf(onBoard.config)
           edited == ~Given(found) \/ found.inputs # inputs \/ found.status = "unprocessed"
       IN  /\ lookup' = [inputs |-> inputs, config |-> onBoard.config, stage |-> IF ById(inputs) THEN "detail" ELSE "search",
                         choice |-> Unfilled, film |-> IF ById(inputs) THEN inputs.imdb_id ELSE Unfilled]
           \* A refresh keeps the status, an edit shows that it is looked up.
           /\ found' = IF ~edited THEN found
                       ELSE IF Given(found) THEN [found EXCEPT !.status = "unprocessed"]
                       ELSE [status |-> "unprocessed", inputs |-> Unfilled, film |-> Unfilled, choice |-> Unfilled]
    /\ UNCHANGED <<own, pick, onBoard, spent>>

\* Mutation of AnswerLookup: an answer for other inputs is stored as one for these.
AnswerLookupAnyway(result) ==
    /\ lookup' = Unfilled
    /\ found' = [result EXCEPT !.inputs = InputsOf(lookup.config)]
    /\ UNCHANGED <<own, pick, onBoard, spent>>

\* The answer is stored unless the inputs have changed meanwhile.
AnswerLookup(result) ==
    /\ lookup' = Unfilled
    /\ found' = IF InputsOf(lookup.config) = lookup.inputs THEN result ELSE found
    /\ UNCHANGED <<own, pick, onBoard, spent>>

Result(status, film, choice) == [status |-> status, inputs |-> lookup.inputs, film |-> film, choice |-> choice]

SearchAnswered(films) ==
    /\ Given(lookup) /\ lookup.stage = "search"
    /\ LET film == Chosen(lookup.inputs, films) IN
       IF films = <<>> THEN AnswerLookup(Result("not_found", Unfilled, Unfilled))
       ELSE IF ~Given(film) THEN AnswerLookup(Result("ambiguous", Unfilled, Offered(films)))
       ELSE /\ lookup' = [lookup EXCEPT !.stage = "detail", !.choice = Offered(films), !.film = film]
            /\ UNCHANGED <<own, pick, onBoard, found, spent>>

DetailAnswered(known) ==
    /\ Given(lookup) /\ lookup.stage = "detail"
    /\ AnswerLookup(IF known THEN Result("complete", lookup.film, lookup.choice) ELSE Result("not_found", Unfilled, lookup.choice))

\* Any other failure: the last good values and options stay.
LookupFails ==
    /\ Given(lookup) /\ spent.failures < MaxFailures
    /\ spent' = [spent EXCEPT !.failures = @ + 1]
    /\ lookup' = Unfilled
    /\ found' = IF Given(found) THEN [found EXCEPT !.status = "error", !.inputs = lookup.inputs]
                ELSE [status |-> "error", inputs |-> lookup.inputs, film |-> Unfilled, choice |-> Unfilled]
    /\ UNCHANGED <<own, pick, onBoard>>

----------------------------------------------------------------------------
(* The user.  The runner looks at the item after every change: a result    *)
(* without inputs or without its integration is removed.                   *)

Reconsidered ==
    found' = IF Enabled(onBoard') /\ Given(InputsOf(onBoard.config)') THEN found ELSE Unfilled

EditsItem ==
    /\ spent.item < MaxItemEdits
    /\ spent' = [spent EXCEPT !.item = @ + 1]

SetOwn(key, v) ==
    /\ EditsItem
    /\ own' = [own EXCEPT ![key] = v]
    /\ UNCHANGED <<pick, onBoard, lookup>>
    /\ Reconsidered

\* Mutation of ApplyPick: the former pick's query is forgotten.
ApplyPickAfresh(options, film) ==
    /\ pick' = [value |-> film, options |-> options, query |-> own.title]
    /\ own' = [own EXCEPT !.title = Unfilled]

\* A pick releases the title, which stays the query of the lookup.
ApplyPick(options, film) ==
    /\ pick' = [value |-> film, options |-> options, query |-> LookupTitle]
    /\ own' = [own EXCEPT !.title = Unfilled]

\* In the dialog of choices: any option of the result, the present one too.
Pick(film) ==
    /\ EditsItem
    /\ Given(found) /\ Given(found.choice) /\ film \in Range(found.choice)
    /\ ApplyPick(found.choice, film)
    /\ UNCHANGED <<onBoard, lookup>>
    /\ Reconsidered

EditsBoard ==
    /\ spent.board < MaxBoardEdits
    /\ spent' = [spent EXCEPT !.board = @ + 1]

EditBoard(board) ==
    /\ EditsBoard
    /\ onBoard' = board
    /\ UNCHANGED <<own, pick, lookup>>
    /\ Reconsidered

\* The button "Add missing settings" of the editor of integrations.
AddSettings ==
    /\ EditsBoard
    /\ onBoard' = [onBoard EXCEPT !.config = AddMissingSettings(@)]
    /\ UNCHANGED <<own, pick, lookup>>
    /\ Reconsidered

----------------------------------------------------------------------------

OverlayInit ==
    /\ own = [title |-> Unfilled, imdb_id |-> Unfilled]
    /\ pick = Unfilled
    /\ onBoard \in Boards
    /\ found = Unfilled
    /\ lookup = Unfilled
    /\ spent = [item |-> 0, board |-> 0, failures |-> 0]

OverlayNext ==
    \/ StartLookup
    \/ \E films \in Searches : SearchAnswered(films)
    \/ \E known \in BOOLEAN : DetailAnswered(known)
    \/ LookupFails
    \/ \E t \in Typed \union {Unfilled} : SetOwn("title", t)
    \/ \E f \in Film \union {Unfilled} : SetOwn("imdb_id", f)
    \/ \E f \in Film : Pick(f)
    \/ \E b \in Boards : EditBoard(b)
    \/ AddSettings

OverlaySpec == OverlayInit /\ [][OverlayNext]_overlayVars

----------------------------------------------------------------------------

\* A result that is complete and up to date, with options among which the user
\* picked, is the picked film's; and where omdb comes first and its values are
\* not sent elsewhere, the reader sees that film's id, if the attribute can show
\* it, and its title unless he has typed one (omdb.ts run, runJob's discard of stale answers, applyPick,
\* resolveOverlay).
PickShown ==
    /\ Given(found) /\ found.status = "complete" /\ Given(found.choice)
    /\ found.inputs = InputsOf(onBoard.config)
    /\ Given(pick) /\ pick.options = found.choice
    /\ ~Given(own.imdb_id)
    => /\ found.film = pick.value
       /\ /\ onBoard.integrations # <<>> /\ Head(onBoard.integrations) = "omdb"
          /\ \A k \in Range(Keys) : AttributeOf(onBoard, k) = k
          => /\ ("imdb_id" \in DOMAIN onBoard.schema /\ "word" \in Convertible[onBoard.schema.imdb_id])
                 => EffectiveValue(onBoard, "imdb_id") = pick.value
             /\ EffectiveValue(onBoard, "title") \in {own.title, pick.value}
             /\ ~Given(own.title) => EffectiveValue(onBoard, "title") = pick.value

\* What the user has said is kept by the edits the program makes for him: a pick
\* changes neither the title that is looked up nor whether there is one, and
\* adding the missing settings mentions every one of them and changes none
\* (applyPick, addMissingSettings).
NothingForgotten ==
    [][/\ pick' # pick => LookupTitle' = LookupTitle
       /\ onBoard' = [onBoard EXCEPT !.config = AddMissingSettings(@)]
          => /\ Meaning(onBoard'.config) = Meaning(onBoard.config)
             /\ MentionedSettings(onBoard'.config)
                = MentionedSettings(onBoard.config) \union MentionedSettings(Template)]_overlayVars
=============================================================================
