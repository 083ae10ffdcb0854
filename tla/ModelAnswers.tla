------------------------------ MODULE ModelAnswers ------------------------------
(* How an agent gets an object out of what a language model wrote           *)
(* (agent/_llm_client.py): parse_json_response, the check of the schema and *)
(* the client that stands in for a model.                                   *)
(*                                                                         *)
(* A text is a sequence of tokens: the braces, a quote, a backslash, the    *)
(* fence of a code block, value for all that may stand between the braces   *)
(* of an object (keys, colons, numbers), word for what may not.  Top-level  *)
(* lists are left out.                                                      *)
EXTENDS Integers, Sequences, FiniteSets, SequencesExt
CONSTANTS None

\* Mutant: what follows a backslash is not skipped.
StepUnescaped(text, s, i) ==
    IF s.end # 0 THEN s
    ELSE IF text[i] = "quote" THEN [s EXCEPT !.inside = ~@]
    ELSE IF s.inside \/ text[i] = "value" THEN s
    ELSE CASE text[i] = "{" -> [s EXCEPT !.depth = @ + 1]
           [] text[i] = "}" -> [s EXCEPT !.depth = @ - 1, !.end = IF s.depth = 1 THEN i ELSE 0]
           [] OTHER -> [s EXCEPT !.bad = TRUE]

\* The scan of parse_json_response: strings and escapes are skipped and braces
\* counted until the first one closes; bad tells that a reader of JSON
\* would stop on the way.
Step(text, s, i) ==
    IF s.end # 0 THEN s
    ELSE IF s.escape THEN [s EXCEPT !.escape = FALSE]
    ELSE IF text[i] = "backslash" THEN [s EXCEPT !.escape = TRUE, !.bad = @ \/ ~s.inside]
    ELSE IF text[i] = "quote" THEN [s EXCEPT !.inside = ~@]
    ELSE IF s.inside THEN s
    ELSE CASE text[i] = "{" -> [s EXCEPT !.depth = @ + 1]
           [] text[i] = "}" -> [s EXCEPT !.depth = @ - 1, !.end = IF s.depth = 1 THEN i ELSE 0]
           [] text[i] = "value" -> s
           [] OTHER -> [s EXCEPT !.bad = TRUE]
Scan(text, start) ==
    FoldLeft(LAMBDA s, i : Step(text, s, i),
             [depth |-> 0, inside |-> FALSE, escape |-> FALSE, end |-> 0, bad |-> FALSE],
             [k \in 1 .. Len(text) - start + 1 |-> start + k - 1])

\* json.loads gives an object.
IsObject(text) ==
    /\ text # <<>> /\ text[1] = "{"
    /\ Scan(text, 1).end = Len(text) /\ ~Scan(text, 1).bad

\* json.loads gives a string: one that is closed by the last quote only.
IsString(text) ==
    /\ Len(text) > 1 /\ text[1] = "quote"
    /\ \A k \in DOMAIN text : Scan(SubSeq(text, 1, k), 1).inside <=> k < Len(text)

\* What stands between the first two fences.
Fenced(text) ==
    LET f == SelectInSeq(text, LAMBDA t : t = "fence")
        rest == SubSeq(text, f + 1, Len(text))
        g == SelectInSeq(rest, LAMBDA t : t = "fence")
    IN  IF f = 0 \/ g = 0 THEN <<>> ELSE SubSeq(rest, 1, g - 1)

\* parse_json_response: the whole text, unless it is JSON but no object, else a
\* code block, else from the first brace to the one that closes it.
ParseJsonResponse(text) ==
    LET start == SelectInSeq(text, LAMBDA t : t = "{")
        end == Scan(text, start).end
        inner == SubSeq(text, start, end)
    IN  IF IsObject(text) THEN text
        ELSE IF IsString(text) THEN None
        ELSE IF IsObject(Fenced(text)) THEN Fenced(text)
        ELSE IF start = 0 \/ end = 0 \/ ~IsObject(inner) THEN None ELSE inner

-----------------------------------------------------------------------------
\* validate_response of an object's keys; a schema lists its properties in order.
Conforms(keys, schema) ==
    schema.required \subseteq keys /\ (schema.closed => keys \subseteq Range(schema.properties))

\* _generate_fixture_from_schema: what is required, and others up to three.
Fixture(schema) ==
    FoldLeft(LAMBDA keys, k : IF k \in schema.required \/ Cardinality(keys) < 3
                              THEN keys \union {k} ELSE keys, {}, schema.properties)

\* MockLLMClient.invoke; keysOf gives the keys of a parsed object.
Invoke(mode, text, keys, schema) ==
    LET parsed == ParseJsonResponse(text)
        accepted == parsed = None \/ Conforms(keys, schema)
    IN  CASE mode = "exception" -> [raised |-> TRUE, parsed |-> None, validated |-> FALSE]
          [] mode = "parse_fail" -> [raised |-> FALSE, parsed |-> None, validated |-> FALSE]
          [] mode = "schema_fail" ->
               [raised |-> FALSE, parsed |-> IF parsed = None THEN None ELSE <<"{", "}">>,
                validated |-> accepted /\ parsed = None]
          [] OTHER -> [raised |-> FALSE, parsed |-> parsed, validated |-> accepted]
IsSuccess(response) == response.parsed # None /\ response.validated

-----------------------------------------------------------------------------
(* The object a model was asked for is found whole, braces and quotes in    *)
(* its strings notwithstanding, in whatever words without a brace it is     *)
(* wrapped, with the fences of a code block or without; but an object in a  *)
(* text that is one string of JSON is not looked for.                       *)
AnswerIsFound(prefix, object, suffix) ==
    LET bare == prefix \o object \o suffix
        fenced == prefix \o <<"fence">> \o object \o <<"fence">> \o suffix
    IN  /\ "{" \notin Range(prefix) /\ ~IsObject(Fenced(bare)) =>
             ParseJsonResponse(bare) = IF IsString(bare) THEN None ELSE object
        /\ Range(prefix) \intersect {"{", "fence"} = {} =>
             ParseJsonResponse(fenced) = IF IsString(fenced) THEN None ELSE object

(* What is found is one object, and it stands in the text as it is.         *)
NothingIsMadeUp(text) ==
    LET found == ParseJsonResponse(text)
    IN  found # None =>
          /\ IsObject(found)
          /\ \E i \in 0 .. Len(text) - Len(found) : SubSeq(text, i + 1, i + Len(found)) = found

(* A response that counts as a success carries an object of the text that   *)
(* the schema accepts, whatever failure is simulated; and the stand-in's    *)
(* own object is accepted by every schema that lists what it requires.      *)
SuccessIsAccepted(mode, text, keys, schema) ==
    LET r == Invoke(mode, text, keys, schema)
    IN  /\ IsSuccess(r) => /\ mode = "none" /\ ~r.raised
                           /\ r.parsed = ParseJsonResponse(text) /\ Conforms(keys, schema)
        /\ schema.required \subseteq Range(schema.properties) => Conforms(Fixture(schema), schema)
=============================================================================
