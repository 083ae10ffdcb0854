---------------------------- MODULE PromptTemplates ----------------------------
(* The prompts of the agents: agent/prompts/_registry.py (a directory of    *)
(* template files), _template.py (what a template must be) and _renderer.py *)
(* (a template and variables become a text).                                *)
(*                                                                         *)
(* A directory is a sequence of files, in the order in which it is walked.  *)
(* A file has a flaw or none; a body is a sequence of pieces, each a        *)
(* placeholder, which is the name of a variable, or Text.  A value is text, *)
(* nothing, or a structure, and may itself look like a credential or        *)
(* contain a placeholder.                                                   *)
EXTENDS Integers, Sequences, FiniteSets, SequencesExt, FiniteSetsExt
CONSTANTS None, NotFound, Crash, Text, Secret, Private, Agents, MaxVariables

Placeholders(body) == Range(body) \ {Text}

\* _load_from_file and PromptTemplate.__post_init__: a file that is not a
\* template raises TemplateLoadError, one that is not UTF-8 something else.
Loaded(file) ==
    IF file.flaw = "undecodable" THEN "crash"
    ELSE IF file.flaw # None \/ file.agent \notin Agents \/ file.body = <<>> THEN "broken"
         ELSE "template"
TemplateOf(file) ==
    [id |-> file.id, agent |-> file.agent, body |-> file.body, schema |-> file.schema,
     required |-> Placeholders(file.body) \union file.declared]

\* get without the cache: broken files are skipped, the first match wins.
LoadById(dir, id) ==
    LET k == SelectInSeq(dir, LAMBDA f : \/ Loaded(f) = "crash"
                                         \/ Loaded(f) = "template" /\ f.id = id)
    IN  IF k = 0 THEN NotFound
        ELSE IF Loaded(dir[k]) = "crash" THEN Crash ELSE TemplateOf(dir[k])

\* list_all: every file must load, with an id of its own.
Lists(dir) ==
    /\ \A i \in DOMAIN dir : Loaded(dir[i]) = "template"
    /\ \A i, j \in DOMAIN dir : dir[i].id = dir[j].id => i = j
ListAll(dir) == {TemplateOf(f) : f \in Range(dir)}
ListByAgent(dir, agent) == {t \in ListAll(dir) : t.agent = agent}

-----------------------------------------------------------------------------
\* safe_render; variables is a function from names to values.
Normalized(value) == IF value = "nothing" THEN "(none)" ELSE value

Needed(template) == template.required \union Placeholders(template.body)

Refusal(template, variables, extra) ==
    CASE Cardinality(DOMAIN variables) > MaxVariables -> "too_many"
      [] DOMAIN variables \intersect Secret # {} -> "secret_key"
      [] ~(Needed(template) \subseteq DOMAIN variables) -> "missing"
      [] ~extra /\ ~(DOMAIN variables \subseteq Needed(template)) -> "unexpected"
      [] \E v \in DOMAIN variables : variables[v] = "structure" -> "unsupported"
      [] \E v \in DOMAIN variables : variables[v] = "huge" -> "too_large"
      [] OTHER -> None

\* What goes into the text, and what the record of the call says went in.
Shown(value) == IF value = "credential" THEN "masked" ELSE Normalized(value)
Used(variables) ==
    [v \in DOMAIN variables |-> IF v \in Private THEN "masked" ELSE Shown(variables[v])]

Rendered(template, variables) ==
    [i \in DOMAIN template.body |->
       IF template.body[i] = Text THEN Text ELSE Shown(variables[template.body[i]])]

\* A placeholder that is left is an error, also one that came with a value.
Render(template, variables, extra) ==
    LET refusal == Refusal(template, variables, extra)
    IN  IF refusal # None THEN [error |-> refusal]
        ELSE IF "placeholder" \in Range(Rendered(template, variables))
             THEN [error |-> "placeholder_left"]
        ELSE [error |-> None, text |-> Rendered(template, variables),
              used |-> Used(variables)]

-----------------------------------------------------------------------------
(* A directory that list_all accepts answers every get with the template    *)
(* list_all names, in whatever order it is walked; and whatever get finds   *)
(* in one order but not in another is in a directory that list_all refuses. *)
LookupsAgree(dir, turned, ids) ==
    /\ Lists(dir) <=> Lists(turned)
    /\ Lists(dir) => \A t \in ListAll(dir) : LoadById(dir, t.id) = t
    /\ \A id \in ids : LoadById(dir, id) # LoadById(turned, id) => ~Lists(dir)
    /\ Lists(dir) =>
         UNION {ListByAgent(dir, a) : a \in Agents} = {LoadById(turned, f.id) : f \in Range(dir)}

(* A text that is rendered is complete and tells no more than its record:   *)
(* as many pieces as the body, no placeholder, no value that looks like a   *)
(* credential; and what the record does not mask is what the text says.     *)
RenderedIsComplete(file, variables, extra) ==
    LET t == TemplateOf(file)
        r == Render(t, variables, extra)
    IN  Loaded(file) = "template" /\ r.error = None =>
          /\ Len(r.text) = Len(file.body)
          /\ ~({"placeholder", "credential", "structure"} \intersect Range(r.text) # {})
          /\ DOMAIN r.used \intersect Secret = {}
          /\ \A i \in DOMAIN file.body :
               file.body[i] # Text =>
                 r.used[file.body[i]] \in {r.text[i], "masked"}
          /\ file.declared \union Placeholders(file.body) \subseteq DOMAIN r.used
=============================================================================
