# A model of the Stardata front end

STAR-IF compiles interactive fiction written in *Stardata*. What exists of it
so far is its front end: `libs/stardata` reads a program into a registry of
declarations and validates it, and `libs/starcore` runs the checks that need
to know what an interactive-fiction engine is. This directory holds a model of
that front end in TLA+, the model-checking runs over it, and proofs about it.

## Inventory

A load goes through the parts in this order. None of it is concurrent except
the node cache; what is hard is *order* (files, groups and statements arrive in
an order the author did not choose), *supersession* (`@replaces`, extensions,
sealing) and *staleness* (facts noted in one pass and used in another).

| Part | Source | State and operations | What makes it correct |
|---|---|---|---|
| Sources and diagnostics | `diag/` | files with a lazily built line index; a sink that counts everything and stores up to a limit | counts are exact past the limit, positions map back to lines |
| **Lexer** | `lex/` | a cursor over bytes, the tokens so far | the tokens and the trivia between them tile the source; what is reported of a run of bytes is what is cut out |
| **Parser** | `cst/parser` | a position in the token stream, a cursor in the trivia, a tree under construction | every byte lands in the tree once, errors included; comments go to the right statement; silence means the file is in the grammar |
| **Green trees** | `cst/green`, `builder` | immutable shared nodes; an interning cache under a mutex; a stack of open nodes per parse | the tree's text is the source; equal small nodes are shared; no key outlives what it names |
| **Cursors** | `cst/syntax` | a spine from a root to an element | positions agree with the text |
| **Edits** | `cst/edit` | none: every edit returns a new root | an edit rebuilds exactly the path to the root, old trees are untouched |
| Typed views | `ast/` | none | - |
| **Annotations** | `schema/annotation` | none | annotations that are let through mean one combination, and say in which sessions a statement is there |
| Declaration readers | `schema/schema` | none: a statement becomes a declaration or a report | - |
| **Schema registry** | `schema/loader` (`SchemaSet`) | a ledger of (namespace, id), five vectors with an index each; `offer`, `declare*`, `apply_*extension` | ledger, vectors and indices agree; sealed means sealed; one root |
| **Loader** | `schema/loader` (`fold_all`) | the registry, requirements, manifests, the properties objects declare; four passes per group | declarations are found wherever they stand; nothing is its own duplicate; what core requires holds to the end; manifests agree with what was loaded |
| **Block validation** | `schema/loader`, `types` | none | arity, exclusive groups and value types, at any depth: what is silent conforms |
| **Property lookup** | `schema/property` | none: reads the registry | an answer is true of every object that can be in the slot |
| **Narrowing** | `starcore/narrowing` | a scope per declaration: what each slot is known to be | a read is judged against what the conditions before it established |
| **Messages** | `starcore/messages`, `conditions` | none | a check that can fail shows the player something |
| **Globals** | `starcore/globals` | every use of a name, over all files | unused and undeclared names are reported, in whatever order the files are read |
| **Placement, instance properties** | `starcore/placement`, `instance_properties` | none | an object has one place; a key of it means something or is reported |
| **Text** | `starcore/text`, `text/template` | styles, loc keys and references of all files | every reference resolves; a key is defined once per language and file; what is in brackets is an expression of the grammar or none |
| Suggestions | `schema/suggest` | none | the bounded distance is the distance, up to the bound |

The registry is the hub: the loader's passes write it, property lookup,
narrowing, messages and references read it, and no reader keeps a pointer into
it across a write. Parts in bold are modelled; PROJECT.json lists the rest with
the reason, and every hazard at its line.

## Modules

| Module | Models | State |
|---|---|---|
| `SchemaSet` | the registry | `declarations`, `declaration_index`: the ledger; `stores`, `index`: the vectors and maps; `last`: the answer of the last call |
| `Ownership` | what the registry promises of each key, abstractly | `owned`: the holder of each (namespace, id) |
| `Loader` | `fold_all`, `check_requirements` and `check_library_manifests` over the groups of a program; extends `SchemaSet` and calls its operations | `program`, `group`, `phase`, `at`: the position; `requirements`, `local_properties`, `libraries`, `reports` |
| `PropertyLookup` | the class graph and `classify_property` | `class`, `trait`, `object`, `local_properties` |
| `Conditions` | what condition blocks mean in a world; the reference for the next three | - |
| `Narrowing` | `check_property_reads` over a file; extends `Conditions` and, through it, `PropertyLookup` | `file`, `pass`, `at`, `stage`: the position; `by_action`; `slots` and `scope` of the declaration being walked; `reads`: reports |
| `Messages` | the judgement of one declaration's failure messages | - |
| `Checks` | both passes, one after the other, and their properties | `reports`: of the second pass |
| `Lexer` | `lex()`: bytes into tokens and trivia, strings and their decoding | `source`, `pos`; `tokens`, `trivia` and how much of it is `consumed`; `reports` |
| `Parser` | `parse()`: one action per production and recovery, over the tokens; and both, one after the other | `next`, `cursor`: the token and how far the trivia before it is emitted; `leaves`, `open`, `nodes`: the tree; `script`: the calls left to make; `said` |
| `Grammar` | the grammar of the specification, as a relation; the reference for `Parsing` | - |
| `Parsing` | what both are held to by references that recurse, and that they end | - |
| `Templates` | the scanner of templates and the parser of their expressions; extended by `Values`, instantiated by `Parsing` | - |
| `TemplateGrammar` | the grammar of expressions and which brackets pair, as relations; the reference for `Parsing` and `Meaning` | - |
| `Annotations` | which annotations stand where, what they combine to, when a statement is there | - |
| `Values` | types and the values they accept; extends `PropertyLookup`, `Annotations` and `Templates` | `forms`, `enums`, `declarations`, `globals`: the rest of the registry |
| `Instances` | objects: their class, own properties, placement and meaningless keys | - |
| `Names` | `GlobalIndex` and `TextIndex` | - |
| `Blocks` | every check of a file against a loaded registry, a call at a step; extends the four above | `file`, `others`; `todo`: the agenda; `reports`; `uses`, `texts`, `answers` |
| `Meaning` | what `Blocks` is held to, and its properties | - |
| `GreenTree` | the node cache, builders, edits and the lifetimes of objects | `heap`: the object at each address; `tokens`, `nodes`: the maps of the cache; `children`, `open` of each builder; `spine`, `element`, `level` of each editor; `held`: the callers' handles |
| `SyntaxTree` | cursors over green trees; extends `GreenTree`, and relates it to `TreeEditing` | - |
| `TreeEditing` | what parses and edits promise, on trees as values | `forest`, and what each builder and editor is about to answer |
| `LoaderProofs`, `ReportProofs`, `PropertyLookupProofs`, `BlocksProofs`, `LexerProofs`, `ParserProofs`, `TriviaProofs`, `GreenTreeProofs` | theorems | - |
| `MC*` | values of the constants for TLC | - |

**SchemaSet.** One action per public operation: the `declare` family,
`declare_object`, the bare `offer` of `note_generic_declaration`, and the two
extensions. Each is the whole call: the gate's verdict (`Verdict`), what it
does to the ledger (`Offer`), and the store (`Put`). A member of a schema, a
class or a trait is a name with a shape; two shapes are equal when `same_as`
says so. Classes and traits share a vector and have an index each, as in the
code; a class may also name a parent, any name, which nothing resolves here. Ids,
owners, names and shapes are model values.

**Loader.** A statement is a record of what the passes read: its key, an id,
the members it declares or writes, its annotations. `Visit` is one iteration of
a pass's loop and performs the whole of that iteration; `NextPass` and
`NextGroup` move on when a loop is done. `const` is a `global` (they share a
namespace and a store). The forms core itself declares -- `class`, `object`,
`schema` and so on -- are known from the start, and every object writes an id.
An instance of the form `library` is kept in `libraries` with its owner and what
its `provides_schema` lists, if it is written. When the last group is done
`CheckRequirements` and then `CheckLibraryManifests` look at the whole registry;
a manifest's reports are one code at the manifest, however many forms are
missing or too many.

**PropertyLookup.** The registry's classes, seen as a graph. Declarations arrive
one at a time, an object may be superseded, and the properties that objects
declare accumulate as they do in the code. The reference (`Ancestors`,
`ObjectHas`) is written from the language: the least set closed under
inheritance, without the walk or its depth cap.

**Narrowing, Messages, Checks.** A file is a sequence of actions, rules and a
library's form, each with the blocks and texts of its stages. `Collect` is one
iteration of the first loop of `check_property_reads`; a declaration is then
opened, walked a stage at a step (`ConditionStage`, `TextStage`, or `NoStage`
where it writes none) and closed, with the scope carried from stage to stage as
in the code. The walk of a block is recursive over the statements, in order, and
returns the scope it leaves and its reports; `Report` is `report_read`.
`CheckFailureMessages` is one iteration of `check_failure_messages`: the whole
of `declaration`, nested rules included. Reports are codes and places; the
wording, suggestions and fix-its are left out, and a template is the list of
paths in it. `effects` is never written: the code walks it as a block of
conditions, and what an effect block holds is not modelled.
`Conditions` does not model code, there being no interpreter yet: it is what the
language says a block means (spec 10.1-10.5), and what the passes are held to. A
*world* is the object in each slot, as some grammar line has put it there, and
the outcome of every predicate that does not depend on the object's class.

**Lexer, Parser, Grammar, Parsing.** A file is a sequence of bytes from an
alphabet with a member for each class the lexer tells apart: letters, digits,
brackets, line ends, and `"L"`, `"S"`, `"E"`, `"C"` for the lead bytes of a letter,
of a space and of U+FEFF in other scripts and for a continuation byte; `"t"` alone
stands for the word `true`. One step of the lexer is one token with the trivia
before it, or one malformed run. The parser's call stack is `script`, the calls
still to be made; each production, each recovery and each report of the code
is an action, and the builder underneath is kept as the leaves in order and the
ranges of them that are nodes. Trivia is emitted exactly as in the code, by the
three functions and the one cursor they share. `Grammar` is written from the
specification as the places where a derivation can end, and knows nothing of
lookahead or of white space. Kinds of punctuation that no production
distinguishes, numbers' values and the text of messages are left out;
`IntegerDigits` (19 in the code) bounds an integer and `QuadLength` is how many
digits `\u` takes (4).

**Annotations, Values, Instances, Names, Blocks, Meaning.** `Blocks` is a file
being checked. The registry does not change; the calls of the code are an
agenda, the task at its head is one call of `visit`, `validate_block`,
`check_value`, `check_instantiation`, `check_type`, ... and what that function
would call is put before the rest. So the order is the code's, and descending
for ever shows as an agenda that never empties. Reports are a code and the path
of the statement, value or annotation, in the order of the file. A value is a
scalar of a kind, a block of statements or of scalars, a call, or a type
expression, with its annotations; a statement may lack its value. `Expected` is
the type a key has, which another key of the block may spell (`type_of`).
`Values` is the judgement of one value, `Annotations` that of its annotations,
`Instances` what is particular to objects. `check_type` is called for the types
of one depth together: what it reports does not depend on the order.
What a task reports and what it calls are operators of their own
(`RecordReports`, `RecordCalls`, ...), and an action carries both out (`Carry`).
A file and a registry are what the parser and the readers can make of finite
texts (`IsFile`, `IsRegistry`): lists, nested `Nesting` deep at most. `Nesting`
is any number; it is what the descents of `GlobalIndex`, `TextIndex` and of the
properties count down (`ReachedFrom`), and no other operator mentions it.

After the file's own checks the agenda has what its program shares: the file
and the others are added to `GlobalIndex` one by one and then checked, and the
same for `TextIndex`. `Names` is what one `add_file` or `check` computes.
In a string, a `@style(x)` is one character, its name.

**Templates, TemplateGrammar.** `Template` is what the scanner makes of a text: its
pieces in order, a fragment or a stray bracket each, with the characters they
take. `ExprOf` is the expression of a fragment, down to its kind, its end and the
places where it reads a path; the names and numbers in it, and the spans of
fragments in the file, are left out. `ParseExpr` follows the code's one character
of lookahead; `Derives` says of a range of characters which kinds of expression it
is, and looks at all of its divisions. The reserved words, `@style(x)` and
`@endstyle` are single characters. `Parsing` takes the templates of a file from the
literals the parser found (`Body`), and compares the escapes the scanner skips
with those that the lexer and its decoder cut; `Values` has the texts as
characters and asks only for brackets and styles.

`Meaning` says the same things without an order: what type a value has when all
shorthands are written out, which values a type has, which statements a session
sees, which sites of all files name a global. Its properties compare that with
what was reported once `todo` is empty. Where the code disagrees with the
specification, `Meaning` follows the specification and an operator of its own
names the cases of the disagreement (`ReportedAnyway`, `PassedOver`, `MixesIn`,
`UnseenMention`, `UnseenKey`, `UnseenStyle`), as `ReservedAsName` does in
`TemplateGrammar`; the properties claim nothing of those cases and everything of
the others.

**GreenTree.** A call of the cache holds its mutex and is one step; between two
calls builders and editors interleave freely. A shared object lives at an
address, and the addresses are the keys of `nodes`, as in the code. `Destroy`
is the release of an object nobody refers to (`Referenced` is the reference
count being nonzero), after which `Create` may put another there: `Allocate`
says which free addresses an allocator may choose, the whole set in the proofs
and the lowest one in the run. An edit is a walk down (`Root`, `ChildAt`), the
node the edit itself makes, and one `Rebuild` per level up, each a call of its
own; the caller has a new root only at `NewRoot`. Left out: the 32-bit width of
`text_length` and its cached value (recomputed by `TextLength`), the filtering
of cursors by kind, and `statement_from_text`, which is a parse followed by
`Hold`. The replacement of `replace_token` is any token the cache has.

## Runs

| Run | Shows |
|---|---|
| `SchemaSet` | over every order of operations on two ids by two owners, with a ledger of two entries: ledger, stores and indices agree, one root survives, seals hold, and the registry implements `Ownership` |
| `Loader` | over 457 programs: forward references resolve, objects are stored whatever the order, duplicates and manifests that disagree with the forms of their library are reported exactly, a met requirement stays met, and a load is a run of `SchemaSet` |
| `PropertyLookup` | over every graph of three classes with a trait, cyclic or broken ones included, and every program of two classes and an object: a read called present is present, one called absent could not have been satisfied by a descendant or by an object's own declaration, and answers only rise |
| `Checks` | over 1700 files: whatever the walk carries between stages is true of every world that passes them; a read that is let through finds its property, one called absent of a class does not, and in plain files no narrowing is overlooked; a rejected message is never shown, a lone accepted one can be, and a refusal that never explains itself is reported |
| `GreenTree` | two parses, and an edit of what they made, over one cache and seven addresses that are used again: a lookup finds the one node with the children asked for, nothing referred to changes, cursors visit the tokens in order and their ranges tile the text, and every answer is the one `TreeEditing` promises |
| `Parsing` | over 39 000 files: the lexer's two ways of finding an end agree, no byte is lost or read twice, comments and line ends go where the trivia policy says whatever was recovered from, the parser is silent on exactly the files the grammar derives, a template is read as it is written over all its literals (reserved words taken for names aside), and every file is read to its end |
| `Blocks` | over 14 000 files and programs: a statement is silent exactly when all values in it conform to the specification, outside the disagreements listed below; in no session does a key bind twice; both spellings of an object are told the same; a key nothing gives an object is reported, and none that its class or its own declarations give; an object can be read as its class; declared types that are let through judge something; annotations let through mean one combination and placements one place; names are answered alike in any order of files; every pass ends |
| `LoaderLateKey` | *violated*: an instance before the `schema_extension` that gives its form a unique key is never registered |
| `LoaderTrait` | *violated*: a class with the id of a sealed trait hides the trait from core's requirements |
| `PropertyLookupMixin` | *violated*: a property an object gets from its own `traits` is called definitely absent |
| `ChecksRefusal` | *violated*: a `failureMsg` reads what only an object that was *not* turned away has, and nothing is reported |
| `BlocksGroups` | *violated*: of an exclusive group with three gated members two can be present in one session, and nothing is reported |

Bounds. For the registry: two ids and two owners let every pair of declarations collide, be
superseded by the right and the wrong owner, and meet its sealed counterpart;
with a ledger of two entries a class and a trait of one id, or two roots, are
present together, and every action can be applied to either. The bound is on
the ledger alone: replacements, extensions and refusals are unbounded. In the
programs of `MCLoader` one id is a form, two are classes and one is what they
name; every pair of statements of the pool is loaded in both orders after a
core, and the three-group programs supersede a library in every pairing. The
manifests list nothing, one form, two, or are silent, in a library that declares
one of them, supersedes one of core's or has none, before a project that takes one
over or writes a manifest of its own. One name that `of_class` may give, and none,
are enough for a parent to be changed. Three
classes are the fewest that make a chain with a middle, a cycle of two below a
third, and a diamond of trait and class; `MaxDepth` 4 exceeds every acyclic
chain, as the code's 64 does.

The files of `MCChecks` come in families: every block of two or three statements
about one object, where one may be a combinator of two; every combinator of two
slots' blocks before a third; every guard in a stage or two before a text, for
each way grammar lines agree, disagree or say nothing, in actions and in rules
of them; and messages under every pair of nested combinators, and over rules in
an action. Two statements inside a barrier and one after it are the fewest in
which something can escape, be shared or be forgotten. The registry has a class
with a property, a subclass with a trait, a class beside them, and an object
that declares the property for itself, so that each answer of
`classify_property` occurs.

For green trees: each builder parses one of two files, a token wrapped when it
has been read and a second beside it, or an empty node and a token, so that
two parses ask for equal tokens and nodes at once and a leafless node stands
at the edge of a tree; `MaxInterned` 1, for the code's three, puts nodes on both
sides of the limit. Seven addresses are enough to hold two trees and an
edit of one, and too few to never use one again. `OutOfRange` says whether
callers pass an index beyond the children of a node below the root, which the
functions document as a precondition: they do not in the run, and the theorems
hold either way.

The files of `MCParsing` are every sequence of at most two bytes, and every one
of at most four or five *words* of a set chosen to make one part of the lexer
or the parser go wrong: quotes, escapes and malformed bytes after an opening
quote; characters of other scripts and what they are cut short to; digits, dots
and signs; any four tokens as a value with whatever they leave open; statements
with and without values, blocks, comments and blank lines in any order. Two
bytes are the longest lookahead of the lexer, and two tokens that of the parser;
four words after an opening bracket let it be closed, closed by the wrong
bracket, closed twice or left open around something. Templates are up to four
marks -- brackets, an escape, styles, the end of one literal and the start of the
next --, enough for an escape that is cut short before a bracket or at the end of
a literal; and expressions are one of fourteen beginnings, up to three further
lexemes and one of three endings: an `if`, a call within a call or a quoted dot
begins, and what follows completes it, divides it or is left over. `IntegerDigits` 3 and
`QuadLength` 2 put numbers and escapes below, at and above their limit within
five words.

The programs of `MCBlocks` come in families, one registry each. Every value of a
pool that has each kind of literal, list, record, call, reference and template
is given to a key of every type; every file of up to three statements of one key
under each arity and with each gate (`@platform` of two frontends, of an unknown
one, `@debug`), which is the fewest that can meet in one session without all
meeting; up to three annotations on one value; `@priority` up to and above the limit
(`MaxPriority` 8, an `int64` in the code); every class, trait and object-own property a
key of an object can come from, in both spellings; two files, in both orders,
for what is shared between files. No file or type nests deeper than `Nesting` 5.
`MaxDepth` 3 is above the depth of the two classes.

Symmetry is used only in runs without liveness. `CHECK_DEADLOCK FALSE` stands
where a program can be complete: with no object to make, every class declared
is the end, or where a file has been read or checked to its end.

Fairness is weak fairness of the whole next-state relation, and is stated for the
reader (`ParsingSpec`) and for the checks (`BlocksSpec`): both are single-threaded
loops that their caller runs to the end and that wait for nothing. What
`ReadToTheEnd` and `EveryPassEnds` add to it is that the loops end: that no
recovery leaves the parser where it was, and that no chain of calls comes back
to what called it. The other specifications state none; the loader's passes are
loops over finite ranges, and the cache's callers owe it nothing.

## Proofs

Checked by TLAPS for all values of the constants, from the named assumptions of
the modules alone.

`LoaderProofs`, the registry. The inductive invariant is `TypeOK /\ LedgerIndexed /\
StoresIndexed /\ StoredIsDeclared /\ OneRoot`. Type correctness is not inductive
by itself: that an index points at a declaration *of its own kind and id* is
what makes overwriting in place keep the other kind of the shared vector, and
that what is stored is in the ledger is what makes a first store follow a first
offer. The lemmas go bottom-up: the two sequence operations, the three outcomes
of an offer, the two cases of a store, then the effect of a declaration and of
an extension on *every* key; `StepShape` reduces the ten operations to four
shapes of step. From there:
type correctness, each invariant of the run, `Superseding` (what is sealed stays,
`SealHolds`, and a declaration changes only by what may replace it,
`RetypingIsReplacement`) and the refinement of `Ownership`. That ledger and
stores agree, and what follows from it, is proved under the assumption that no
form's `unique_in` names one of the registry's own namespaces; the registry
does not enforce it.

`LoaderProofs`, the load. A load is a run of the registry (`LoadsAreRegistryRuns`), so
everything above holds of it; its own invariant is the position and the types
of the statements. From the same lemmas: type correctness of the load, and that
a requirement core has met stays met, one on a parent included, for any programs. `ForwardReferences` says
the same of `ForwardReferencesResolve`: its invariant is that whatever a pass has
*visited* is declared, in this group or an earlier one, and stays so, which
needs that an entry of the ledger in a structural namespace is stored as well
(again no `unique_in` may name one), and that no name is one of the keywords.
`ObjectsAreComplete` says it of `ObjectsComplete`, from no assumption: neither of
the last two passes declares a class, so what a statement instantiates when it is
visited is what it instantiates when the group is checked.

`ReportProofs`. `ManifestsAreChecked`: a manifest is reported if and only if what
it lists are not the forms its library declared or superseded last, for all
programs whose names are no keywords. The check reads owners off the registry;
the invariant ties them to the program. Every stored form has the owner of the one
declaration that *holds* its id -- visited, accepted, and none accepted after it --,
every declaration visited is stored or was refused and said so, and the manifests
collected are those pass two has visited. That a refusal is reported of a
declaration in the first pass only is what lets the reports be read as history.

`ReportsAreExact` adds the other half of `ReportedExactly`: of a program without
@replaces the second and later declarations of an id in its namespace are
reported, and nothing else is, in whatever pass each is read. Three facts are
inductive together. A statement that pass four saw and that declares nothing never
will, or was reported unknown (`NothingLate`); the ledger has an entry exactly for
what a live declaration -- offered, and not reported unknown -- declares
(`LedgerIsLive`); and a live declaration was refused exactly if another one stands
before it (`DuplicatesKnown`). They need that each statement is offered once, in the
pass of its namespace, so that the namespace does not move once it is there: a form
keeps its unique key, and no name turns from a class into a form. That is the
hypothesis `NamesKeepTheirMeaning`, said of the program's statements: no name is
declared both as a form and as a class, and no `schema_extension` brings a form a
unique key. Without the second the property is false (see `LoaderLateKey`: an
instance may stand before the extension that names it). `MCLoader` loads programs
inside and outside the hypothesis, and the property holds of all of those. Assumed
besides (`NamesApart`): no name is a keyword, no `unique_in` names a structural
namespace, and the sentinels are no namespace and no name.

`PropertyLookupProofs`. `PresentSound` and `AbsentSound`, the two answers the
checks act on, for any registry. A line of ancestors is a recursive function of
the number of steps; everything the proofs need of it they get by induction on
the steps (`NatLeast`, least counterexample): a step further is a step from the
parent, a descendant's line ends in the ancestor's, and a line of distinct
classes is no longer than the classes there are. The last is what the walk's cap
(`kMaxDepth`) is about: `PresentIsSound` holds for every program and every cap,
`AbsentIsSound` where no line is longer than the cap (`Shallow`), and
`AbsentIsSoundInSmallPrograms` says that a program with no more classes than the
cap is such a one. `AnswersRise`: one more declaration never takes a property
away from a class; at most it turns an absence into something the walk can see.

`LexerProofs`. `LexerIsTotal`, for a file of any bytes (`SourcesAssumption`: a file
is a sequence). That the tokens and the trivia tile the file is the lesser half:
the invariant says where the lexer stands, what the pieces that wait for a token
fill, and that every token's run fills the gap before it. The other half,
`ReadTwiceAlike`, relates loops that never meet: the bytes the lexer reports as
malformed against the validation of the whole file before it, and where the
lexer cuts a literal's escapes against where `decode_string_escapes` does. Each
loop is a walk by steps of its own; the lemmas on walks (`VisitedNext`,
`VisitedSkips`, `WalkCollects`) reduce what two of them collect to what each does
at a place both visit, and two character lemmas (`WellFormedDecodes`,
`EscapeReadTwice`) say that they do the same there.

`ParserProofs`. `ParserIsTotal`: `TreeTotal`, at every moment of the parse of any
file. What has been emitted covers the file up to a byte because the trivia of a
token fill what is between it and the token before -- the lexer's invariant again --
and because the limits of the comment policy lie among those pieces. That nodes
nest, that no parse function runs past the end of the file and that the parse
ends with every node closed is said of the script: its calls lead, one by one,
from the nodes that are open to the end of the file's items (`Leads`), taking no
more tokens unseen than there are and wrapping a name only when it is the last
leaf. Replacing a call by others keeps that when they lead where it did: one
lemma for each replacement in the parser (`HeldStatement`, `DecidedBrackets`...),
one for each action, and the recovery is among them like everything else.

`TriviaProofs`. `TriviaIsOwned`: `TriviaOwned`, of every file, whatever the parser
has to recover from. The trivia before a token go out in up to three parts, by three
functions that each start where the one before left the cursor, so that a statement
begins and ends in the right place depends on what was called before it. Totality
does not say: it holds of a parser that gives every comment to the wrong
statement. `Policy` therefore has two halves. `Drawn` is what can be read off the
tree: every finished statement starts and ends where the policy has it
(`StatementsKeep`), no leaf is empty, a comment has no line feed in it, and the
cursor is not inside one. `Promised` is what makes that inductive: each call of the script
can be given a *spot*, the nodes that are open there and a `mode`, what is known
of the cursor (a value leaves it at its last token, at a value that is missing
or in a block that never closes; items start after a token or where a line
ended), and the calls lead from spot to spot up to the end of the file. `Act`
is the contract of one call; a parse function replaces its call by calls that
together keep its contract (`Settles`, `Completes`), one lemma for each, and
a call that emits or closes keeps `StandsAt` and `Drawn` (`PolicyEmitTrivia`,
`PolicyEmitToken`, `PolicyStartNode`, `PolicyFinishNode`). What is left is to read
the tree back: the leaves between two tokens are that gap's trivia in order
(`LeavesInOrder`, `TriviaInGap`), so that what the parser did at a byte is what the
property says of leaves.

`BlocksProofs`. For every registry and every file as above. The checks are
functions that call each other, and each property speaks of what they have
reported together; what connects the two is `ReportsAreDue`. A task is *due* if a
chain of calls leads to it from the agenda, and the invariant `Going` says that
each task carried out or still to be was due, that the reports are those of the
due tasks that are done, and that every chain is done up to where it meets `todo`.
At the end the reports are then exactly what the due tasks find, so an order of
calls that drops or adds one is impossible. The list a block's values make
(`ValueTasks`, defined by recursion along the block) is characterised once
(`ValueTasksAre`), the recursive `duplicate` of `check_arity` too (`DuplicatesAre`). Next, every
task reports at its place or directly below and calls there, so that what is said
of a statement or of an object can be traced to the tasks on it. From there:
- `KeysAreAnswered`: what `check_instance_properties` finds and what
  `check_instantiation` finds of one key, the object's own declarations being
  read twice. The proof shows more than the property: a key is reported exactly
  if neither its own declarations nor its class give it and it means nothing by
  itself. The property leaves open what only an own trait gives, which 8.4 counts
  and the code does not. The parent chain is the one of `PropertyLookupProofs`.
- `OneCombinationHolds`: the visitor comes to every annotated value of the file,
  and what it lets through has one combination in every order
  (`OrderNeverCombines`, for any number of annotations and any key).
- `OnePlacementHolds`: keywords and the long form are counted together; the proof
  counts relations, not statements, as the code does.
- `DeclaredTypesDoJudge`: by induction on how deep a value stands. The type of a
  property or key is among those `check_declared_types` goes through, found by the
  same search along parents and traits; where nothing is reported, what
  `check_type` goes on to is what the values inside stand against. Types that an
  object or a `type_of` spells are excepted, as in the property: nobody checks them.
- `SpellingsDoAgree`: an object written short calls what it calls written long, and the
  form `object` beside it. The two statements stand at different places, so the
  proof is about tasks that are *alike*, equal but for their place: they find the
  same codes at the same distance and call alike tasks. A chain from one
  spelling has therefore a twin from the other, and what is reported below the
  short one is what is reported below the long one, except by the tasks that only
  the form `object` calls.
- `OneBindingHolds`: what `check_arity` reports of a block is what one call for that
  block reports, if no other task writes at the places below it. So each place has at
  most one task of each pass (`OneAt`: an object's is unique at its statement, and of
  two values at one place the less deep would have two callers); each value a slot
  stands for is a task that is due (`Answered`, along the search `SlotsOf` makes, at
  every depth); and of the statements of one key the first that is not yet refused
  stays for every session a later one is in. `CoexistingMeansSeen` turns
  `CanCoexist` of two statements into a session that sees both; where both are for
  no frontend in particular one is needed, hence `FrontendsAssumption`
  (`kFrontends` lists five). Its hypothesis `KeysApart` is that no key of the form
  `object` is the name of a property of an object of the file: such a value would be
  checked twice, against two types, and a duplicate by one form need not be one by
  the other. `MCBlocks` has objects that use keys of the form and none that break it.

`GreenTreeProofs`. For any number of builders and editors, any allocator and any
limit: `CacheStaysExact` (every key names the one live object with that content,
and a small node is never there twice), `HeldTreesNeverChange` and type
correctness. The invariant is the cache's -- keys exact, *every* token and small
node registered under its own key, the children of every object alive -- and
each holder's: what a builder has finished, what a spine leads through and what
an editor is about to place are there, and a spine's inner frames are nodes.
Exact keys are what makes a lookup return live children; that children are
alive is what makes keys exact, since an entry's node keeps its children from
being destroyed. One lemma covers a call for a token, one a call for a node;
a step of a builder or an editor is then its call and what it does to its own
part, and `BuilderStays` and `EditorStays` carry everybody else over.

Only model-checked: that parses and edits answer what `TreeEditing` promises, and
the order and ranges of cursors (they recurse over trees); `ReportedExactly` of
programs in which a name changes its meaning; that the parser is silent on exactly
the files the grammar derives (`SilentOnTheGrammar`: the reference recurses); everything
about `Narrowing`, `Messages` and `Templates`, which recurse over blocks and texts
or are compared with references that do; and of `Blocks`: `SilentWhenItConforms`,
whose reference takes the meaning of every type at once, `ReadsAsItsClass`, and
`NamesAnswered`, which compares two descents over all files.
Recursion over data is in reach where depth is a number (`Nesting`, a chain's
length) and the recursion a function of it; operators that recurse over
values themselves are not. Nor are liveness (`EveryPassEnds`, `ReadToTheEnd`) and ENABLED.

## Disagreements that properties name

Cases in which the model, like the code, does other than the specification or a
comment says, and which a passing run reaches. Each is named by an operator of
the reference, and the property that uses it asserts the specification of
everything else; taking the operator's disjunct away makes TLC find a
counterexample. (`MixesIn` is the exception: it leaves open what the code does.)

| Operator, property | What the code does | What is said |
|---|---|---|
| `ReservedAsName`, `TemplatesRead` | `[else x]`, `[end x]`, `[if(a)]` and a path such as `if.a` reach the expression parser, which takes the word for a name (template.cpp:227) | the three words are "never read as applications" (9.2.1; template.cpp:411) |
| `ReportedAnyway`, `SilentWhenItConforms` | `none` for a collection has the wrong type (types.cpp:473) | it clears the collection (5.5, :433) |
| | `inherit` for one member of a group excludes the others (loader.cpp:614) | it "is exactly equivalent to omitting the statement" (:432) |
| `PassedOver`, `SilentWhenItConforms`, `ReadsAsItsClass` | a call is silent under every type (types.cpp:437) | where the type accepts none it "MUST be an error" (4.3, :309) |
| | a record written for a `list<block<S>>` is not looked into (types.cpp:487) | it is one `S` (6.2) |
| | an empty block inside another is not asked for required keys (types.cpp:478) | a required key is required; at the top level it is reported |
| | a form that is written as a list at the top level is not reported (loader.cpp:960) | a nested one is (types.cpp:522) |
| | `inherit` satisfies a required key (loader.cpp:744) | as above, it is as good as none |
| | a third member of a group is not compared (loader.cpp:622) | the finding of `OneAnswerPerSession` |
| `MixesIn`, `EveryKeyAnswered` | a key that only a trait the object mixes in itself has is reported (types.cpp:612, instance_properties.cpp:74) | such a trait is a source of the object's properties (8.4, step 2; 8.3); reads have the same fault, the finding of `AbsentFromObjects` |
| `UnseenMention`, `NamesAnswered` | of a `set_global` only nested blocks are walked, and no call's arguments (globals.cpp:103), so a global named there alone is called unused | everything else in the block "is an ordinary value and is walked" (globals.cpp:94); a word in an argument is a global (6.6.3) |
| `UnseenKey`, `NamesAnswered` | the `$key`s of a call within a call are not visited (text.cpp:186) | "a `$key` is as legal there as anywhere" (text.cpp:183) |
| `UnseenStyle`, `NamesAnswered` | nor are styles in the strings of a call | a style that is used is declared (9.3) |

## Seen and not modelled

Read in the code while modelling; no run shows them.

- `note_object` does not ask first whether a key is a form (loader.cpp:1010), so
  where a class has the id of a form, the form's instances become objects too;
  the specification (7.4) has the form win.
- Two `core_requirement`s of one id are both accepted, although its form has a
  `unique_in` (loader.cpp:849).
- An ordinary form whose `unique_in` names `class` supersedes a class in the
  ledger only (loader.cpp:887).
- `is` names an object (spec 10.4) and is said to narrow (8.8.3), but only the
  name of a class or a trait does (narrowing.cpp:176), so a read after
  `is = club` is reported as possibly absent.
- After `has_trait` the trait alone is the slot's type (narrowing.cpp:177): what
  the grammar or an earlier `of_class` established is forgotten, and since no
  class descends from a trait (property.cpp:82) a read of a class's property is
  reported as definitely absent, which `AbsentReadsFail` leaves out.
- `find_class_or_trait` prefers the class (loader.cpp:141): where a trait has the
  id of a class, `has_trait` narrows to the class.
- The rules nested in an action are judged for their messages and not for their
  reads (narrowing.cpp:536).
- A form that another library supersedes is no longer its library's, since
  manifests are compared by owner (loader.cpp:1251): the first library is told that
  it "declares no such form", although it does (13.3), and the second that it does
  not list one that it only replaces.
- The noted properties of a superseded object keep a read possibly present
  (loader.cpp:1035).
- "Structurally identical subtrees share one object" (green.hpp:96-99) holds only
  up to three children: a wider node is made anew each time (green.cpp:92), and
  so is a node above it, its children being at other addresses.

In the readers of files:

- A statement whose value is missing takes the comment above the next statement
  with it (cst/parser.cpp:344).
- A comment before a token that no statement can start with ends up inside its
  Error node (parser.cpp:222), although comments are elsewhere kept outside
  (parser.cpp:79).
- `remove_child` of an index past the last child answers the parent without a
  change (cst/edit.cpp:70), which edit.hpp:28 does not mention.
- `a<>`, `a<b,>` and `f(a,)` are accepted (parser.cpp:392); phase-0-backlog.md:323
  and stardata-spec.md:265 say otherwise. Annotations accept `@n()`, `@n(a a)` and
  `@n(,)`, which section 3.8 does not derive.
- An unclosed `@n(` takes everything to the end of the file.
- `"a" "b" = 1` is reported, though adjacent literals join (4.1).
- In an unterminated literal that ends in `\"`, the decoded text loses the quote.
- A carriage return alone ends a comment but not a line of trivia.

In templates:

- A malformed expression is silent: the fragment has none, and no caller reports it.
- After a stray `]` the next literal begins, in its span, at the bracket its text
  does not have (template.cpp:373).
- The last character of an unterminated literal is taken for its quote
  (template.cpp:61).

In the checks of blocks:

- Two `@priority` on one value are accepted and the last one counts; contradictory
  combinations are to be rejected (5.4).
- As an entry of a list `inherit` is judged as a word, where 5.5 speaks of
  statements only.
- A required key that is written under `@platform` or `@debug` alone satisfies the
  form in every session.
- An entry of a list whose element type nobody declares is reported at each value,
  which types.cpp:430 means to avoid; an undeclared type in a `prop_def` of an
  object is not reported at all.
- The short spelling of an object reports nothing for an id that is missing, is
  no identifier or is taken; the long one does. Keys written twice in an object are
  not reported.
- `in = typo` is never resolved, though it stands for `holder = typo` (8.5).
- The entries of a set are the same if their text is: `1` and `01` are two.

Among names:

- A global that is read in a template or in another's `initial` alone is called
  unused.
- A `$key` as an entry of a table is not a reference.
- An unused entry is reported at the first one added, so where depends on the
  order of the files.
- Nothing rejects writing to a `const`; the backlog lists it as open.

## Plan

What could be added, in order of what it would show:

1. The rest of the declaration readers (readers of `enum`, `schema` and `class`
   blocks): which malformed declarations are reported and what is kept of them.
2. The spans of template fragments: the offsets of what is reported inside a
   string that is written in several literals.
3. The bounded edit distance of the suggestions against its definition.
4. The sink: counts beyond the limit of what is stored, and the order of what is
   rendered.
