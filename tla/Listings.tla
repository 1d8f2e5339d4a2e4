------------------------------ MODULE Listings --------------------------------
(***************************************************************************)
(* What an application registers, what each protocol revision lists of it, *)
(* and what it serves: Registry, Extension, the projections of the         *)
(* adapters, the listings and reads of the Dispatcher, and the pages a     *)
(* client follows while the application registers more.                    *)
(* Addresses (names, URIs, URI templates) are numbers in the order of      *)
(* their text; a template is an address in the domain of Matches, which    *)
(* gives the URIs it fits.  Whether a tool's schema can be said to older   *)
(* clients is a flag of the tool (plain).                                  *)
(***************************************************************************)
EXTENDS Naturals, Sequences, FiniteSets, SequencesExt, Ordered

CONSTANTS
    Matches,
    Tools,        \* [name, min_revision, plain, needs]
    Prompts,      \* names
    Resources,    \* addresses the application may register
    Extensions,   \* [name, methods, resources, manifest]
    Providers,    \* what can be injected into a handler
    ProtocolMethods,
    SkillEntries, \* what skills/list knows
    PageSizes, None

VARIABLES
    tools, prompts, fixed,  \* sets of specs, kept by name or URI in the code
    templated,              \* the sequence of template specs
    extensions,
    page_size,
    listing                 \* one client's listing under way

registered == <<tools, prompts, fixed, templated, extensions>>
vars == <<registered, page_size, listing>>

Revision == 1 .. 5
supports_extensions(v) == v = 5

(***************************************************************************)
(* Registration.  A refusal raises and registers nothing.                  *)
(***************************************************************************)
ResourceSpec(addr, legacy, legacy_only) == [addr |-> addr, legacy |-> legacy, legacy_only |-> legacy_only]
HasTemplate(spec) == spec.addr \in DOMAIN Matches

resource_aliases == {spec \in fixed : spec.legacy # None}
FixedAddresses == {spec.addr : spec \in fixed}
AliasAddresses == {spec.legacy : spec \in resource_aliases}
TemplateAddresses ==
    ({templated[n].addr : n \in DOMAIN templated} \cup {templated[n].legacy : n \in DOMAIN templated}) \ {None}

check(needs) == needs \subseteq Providers

tool(spec) ==
    /\ check(spec.needs)
    /\ \A other \in tools : other.name # spec.name
    /\ tools' = tools \cup {spec}
    /\ UNCHANGED <<prompts, fixed, templated, extensions>>

prompt(name) ==
    /\ name \notin prompts
    /\ prompts' = prompts \cup {name}
    /\ UNCHANGED <<tools, fixed, templated, extensions>>

resource(uri) ==
    /\ \/ /\ uri \notin DOMAIN Matches
          /\ uri \notin FixedAddresses \cup AliasAddresses
          /\ fixed' = fixed \cup {ResourceSpec(uri, None, FALSE)}
          /\ UNCHANGED templated
       \/ /\ uri \in DOMAIN Matches
          /\ uri \notin TemplateAddresses
          /\ templated' = Append(templated, ResourceSpec(uri, None, FALSE))
          /\ UNCHANGED fixed
    /\ UNCHANGED <<tools, prompts, extensions>>

\* A method is a resource template for older clients, and a resource where no
\* parameter is required.
method_resources(e) ==
    {ResourceSpec(m.template, None, TRUE) : m \in e.methods}
    \cup {ResourceSpec(m.uri, None, TRUE) : m \in {x \in e.methods : ~x.required}}
manifest_resource(e) == ResourceSpec(e.manifest, None, TRUE)

bundled(e) == e.resources \cup method_resources(e) \cup {manifest_resource(e)}

Addresses(spec) == {spec.addr, spec.legacy} \ {None}

\* (Mutant) A template of an extension is looked for among the resources only.
FixedOnly(e) ==
    \A spec \in bundled(e) : Addresses(spec) \cap (FixedAddresses \cup AliasAddresses) = {}

Unclaimed(e) ==
    /\ e.manifest \notin {spec.addr : spec \in e.resources}
    /\ \A one, other \in bundled(e) : one # other => Addresses(one) \cap Addresses(other) = {}
    /\ \A spec \in bundled(e) :
          Addresses(spec) \cap (FixedAddresses \cup AliasAddresses \cup TemplateAddresses) = {}

\* Routes of methods go before the templates whose matcher would take them.
extension(e) ==
    /\ \A other \in extensions : other.name # e.name
    /\ \A m \in e.methods :
          /\ m.name \notin ProtocolMethods
          /\ \A other \in extensions : m.name \notin {x.name : x \in other.methods}
    /\ Unclaimed(e)
    /\ fixed' = fixed \cup {spec \in bundled(e) : ~HasTemplate(spec)}
    /\ templated' = SetToSeq({spec \in bundled(e) : HasTemplate(spec) /\ spec.legacy_only})
                    \o templated \o SetToSeq({spec \in bundled(e) : HasTemplate(spec) /\ ~spec.legacy_only})
    /\ extensions' = extensions \cup {e}
    /\ UNCHANGED <<tools, prompts>>

(***************************************************************************)
(* What a revision shows.                                                  *)
(***************************************************************************)
describe_tool(v, spec) ==
    IF spec.min_revision > v \/ (v < 5 /\ ~spec.plain) THEN None ELSE spec.name

describe_resource(v, spec) ==
    IF spec.legacy_only /\ supports_extensions(v) THEN None
    ELSE IF spec.legacy # None /\ ~supports_extensions(v) THEN spec.legacy
    ELSE spec.addr

capabilities(v) ==
    {c \in {"tools", "resources", "prompts"} :
        \/ c = "tools" /\ tools # {}
        \/ c = "resources" /\ \E spec \in fixed \cup ToSet(templated) : describe_resource(v, spec) # None
        \/ c = "prompts" /\ prompts # {}}

entries(v, operation) ==
    CASE operation = "list_tools" -> {describe_tool(v, spec) : spec \in tools} \ {None}
      [] operation = "list_resources" -> {describe_resource(v, spec) : spec \in fixed} \ {None}
      [] operation = "list_resource_templates" ->
            {describe_resource(v, spec) : spec \in ToSet(templated)} \ {None}
      [] operation = "list_prompts" -> prompts
      [] operation = "skills/list" -> SkillEntries

(***************************************************************************)
(* What it serves.                                                         *)
(***************************************************************************)
Fits(spec, uri) == uri \in Matches[spec.addr] \/ (spec.legacy # None /\ uri \in Matches[spec.legacy])

match_resource(uri) ==
    LET known == {spec \in fixed : spec.addr = uri} \cup {spec \in resource_aliases : spec.legacy = uri}
        fitting == {n \in DOMAIN templated : Fits(templated[n], uri)}
    IN  IF known # {} THEN CHOOSE spec \in known : TRUE
        ELSE IF fitting # {} THEN templated[CHOOSE n \in fitting : \A other \in fitting : n <= other]
        ELSE None

\* The spec whose handler is called, None for resource not found.
read_resource(v, uri) ==
    LET spec == match_resource(uri) IN
    IF spec = None THEN None
    ELSE LET definition == describe_resource(v, spec) IN
         IF definition = None \/ (~HasTemplate(spec) /\ definition # uri) THEN None
         ELSE IF HasTemplate(spec) /\ spec.legacy # None /\ uri \notin Matches[definition] THEN None
         ELSE spec

call_extension(v, method) ==
    IF supports_extensions(v) THEN {e.name : e \in {x \in extensions : method \in {m.name : m \in x.methods}}}
    ELSE {}

(***************************************************************************)
(* Pages.                                                                  *)
(***************************************************************************)
NoListing == [v |-> None, operation |-> None, cursor |-> None, got |-> <<>>, wanted |-> {}, stage |-> "none"]

\* (Mutant) The page begins with the entry the cursor names.
NotBefore(x, cursor) == cursor = None \/ x >= cursor

After(x, cursor) == cursor = None \/ x > cursor

paged(all, cursor) ==
    LET rest == InOrder({x \in all : After(x, cursor)})
        whole == page_size = None \/ Len(rest) <= page_size
    IN  [shown |-> IF whole THEN rest ELSE SubSeq(rest, 1, page_size),
         next_cursor |-> IF whole THEN None ELSE rest[page_size]]

Operations == {"list_tools", "list_resources", "list_resource_templates", "list_prompts", "skills/list"}

Page ==
    /\ listing.stage = "open"
    /\ LET all == entries(listing.v, listing.operation)
           page == paged(all, listing.cursor)
       IN  listing' =
              IF listing.cursor # None /\ listing.cursor \notin all
              THEN [listing EXCEPT !.stage = "unknown cursor"]
              ELSE [listing EXCEPT !.got = @ \o page.shown, !.cursor = page.next_cursor,
                                   !.stage = IF page.next_cursor = None THEN "end" ELSE "open"]
    /\ UNCHANGED <<registered, page_size>>

pages(v, operation) ==
    /\ listing = NoListing
    /\ listing' = [NoListing EXCEPT !.v = v, !.operation = operation, !.wanted = entries(v, operation),
                                    !.stage = "open"]
    /\ UNCHANGED <<registered, page_size>>

(***************************************************************************)
(* Specification                                                           *)
(***************************************************************************)
Init ==
    /\ tools = {} /\ prompts = {} /\ fixed = {} /\ templated = <<>> /\ extensions = {}
    /\ page_size \in PageSizes
    /\ listing = NoListing

Register ==
    /\ \/ \E spec \in Tools : tool(spec)
       \/ \E name \in Prompts : prompt(name)
       \/ \E uri \in Resources : resource(uri)
       \/ \E e \in Extensions : extension(e)
    /\ UNCHANGED <<page_size, listing>>

Next == Register \/ Page \/ \E v \in Revision, operation \in Operations : pages(v, operation)

Spec == Init /\ [][Next]_vars

(***************************************************************************)
(* Properties                                                              *)
(***************************************************************************)
URIs == UNION {Matches[t] : t \in DOMAIN Matches} \cup FixedAddresses \cup AliasAddresses

\* What may be registered, and the URIs that one of them takes.
Specs == {ResourceSpec(uri, None, FALSE) : uri \in Resources} \cup UNION {bundled(e) : e \in Extensions}
Takes(spec) == IF HasTemplate(spec) THEN UNION {Matches[t] : t \in Addresses(spec)} ELSE Addresses(spec)
Beside(spec) == {other \in Specs : other # spec /\ Addresses(other) \cap Addresses(spec) = {}}

\* A method's route and the template that an extension has for older clients.
Precedes(one, other) ==
    /\ HasTemplate(one) /\ one.legacy_only
    /\ HasTemplate(other) /\ ~other.legacy_only /\ other.legacy # None
    /\ Takes(one) \cap Matches[other.addr] = {}

\* What nobody checks when templates are registered: apart from that pair, no
\* template takes a URI of another one or of a resource, and each of its
\* addresses fits a URI that is its own.
TemplatesApart ==
    \A spec \in Specs : HasTemplate(spec) =>
        /\ \A other \in Beside(spec) :
              Takes(spec) \cap Takes(other) # {} => Precedes(spec, other) \/ Precedes(other, spec)
        /\ \A template \in Addresses(spec) : \E uri \in Matches[template] :
              \A other \in Beside(spec) : uri \notin Takes(other)

\* On every revision the server reads exactly what it lists: each listed
\* resource by its own handler, each URI a listed template fits, nothing else;
\* no listed template is hidden behind the others (each fits a URI that no
\* other template does); it announces what it lists; and each method of an
\* extension is reached in the revision's own way, and reaches that extension.
\* (A listing under way changes nothing of this, so it is looked at before.)
ListedIsServed ==
    listing = NoListing => \A v \in Revision :
        LET resources == entries(v, "list_resources")
            templates == entries(v, "list_resource_templates")
        IN
        /\ \A spec \in fixed :
              describe_resource(v, spec) # None => read_resource(v, describe_resource(v, spec)) = spec
        /\ \A uri \in URIs : read_resource(v, uri) # None <=> uri \in resources \cup UNION {Matches[t] : t \in templates}
        /\ \A spec \in ToSet(templated) :
              LET template == describe_resource(v, spec) IN
              template # None => \E uri \in Matches[template] : read_resource(v, uri) = spec
        /\ resources \cup templates # {} => "resources" \in capabilities(v)
        /\ \A e \in extensions : \A m \in e.methods :
              IF supports_extensions(v) THEN call_extension(v, m.name) = {e.name}
              ELSE \A uri \in Matches[m.template] : read_resource(v, uri) = ResourceSpec(m.template, None, TRUE)

\* A client that follows the cursors to the end while more is registered is
\* never refused, gets entries in order and none twice, and gets every entry
\* that was there when it began.
PagesAreComplete ==
    /\ listing.stage # "unknown cursor"
    /\ \A n \in 2 .. Len(listing.got) : listing.got[n - 1] < listing.got[n]
    /\ listing.stage = "end" => listing.wanted \subseteq ToSet(listing.got)
=============================================================================
