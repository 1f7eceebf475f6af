---------------------------- MODULE PathRouting ----------------------------
(***************************************************************************)
(* The router that a built request is checked against.  A path template    *)
(* is a sequence of segments, each a literal or the placeholder of one     *)
(* parameter; a value is a non-empty sequence of segments, longer than one *)
(* when the value contains slashes.                                        *)
(***************************************************************************)
EXTENDS Integers, Sequences, FiniteSets

CONSTANT Literals    \* segments that are not placeholders

IsPlaceholder(segment) == segment \notin Literals

\* Placeholders with nothing but a slash between them keep the matcher that
\* stops at slashes.
Adjacent(template, i) ==
    /\ IsPlaceholder(template[i])
    /\ \E j \in {i - 1, i + 1} \cap DOMAIN template : IsPlaceholder(template[j])

\* Mutant: no placeholder takes a slash.
PermitsSlashesNever(template, i) == FALSE

PermitsSlashes(template, i) == IsPlaceholder(template[i]) /\ ~Adjacent(template, i)

\* Number of placeholders: the fewer, the earlier a template is tried.
Variables(template) == Cardinality({i \in DOMAIN template : IsPlaceholder(template[i])})

\* The URL of a template with values put in: replaceSimpleStringVars leaves
\* the placeholder of a missing value in place.
Piece(template, values, i) ==
    IF IsPlaceholder(template[i]) /\ template[i] \in DOMAIN values
    THEN values[template[i]] ELSE <<template[i]>>

Fill(template, values) ==
    LET join[i \in 0..Len(template)] ==
            IF i = 0 THEN <<>> ELSE join[i - 1] \o Piece(template, values, i)
    IN  join[Len(template)]

\* Where segment i of a template may end when it starts at position k of a URL:
\* a literal takes itself, a placeholder one segment, or any number of them
\* where slashes are permitted.
Ends(template, url, i, k) ==
    IF k > Len(url) THEN {}
    ELSE IF PermitsSlashes(template, i) THEN (k + 1)..(Len(url) + 1)
    ELSE IF IsPlaceholder(template[i]) \/ url[k] = template[i] THEN {k + 1}
    ELSE {}

\* The positions of the URL that a template's segments may end at, segment by
\* segment; the whole template must end where the URL does.
Matches(template, url) ==
    LET reached[i \in 0..Len(template)] ==
            IF i = 0 THEN {1} ELSE UNION {Ends(template, url, i, k) : k \in reached[i - 1]}
    IN  Len(url) + 1 \in reached[Len(template)]

\* FindRoute: the first template in order that takes the URL; the reverse
\* lexical order among equally many placeholders is left open.
FindRoute(templates, url) ==
    LET hits == {t \in templates : Matches(t, url)}
    IN  {t \in hits : \A s \in hits : Variables(t) <= Variables(s)}

=============================================================================
