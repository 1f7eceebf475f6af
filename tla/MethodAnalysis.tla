--------------------------- MODULE MethodAnalysis ---------------------------
(***************************************************************************)
(* What the ahead-of-time analysis says of one method                      *)
(* (public/discovery: analyzeMethod, the method checks, the analysis of    *)
(* object keys and response transforms, the sample responses).             *)
(*                                                                         *)
(* A method is a record                                                    *)
(*   opRef, template  "nil", "bare" or "ref", and the path it leads to     *)
(*   formulates, builds   whether the address space can be formulated and  *)
(*                    a request be built from dummies                      *)
(*   unrouted, servers, requestToken, responseToken   what the checks see  *)
(*   graphql, verb, inline                                                 *)
(*   response         Absent, or the response block: its object key, its   *)
(*                    raw, override and async schemas, its media types and *)
(*                    Absent or its transform                              *)
(* and a transform [type, empty, parses, guarded, chained, survives, fix]. *)
(*                                                                         *)
(* A report is a set of errors [bin, what] and a set of findings; an error *)
(* whose text has no bin in front has the bin "".                          *)
(***************************************************************************)
EXTENDS PathRouting, SchemaLooks

NoSample == [pre |-> Absent, post |-> Absent]
Finding(level, bin, what) ==
    [level |-> level, bin |-> bin, what |-> what, sample |-> NoSample, fixed |-> FALSE]
NewWarning(bin, what) == Finding("warning", bin, what)
NewError(bin, what) == Finding("error", bin, what)

When(condition, f) == IF condition THEN {f} ELSE {}

Untagged(what) == [bin |-> "", what |-> what]
\* A finding at level error is an error too, under its bin.
Recorded(findings) ==
    [findings |-> findings,
     errors   |-> {[bin |-> f.bin, what |-> f.what] : f \in {g \in findings : g.level = "error"}}]
Join(a, b) == [findings |-> a.findings \cup b.findings, errors |-> a.errors \cup b.errors]
OnlyFindings(fs) == [findings |-> fs, errors |-> {}]
OnlyErrors(whats) == [findings |-> {}, errors |-> {Untagged(w) : w \in whats}]

(***************************************************************************)
(* The schemas of a method.                                                *)
(***************************************************************************)
ObjectKey(m) == IF m.response = Absent THEN NoKey ELSE m.response.key
RawSchema(m) == IF m.response = Absent THEN Absent ELSE m.response.raw
ResponseBodySchema(m) ==
    IF m.response = Absent THEN Absent
    ELSE IF m.response.override # Absent THEN m.response.override ELSE m.response.raw
FinalResponseBodySchema(m) ==
    IF m.response # Absent /\ m.response.async # Absent THEN m.response.async
    ELSE ResponseBodySchema(m)
ResponseMediaType(m) ==
    IF m.response.override # Absent \/ m.response.overrideMedia # ""
    THEN m.response.overrideMedia ELSE m.response.media
Transform(m) == IF m.response = Absent THEN Absent ELSE m.response.transform

SelectSchema(m) ==
    LET s == ResponseBodySchema(m)
    IN  IF s = Absent THEN Absent
        ELSE SelectItemsSchemaOf(s, SelectItemsKeyOf(s, ObjectKey(m)))

ShouldBeSelectable(m) == ResponseBodySchema(m) # Absent \/ ObjectKey(m) # NoKey

(***************************************************************************)
(* The checks that are made of every method.  What they find is never an   *)
(* error of the analysis, not even at level error.                         *)
(***************************************************************************)
checkRequestParamRoutability(m) ==
    When(m.unrouted, NewWarning("request-param-unroutable", "no location"))

checkRefResolution(m) ==
    When(m.opRef = "nil", NewError("ref-resolution-failed", "nil")) \cup
    When(m.opRef = "bare", NewError("ref-resolution-failed", "no $ref")) \cup
    When(m.opRef # "nil" /\ m.response # Absent /\ ResponseBodySchema(m) = Absent,
         NewWarning("ref-resolution-failed", "no schema"))

checkServerURLValidity(m) ==
    When(m.servers # "good", NewWarning("server-url-invalid", m.servers))

checkPaginationCompleteness(m) ==
    LET req == m.requestToken
        rsp == m.responseToken
    IN  When(req # "none" /\ rsp = "none", NewWarning("pagination-incomplete", "no response token")) \cup
        When(rsp # "none" /\ req = "none", NewWarning("pagination-incomplete", "no request token")) \cup
        When(req = "empty", NewWarning("pagination-incomplete", "empty request key")) \cup
        When(rsp = "empty", NewWarning("pagination-incomplete", "empty response key"))

checkTransformSchemaConsistency(m) ==
    LET r == m.response
    IN  IF Transform(m) = Absent THEN {}
        ELSE When(r.overrideMedia \notin {"", r.media, "json"} /\ r.transform.type = "xml",
                  NewWarning("transform-schema-mismatch", "media type")) \cup
             When(r.overrideMedia # "" /\ ResponseBodySchema(m) = Absent,
                  NewWarning("transform-schema-mismatch", "no schema")) \cup
             When(r.transform.empty, NewWarning("transform-schema-mismatch", "empty body"))

\* Mutant: parameters at the two ends of the path are what is looked for.
hasAdjacentPathParamsOuter(template) ==
    Len(template) > 1 /\ IsPlaceholder(template[1]) /\ IsPlaceholder(template[Len(template)])

hasAdjacentPathParams(template) ==
    \E i \in 1..(Len(template) - 1) : IsPlaceholder(template[i]) /\ IsPlaceholder(template[i + 1])

checkPathParamAdjacency(m) ==
    When(m.opRef # "nil" /\ hasAdjacentPathParams(m.template), NewWarning("path-param-adjacent", "slashes"))

MethodChecks(m) ==
    checkRequestParamRoutability(m) \cup checkRefResolution(m) \cup checkServerURLValidity(m) \cup
    checkPaginationCompleteness(m) \cup checkTransformSchemaConsistency(m) \cup checkPathParamAdjacency(m)

\* standardMethodPreparedAnalyzer: an address space, then a request from
\* dummies.
Prepared(m, protocol) ==
    OnlyErrors(IF ~m.formulates THEN {"formulation"}
               ELSE IF protocol = "http" /\ ~m.builds THEN {"request"} ELSE {})

(***************************************************************************)
(* Object keys.                                                            *)
(***************************************************************************)
\* One step of the walk: through the items, or to a property, an array's being
\* its items' when it has none of its own.
WalkStep(s, name) ==
    LET through == ItemsOf(s)
        own     == PropertyOf(s, name)
    IN  IF name = "[*]" THEN through
        ELSE IF own = Absent /\ s.type = "array" /\ through # Absent
             THEN PropertyOf(through, name) ELSE own

\* Whether the walk gets to the end of the path without a warning.
walkSchemaPath(s, path) ==
    LET at[i \in 0..Len(path)] ==
            IF i = 0 THEN s
            ELSE IF at[i - 1] = Absent THEN Absent ELSE WalkStep(at[i - 1], path[i])
    IN  at[Len(path)] # Absent

analyzeObjectKeyRoutability(m, s) ==
    Recorded(When(ObjectKey(m).kind = "json" /\ ResponseMediaType(m) = "xml",
                  NewWarning("media-type-mismatch", "JSONPath")) \cup
             When(~walkSchemaPath(s, ObjectKey(m).path), NewWarning("objectKey-unroutable", "walk")) \cup
             When(SelectSchema(m) = Absent, NewError("objectKey-unroutable", "selection")))

(***************************************************************************)
(* Response transforms.                                                    *)
(***************************************************************************)
\* A type that is not known, and a template that does not parse, end the
\* analysis of the template; its findings are then without a bin.
TemplateErrors(t) ==
    IF t.type = "unknown" THEN {NewError("", "type")}
    ELSE IF ~t.parses THEN {NewError("", "parse")}
    ELSE When(~t.guarded, NewWarning("empty-response-unsafe", "unguarded")) \cup
         When(t.type = "xml" /\ t.chained, NewError("response-shape-unsafe", "chained index"))

\* A repaired template is attached to every finding when it passes the same
\* analysis and fails no empirical test that the original passes.
AnalyzeTemplate(t) ==
    LET fs == TemplateErrors(t)
        fixable == fs # {} /\ t.type # "unknown" /\ t.parses
    IN  IF fixable /\ t.fix = "good" THEN {[f EXCEPT !.fixed = TRUE] : f \in fs}
        ELSE fs \cup When(fixable /\ t.fix = "bad", NewWarning("response-shape-unsafe", "fix fails"))

RunEmpiricalTests(t) == t.type # "unknown" /\ t.parses /\ t.survives

\* The raw and the transformed body; the raw one stands for both when no
\* override is declared.
GenerateSampleResponsePair(raw, post) ==
    [pre |-> raw, post |-> IF post # Absent THEN post ELSE raw]

\* Only the findings about the template get the samples.
analyzeResponseTransform(m, s) ==
    LET t      == Transform(m)
        post   == IF m.response.overrideMedia # "" THEN m.response.override ELSE Absent
        sample == GenerateSampleResponsePair(RawSchema(m), post)
        shapeless == s.type \in {"string", "integer", "boolean", "number"} \/ (s.type = "object" /\ s.props = <<>>)
    IN  IF t = Absent THEN OnlyFindings({})
        ELSE Join(Recorded({[f EXCEPT !.sample = sample] : f \in AnalyzeTemplate(t)}),
                  Recorded(When(~RunEmpiricalTests(t), NewError("empty-response-unsafe", "empty input")) \cup
                           When(shapeless /\ ObjectKey(m) # NoKey, NewWarning("empty-response-unsafe", "shape"))))

analyzeResponseAndObjectKey(m) ==
    LET s == ResponseBodySchema(m)
    IN  IF s = Absent
        THEN Recorded(When(ObjectKey(m) # NoKey, NewError("objectKey-unroutable", "no schema")) \cup
                      When(ShouldBeSelectable(m) /\ Transform(m) = Absent,
                           NewWarning("empty-response-unsafe", "no schema")))
        ELSE Join(IF ObjectKey(m) # NoKey
                  THEN Join(Recorded(When(s.type = "object" /\ s.props = <<>>,
                                          NewWarning("empty-response-unsafe", "empty object"))),
                            analyzeObjectKeyRoutability(m, s))
                  ELSE OnlyFindings({}),
                  analyzeResponseTransform(m, s))

(***************************************************************************)
(* The whole of a method.                                                  *)
(***************************************************************************)
MissingSemantics(m) ==
    OnlyFindings(When(m.verb = "select" /\ ObjectKey(m) = NoKey, NewWarning("missing-semantics", "selection")) \cup
                 When(m.verb = "", NewWarning("missing-semantics", "no verb")))

\* Of a method that should be selectable: the error that ends its analysis.
SelectionErrors(m) ==
    IF ~ShouldBeSelectable(m) THEN {}
    ELSE IF FinalResponseBodySchema(m) = Absent THEN {"inference", "no response schema"}
    ELSE IF SelectSchema(m) = Absent THEN {"no selectable schema"} ELSE {}

\* Unless the template brought a sample, the final schema makes one.
WithMock(m, report) ==
    IF (\A f \in report.findings : f.sample = NoSample) /\ FinalResponseBodySchema(m) # Absent
    THEN Join(report, OnlyFindings({[Finding("info", "", "mock") EXCEPT
                !.sample = GenerateSampleResponsePair(FinalResponseBodySchema(m), FinalResponseBodySchema(m))]}))
    ELSE report

AnalyzeHTTP(m, report) ==
    LET met == Join(report, MissingSemantics(m))
    IN  IF m.graphql THEN report
        ELSE IF SelectionErrors(m) # {} THEN Join(met, OnlyErrors(SelectionErrors(m)))
        ELSE WithMock(m, Join(met, analyzeResponseAndObjectKey(m)))

analyzeMethod(m, protocol) ==
    LET report == Join(Prepared(m, protocol), OnlyFindings(MethodChecks(m)))
    IN  IF protocol = "http" THEN AnalyzeHTTP(m, report)
        ELSE WithMock(m, Join(report, OnlyErrors(IF m.inline THEN {} ELSE {"no inline"})))

=============================================================================
