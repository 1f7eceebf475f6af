--------------------------- MODULE StaticAnalysis ---------------------------
(***************************************************************************)
(* The ahead-of-time analysis of a provider (public/discovery:             *)
(* static_analyzer.go, and the aot command over it).  A provider document  *)
(* is expanded into services, a service into resources, by way of fragments*)
(* that may hold several of them, and every method is analysed; any of     *)
(* these may fail, and the rest is to be analysed nonetheless.  Go's maps  *)
(* are iterated in any order.                                              *)
(*                                                                         *)
(* A provider is [loads, protocol, valid, services]; a service             *)
(*   register   whether it names its resources by a register               *)
(*   readable   whether the register, or the service document, can be read *)
(*   fragment   of each resource key: {} when its fragment cannot be had,  *)
(*              or the resources the fragment holds                        *)
(*   methods    of each resource, a function from names to methods         *)
(*   parent     of a _list_only resource: the one it is named for          *)
(***************************************************************************)
EXTENDS MethodAnalysis

CONSTANTS Providers,   \* the providers under analysis
          Requests     \* [level, service, resource, method]: the command lines

\* loadFromBytesAndResources attaches to a fragment the resources of the register
\* that share its document: the one it was asked for among them.
Attached ==
    \A p \in Providers : \A s \in DOMAIN p.services :
        LET svc == p.services[s] IN
        svc.register =>
            \A r \in DOMAIN svc.methods :
                svc.fragment[r] # {} => r \in svc.fragment[r] /\ svc.fragment[r] \subseteq DOMAIN svc.methods

ASSUME ProvidersAssumption == Attached

\* A template is a list of segments, empty where no reference leads to a path.
Templated ==
    \A p \in Providers : \A s \in DOMAIN p.services :
    \A r \in DOMAIN p.services[s].methods : \A n \in DOMAIN p.services[s].methods[r] :
        LET m == p.services[s].methods[r][n] IN
        /\ m.template \in Seq({m.template[i] : i \in DOMAIN m.template})
        /\ m.opRef = "nil" => m.template = <<>>

ASSUME TemplatesAssumption == Templated

\* The values that templates are tried with are spelled by none of them.
ASSUME SamplesAssumption == {"v", "w"} \cap Literals = {}

VARIABLES provider, request,
          phase,      \* "begin", "walk", "expand", "methods", "report" or "done"
          queue,      \* services that are still to be analysed
          service,    \* the one that is
          pending,    \* resource keys of its register still to be looked at
          resources,  \* resource |-> the key of the fragment it was taken from
          fragments,  \* resource |-> the key of the fragment kept for it
          left,       \* methods <<resource, name>> still to be analysed
          analysed,   \* a sequence of [service, resource, method, fragment]
          errors,     \* [service, resource, method, bin, what]
          dropped,    \* errors of a service expanded for one of its methods
          findings,   \* [service, resource, method, finding]
          exit,       \* the exit code, -1 before
          summary,    \* [printed, errors]: the summary and the errors it lists
          files       \* the methods mock files were written for

analysisVars == <<provider, request, phase, queue, service, pending, resources, fragments,
          left, analysed, errors, dropped, findings, exit, summary, files>>

NoName == "none"
Whole == request.level \in {"provider", "service"}
Svc == provider.services[service]
Methods(r) == Svc.methods[r]
Err(s, r, m, bin, what) == [service |-> s, resource |-> r, method |-> m, bin |-> bin, what |-> what]

AnalysisInit ==
    /\ provider \in Providers /\ request \in Requests
    /\ phase = "begin" /\ queue = {} /\ service = NoName /\ pending = {}
    /\ resources = <<>> /\ fragments = <<>> /\ left = {} /\ analysed = <<>>
    /\ errors = {} /\ dropped = {} /\ findings = {} /\ files = {}
    /\ exit = -1 /\ summary = [printed |-> FALSE, errors |-> {}]

\* The analysis is over with this result of Analyze; errors and findings so
\* far are what the analyzer hands out.
Over(code) == phase' = "report" /\ exit' = code

(***************************************************************************)
(* The start: the document is read and, of a whole provider, checked       *)
(* against its schema.  Below the provider, the factory reads the document *)
(* and a failure ends the command with nothing printed.                    *)
(***************************************************************************)
Begin ==
    /\ phase = "begin"
    /\ IF ~provider.loads \/ (request.level # "provider" /\ request.service \notin DOMAIN provider.services)
       THEN /\ exit' = 1
            /\ phase' = IF request.level = "provider" THEN "report" ELSE "done"
            /\ UNCHANGED <<queue, errors>>
       ELSE IF provider.protocol = "invalid" /\ Whole
       THEN Over(1) /\ UNCHANGED <<queue, errors>>
       ELSE /\ phase' = "walk"
            /\ queue' = IF request.level = "provider" THEN DOMAIN provider.services ELSE {request.service}
            /\ errors' = IF request.level = "provider" /\ ~provider.valid
                         THEN {Err(NoName, NoName, NoName, "", "docval")} ELSE {}
            /\ UNCHANGED exit
    /\ UNCHANGED <<provider, request, service, pending, resources, fragments, left,
                   analysed, dropped, findings, summary, files>>

(***************************************************************************)
(* standardProviderServiceResourceAnalyzer.Analyze.  GetErrors of a        *)
(* provider, a service or a resource includes its errors; that of a method *)
(* leaves them behind.                                                     *)
(***************************************************************************)
Record(es) == IF request.level # "method" THEN errors' = errors \cup es /\ UNCHANGED dropped
              ELSE dropped' = dropped \cup es /\ UNCHANGED errors

OpenService(s) ==
    /\ phase = "walk" /\ s \in queue
    /\ service' = s /\ queue' = queue \ {s}
    /\ LET svc == provider.services[s]
       IN  IF ~svc.readable
           THEN /\ Record({Err(s, NoName, NoName, "", "unreadable")})
                /\ IF Whole THEN UNCHANGED <<phase, exit>> ELSE Over(1)
                /\ UNCHANGED <<pending, resources, fragments>>
           ELSE /\ pending' = IF svc.register THEN DOMAIN svc.methods ELSE {}
                /\ resources' = IF svc.register THEN <<>> ELSE [r \in DOMAIN svc.methods |-> s]
                /\ fragments' = resources'
                /\ phase' = "expand"
                /\ UNCHANGED <<errors, dropped, exit>>
    /\ UNCHANGED <<provider, request, left, analysed, findings, summary, files>>

\* Mutant: a resource whose fragment fails ends the expansion.
PendingAfterFailureNone(r) == {}

PendingAfterFailure(r) == pending \ {r}

\* Every resource that a fragment holds is kept with it.
KeptFragments(r) ==
    [q \in DOMAIN fragments \cup Svc.fragment[r] |-> IF q \in Svc.fragment[r] THEN r ELSE fragments[q]]

LoadFragment(r) ==
    /\ phase = "expand" /\ r \in pending
    /\ IF r \in DOMAIN resources
       THEN /\ pending' = pending \ {r}
            /\ UNCHANGED <<resources, fragments, errors, dropped>>
       ELSE IF Svc.fragment[r] = {}
       THEN /\ pending' = PendingAfterFailure(r)
            /\ Record({Err(service, r, NoName, "", "fragment")})
            /\ UNCHANGED <<resources, fragments>>
       ELSE /\ pending' = pending \ {r}
            /\ resources' = [q \in DOMAIN resources \cup Svc.fragment[r] |->
                                IF q \in Svc.fragment[r] THEN r ELSE resources[q]]
            /\ fragments' = KeptFragments(r)
            /\ UNCHANGED <<errors, dropped>>
    /\ UNCHANGED <<provider, request, phase, queue, service, left, analysed, findings, exit, summary, files>>

(***************************************************************************)
(* After the expansion: every method of a whole service; of one resource,  *)
(* its methods, once its own fragment can be had and all of them can be    *)
(* formulated; or one method.                                              *)
(***************************************************************************)
Selected ==
    CASE Whole -> {<<r, n>> : r \in DOMAIN resources, n \in UNION {DOMAIN Methods(q) : q \in DOMAIN resources}}
      [] request.level = "resource" -> {<<request.resource, n>> : n \in DOMAIN Methods(request.resource)}
      [] OTHER -> {<<request.resource, request.method>>}

\* Why the analysis of one resource or one method ends here.
Refused ==
    LET r == request.resource
    IN  \/ r \notin DOMAIN resources
        \/ Svc.register /\ Svc.fragment[r] = {}
        \/ request.level = "method" /\ request.method \notin DOMAIN Methods(r)
        \/ request.level = "resource" /\ \E n \in DOMAIN Methods(r) : ~Methods(r)[n].formulates
        \/ provider.protocol = "invalid"

FinishExpansion ==
    /\ phase = "expand" /\ pending = {}
    /\ IF Whole /\ resources = <<>>
       THEN /\ phase' = "walk"
            /\ errors' = errors \cup {Err(service, NoName, NoName, "", "no resources")}
            /\ UNCHANGED <<left, exit>>
       ELSE IF ~Whole /\ Refused
       THEN Over(1) /\ UNCHANGED <<left, errors>>
       ELSE /\ phase' = "methods"
            /\ left' = {p \in Selected : p[2] \in DOMAIN Methods(p[1])}
            /\ UNCHANGED <<errors, exit>>
    /\ UNCHANGED <<provider, request, queue, service, pending, resources, fragments,
                   analysed, dropped, findings, summary, files>>

AnalyzeOne(r, n) ==
    /\ phase = "methods" /\ <<r, n>> \in left
    /\ left' = left \ {<<r, n>>}
    /\ analysed' = Append(analysed, [service |-> service, resource |-> r, method |-> n, fragment |-> fragments[r]])
    /\ LET report == analyzeMethod(Methods(r)[n], provider.protocol)
       IN  /\ errors' = errors \cup {Err(service, r, n, e.bin, e.what) : e \in report.errors}
           /\ findings' = findings \cup {[service |-> service, resource |-> r, method |-> n, finding |-> f] :
                                           f \in report.findings}
    /\ UNCHANGED <<provider, request, phase, queue, service, pending, resources, fragments,
                   dropped, exit, summary, files>>

checkSQLVerbCoverage(r) ==
    When(\A n \in DOMAIN Methods(r) : Methods(r)[n].verb # "select", NewWarning("sql-verb-coverage", "no SELECT"))

\* A _list_only resource without the resource it is named for.
checkCrossResourceConsistency(r) ==
    When(r \in DOMAIN Svc.parent /\ Svc.parent[r] \notin DOMAIN resources,
         NewWarning("cross-resource-inconsistent", "no parent"))

\* Mutant: a service's own verdict stands for its errors.
CodeOfLast == IF \E e \in errors : e.service = service THEN 1 ELSE 0

\* Of a whole provider or service: 1 when there is any error.
Code == IF errors # {} THEN 1 ELSE 0

FinishMethods ==
    /\ phase = "methods" /\ left = {}
    /\ phase' = "walk"
    /\ findings' = findings \cup
         IF ~Whole THEN {}
         ELSE UNION {{[service |-> service, resource |-> r, method |-> NoName, finding |-> f] :
                        f \in checkSQLVerbCoverage(r) \cup checkCrossResourceConsistency(r)} :
                       r \in DOMAIN resources}
    /\ UNCHANGED <<provider, request, queue, service, pending, resources, fragments, left,
                   analysed, errors, dropped, exit, summary, files>>

\* The analysis of one resource or one method succeeds whatever it found.
FinishWalk ==
    /\ phase = "walk" /\ queue = {}
    /\ Over(IF Whole THEN Code ELSE 0)
    /\ UNCHANGED <<provider, request, queue, service, pending, resources, fragments, left,
                   analysed, errors, dropped, findings, summary, files>>

(***************************************************************************)
(* The report: findings on standard error, the summary on standard output, *)
(* the mock files.                                                         *)
(***************************************************************************)
\* Mutant: errors are listed only when nothing was found.
SummaryErrorsWithoutFindings == IF findings = {} THEN {e \in errors : e.bin = ""} ELSE {}

\* FormatSummaryJSON lists the errors that have no bin.
SummaryErrors == {e \in errors : e.bin = ""}

WriteMockFiles ==
    {<<f.service, f.resource, f.method>> : f \in {g \in findings : g.finding.sample.pre # Absent}}

Report ==
    /\ phase = "report"
    /\ phase' = "done"
    /\ summary' = [printed |-> TRUE, errors |-> SummaryErrors]
    /\ files' = WriteMockFiles
    /\ UNCHANGED <<provider, request, queue, service, pending, resources, fragments, left,
                   analysed, errors, dropped, findings, exit>>

AnalysisDone == phase = "done" /\ UNCHANGED analysisVars

AnalysisNext ==
    \/ Begin \/ FinishExpansion \/ FinishMethods \/ FinishWalk \/ Report \/ AnalysisDone
    \/ \E s \in queue : OpenService(s)
    \/ \E r \in pending : LoadFragment(r)
    \/ \E p \in left : AnalyzeOne(p[1], p[2])

AnalysisSpec == AnalysisInit /\ [][AnalysisNext]_analysisVars

(***************************************************************************)
(* Properties.                                                             *)
(***************************************************************************)
InScope == IF request.level = "provider" THEN DOMAIN provider.services
           ELSE {request.service} \cap DOMAIN provider.services

\* The walk was made, from a document that could be read.
Walked == phase = "done" /\ Whole /\ provider.loads /\ provider.protocol # "invalid"

\* Whatever else fails, and in whatever order Go's maps are iterated, every
\* method of every resource whose fragment can be had is analysed exactly
\* once, against a fragment that holds its resource (the `continue`s of
\* standardProviderServiceResourceAnalyzer and serviceLevelStaticAnalyzer).
EveryMethodOnce ==
    Walked =>
    \A s \in {t \in InScope : provider.services[t].readable} :
    \A r \in DOMAIN provider.services[s].methods :
    LET svc == provider.services[s]
        runs(n) == {i \in DOMAIN analysed : /\ analysed[i].service = s
                                            /\ analysed[i].resource = r /\ analysed[i].method = n}
    IN  \/ svc.register /\ svc.fragment[r] = {}
        \/ \A n \in DOMAIN svc.methods[r] :
              \E i \in DOMAIN analysed :
                 runs(n) = {i} /\ (svc.register => r \in svc.fragment[analysed[i].fragment])

\* The exit code of aot over a provider or a service is that of everything
\* it met: 0 only when all services could be read, all of their resources
\* were analysed and no method has an error; 1 only when something could not
\* be read or some method has one.  The provider's analysis discards the
\* result of every service's, and goes by the errors left behind.
ExitTellsErrors ==
    Walked /\ InScope # {} =>
    LET svcs     == {provider.services[s] : s \in InScope}
        methods  == UNION {UNION {{svc.methods[r][n] : n \in DOMAIN svc.methods[r]} : r \in DOMAIN svc.methods} : svc \in svcs}
        failing  == {m \in methods : analyzeMethod(m, provider.protocol).errors # {}}
        invalid  == request.level = "provider" /\ ~provider.valid
        partial  == \E svc \in svcs : svc.register /\ \E r \in DOMAIN svc.methods : svc.fragment[r] = {}
        reached  == {<<analysed[i].service, analysed[i].resource>> : i \in DOMAIN analysed}
    IN  /\ exit = 0 => /\ ~invalid /\ failing = {}
                       /\ \A s \in InScope : \A r \in DOMAIN provider.services[s].methods :
                             DOMAIN provider.services[s].methods[r] # {} => <<s, r>> \in reached
        /\ exit = 1 => \/ invalid \/ failing # {} \/ partial
                       \/ \E svc \in svcs : ~svc.readable \/ DOMAIN svc.methods = {}

\* Every error that aot meets is printed: one with a bin as a finding of its
\* method, one without in the summary's list (the errors themselves are logged
\* only when there is no finding at all).  The one exception is the analysis of
\* a single method, which keeps back what it met while it expanded the service;
\* then, if that is about the method's own resource or the whole service, the
\* exit code is 1, and else the error is of a resource that was not asked for.
NoErrorIsSilent ==
    summary.printed =>
    \A e \in errors \cup dropped :
        \/ e \in summary.errors
        \/ \E f \in findings : /\ f.service = e.service /\ f.resource = e.resource /\ f.method = e.method
                              /\ f.finding.bin = e.bin /\ f.finding.level = "error"
        \/ /\ request.level = "method" /\ e.method = NoName
           /\ e.what = "unreadable" \/ e.resource = request.resource => exit = 1

\* The warning about adjacent path parameters is given exactly for the
\* templates of which the request router refuses some URL that is filled
\* in with values containing slashes.
AdjacencyWarningIsExact ==
    \A i \in DOMAIN analysed :
        LET a == analysed[i]
            t == provider.services[a.service].methods[a.resource][a.method].template
            params == {t[k] : k \in {j \in DOMAIN t : IsPlaceholder(t[j])}}
            refused == \E values \in [params -> {<<"v">>, <<"v", "w">>}] : ~Matches(t, Fill(t, values))
        IN  refused <=> \E f \in findings : /\ f.service = a.service /\ f.resource = a.resource
                                           /\ f.method = a.method /\ f.finding.bin = "path-param-adjacent"

=============================================================================
