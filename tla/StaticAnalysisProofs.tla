------------------------ MODULE StaticAnalysisProofs ------------------------
(***************************************************************************)
(* Proofs about the ahead-of-time analysis (StaticAnalysis), for every     *)
(* provider, every request and every order in which services, fragments    *)
(* and methods are met.  What the analysis of one method reads from its    *)
(* schemas is left open.  Then about the address space of a method         *)
(* (AddressSpace) and the tree it is kept in (RadixTree), for all addresses*)
(* and values.                                                             *)
(***************************************************************************)
EXTENDS StaticAnalysis, AddressSpace, FiniteSetTheorems, WellFoundedInduction, TLAPS

(* An error of a report that has a bin is one of its findings too.         *)
Told(report) ==
    \A e \in report.errors :
        e.bin = "" \/ \E f \in report.findings : f.bin = e.bin /\ f.level = "error"

LEMMA RecordedTold == ASSUME NEW fs PROVE Told(Recorded(fs))
<1> DEFINE r == Recorded(fs)
<1>1. r.findings = fs /\ r.errors = {[bin |-> f.bin, what |-> f.what] : f \in {g \in fs : g.level = "error"}}
  BY DEF Recorded
<1>2. ASSUME NEW e \in r.errors PROVE \E f \in fs : f.bin = e.bin /\ f.level = "error"
  <2>1. PICK f \in fs : f.level = "error" /\ e = [bin |-> f.bin, what |-> f.what]
    BY <1>1
  <2>2. e.bin = f.bin
    BY <2>1
  <2> QED BY <2>1, <2>2
<1> QED BY <1>1, <1>2 DEF Told

LEMMA OnlyFindingsTold == ASSUME NEW fs PROVE Told(OnlyFindings(fs))
  BY DEF Told, OnlyFindings

LEMMA OnlyErrorsTold == ASSUME NEW whats PROVE Told(OnlyErrors(whats))
<1>1. OnlyErrors(whats).errors = {Untagged(w) : w \in whats}
  BY DEF OnlyErrors
<1>2. \A w : Untagged(w).bin = ""
  BY DEF Untagged
<1> QED BY <1>1, <1>2 DEF Told

LEMMA JoinTold == ASSUME NEW a, NEW b, Told(a), Told(b) PROVE Told(Join(a, b))
  BY DEF Told, Join

LEMMA WithMockTold == ASSUME NEW m, NEW a, Told(a) PROVE Told(WithMock(m, a))
<1>1. WithMock(m, a) = a \/ \E fs : WithMock(m, a) = Join(a, OnlyFindings(fs))
  BY DEF WithMock
<1> QED BY <1>1, OnlyFindingsTold, JoinTold

(* The analysis of a method keeps to that on every one of its ways.        *)
LEMMA MethodTold ==
    ASSUME NEW m, NEW protocol
    PROVE  Told(analyzeMethod(m, protocol))
<1> DEFINE report == Join(Prepared(m, protocol), OnlyFindings(MethodChecks(m)))
<1>1. Told(report)
  BY OnlyErrorsTold, OnlyFindingsTold, JoinTold DEF Prepared
<1>2. ASSUME NEW s PROVE Told(analyzeResponseTransform(m, s))
  BY RecordedTold, OnlyFindingsTold, JoinTold DEF analyzeResponseTransform
<1>3. ASSUME NEW s PROVE Told(analyzeObjectKeyRoutability(m, s))
  BY RecordedTold DEF analyzeObjectKeyRoutability
<1>4. Told(analyzeResponseAndObjectKey(m))
  BY <1>2, <1>3, RecordedTold, OnlyFindingsTold, JoinTold DEF analyzeResponseAndObjectKey
<1>5. ASSUME NEW r, Told(r) PROVE Told(AnalyzeHTTP(m, r))
  <2>1. Told(Join(r, MissingSemantics(m)))
    BY <1>5, OnlyFindingsTold, JoinTold DEF MissingSemantics
  <2>2. /\ Told(Join(Join(r, MissingSemantics(m)), OnlyErrors(SelectionErrors(m))))
        /\ Told(WithMock(m, Join(Join(r, MissingSemantics(m)), analyzeResponseAndObjectKey(m))))
    BY <1>4, <2>1, OnlyErrorsTold, JoinTold, WithMockTold
  <2> QED BY <1>5, <2>2 DEF AnalyzeHTTP
<1>6. Told(WithMock(m, Join(report, OnlyErrors(IF m.inline THEN {} ELSE {"no inline"}))))
  BY <1>1, OnlyErrorsTold, JoinTold, WithMockTold
<1> HIDE DEF report
<1>7. analyzeMethod(m, protocol) =
        IF protocol = "http" THEN AnalyzeHTTP(m, report)
        ELSE WithMock(m, Join(report, OnlyErrors(IF m.inline THEN {} ELSE {"no inline"})))
  BY DEF analyzeMethod, report
<1> QED BY <1>1, <1>5, <1>6, <1>7

-----------------------------------------------------------------------------
(* Every error has no bin, or a finding of its method at level error; what *)
(* was printed is what there is.                                           *)
Accounted(e, fs) ==
    \/ e.bin = ""
    \/ \E f \in fs : /\ f.service = e.service /\ f.resource = e.resource /\ f.method = e.method
                    /\ f.finding.bin = e.bin /\ f.finding.level = "error"

SilentInv ==
    /\ \A e \in errors : Accounted(e, findings)
    /\ summary.printed => phase = "done" /\ summary.errors = SummaryErrors

LEMMA UntaggedErr == ASSUME NEW s, NEW r, NEW m, NEW what PROVE Err(s, r, m, "", what).bin = ""
  BY DEF Err

LEMMA SilentInductive == SilentInv /\ [AnalysisNext]_analysisVars => SilentInv'
<1> SUFFICES ASSUME SilentInv, [AnalysisNext]_analysisVars PROVE SilentInv'
  OBVIOUS
<1> DEFINE OneMore == \E s, r, m, what : errors' \subseteq errors \cup {Err(s, r, m, "", what)}
<1>a. ASSUME OneMore, findings \subseteq findings', phase # "done", summary' = summary PROVE SilentInv'
  <2>1. PICK s, r, m, what : errors' \subseteq errors \cup {Err(s, r, m, "", what)}
    BY <1>a
  <2>2. \A e \in errors' : Accounted(e, findings')
    <3>1. \A e \in {Err(s, r, m, "", what)} : e.bin = ""
      BY UntaggedErr
    <3> QED BY <1>a, <2>1, <3>1 DEF SilentInv, Accounted
  <2>3. ~summary.printed
    BY <1>a DEF SilentInv
  <2> QED BY <1>a, <2>2, <2>3 DEF SilentInv
<1>1. CASE Begin
  <2>1. OneMore /\ findings' = findings /\ phase # "done" /\ summary' = summary
    BY <1>1 DEF Begin, Over
  <2> QED BY <2>1, <1>a
<1>2. CASE FinishExpansion
  <2>1. OneMore /\ findings' = findings /\ phase # "done" /\ summary' = summary
    BY <1>2 DEF FinishExpansion, Over
  <2> QED BY <2>1, <1>a
<1>3. CASE FinishMethods
  <2>1. errors' = errors /\ findings \subseteq findings' /\ phase # "done" /\ summary' = summary
    BY <1>3 DEF FinishMethods
  <2> QED BY <2>1, <1>a
<1>4. CASE FinishWalk
  <2>1. errors' = errors /\ findings' = findings /\ phase # "done" /\ summary' = summary
    BY <1>4 DEF FinishWalk
  <2> QED BY <2>1, <1>a
<1>5. CASE Report
  <2>1. /\ errors' = errors /\ findings' = findings /\ phase' = "done"
        /\ summary' = [printed |-> TRUE, errors |-> SummaryErrors]
    BY <1>5 DEF Report
  <2>2. SummaryErrors' = SummaryErrors /\ summary'.errors = SummaryErrors
    BY <2>1 DEF SummaryErrors
  <2>3. \A e \in errors' : Accounted(e, findings')
    BY <2>1 DEF SilentInv, Accounted
  <2> QED BY <2>1, <2>2, <2>3 DEF SilentInv
<1>6. CASE AnalysisDone \/ UNCHANGED analysisVars
  <2>1. errors' = errors /\ findings' = findings /\ phase' = phase /\ summary' = summary
    BY <1>6 DEF AnalysisDone, analysisVars
  <2> QED BY <2>1 DEF SilentInv, Accounted, SummaryErrors
<1>7. ASSUME NEW s \in queue, OpenService(s) PROVE SilentInv'
  <2>1. OneMore /\ findings' = findings /\ phase # "done" /\ summary' = summary
    BY <1>7 DEF OpenService, Record, Over
  <2> QED BY <2>1, <1>a
<1>8. ASSUME NEW r \in pending, LoadFragment(r) PROVE SilentInv'
  <2>1. OneMore /\ findings' = findings /\ phase # "done" /\ summary' = summary
    BY <1>8 DEF LoadFragment, Record
  <2> QED BY <2>1, <1>a
<1>9. ASSUME NEW p \in left, AnalyzeOne(p[1], p[2]) PROVE SilentInv'
  <2> DEFINE report == analyzeMethod(Methods(p[1])[p[2]], provider.protocol)
             new(e) == Err(service, p[1], p[2], e.bin, e.what)
             found(f) == [service |-> service, resource |-> p[1], method |-> p[2], finding |-> f]
  <2>1. /\ errors' = errors \cup {new(e) : e \in report.errors}
        /\ findings' = findings \cup {found(f) : f \in report.findings}
        /\ phase = "methods" /\ summary' = summary
    BY <1>9 DEF AnalyzeOne
  <2>2. Told(report)
    BY MethodTold
  <2> HIDE DEF report
  <2>3. ASSUME NEW e \in report.errors PROVE Accounted(new(e), findings')
    <3>1. /\ new(e).service = service /\ new(e).resource = p[1] /\ new(e).method = p[2] /\ new(e).bin = e.bin
      BY DEF Err
    <3>2. CASE e.bin = ""
      BY <3>1, <3>2 DEF Accounted
    <3>3. CASE e.bin # ""
      <4>1. PICK f \in report.findings : f.bin = e.bin /\ f.level = "error"
        BY <2>2, <3>3 DEF Told
      <4>2. /\ found(f).service = service /\ found(f).resource = p[1] /\ found(f).method = p[2]
            /\ found(f).finding = f
        OBVIOUS
      <4>3. found(f) \in findings'
        BY <2>1
      <4> HIDE DEF found, new
      <4> QED BY <3>1, <4>1, <4>2, <4>3 DEF Accounted
    <3> QED BY <3>2, <3>3
  <2>4. \A e \in errors : Accounted(e, findings')
    BY <2>1 DEF SilentInv, Accounted
  <2>5. \A e \in errors' : Accounted(e, findings')
    <3> HIDE DEF new, found
    <3> QED BY <2>1, <2>3, <2>4
  <2> QED BY <2>1, <2>5 DEF SilentInv
<1> QED BY <1>1, <1>2, <1>3, <1>4, <1>5, <1>6, <1>7, <1>8, <1>9 DEF AnalysisNext

(* Only the analysis of one method keeps an error back, of the expansion;  *)
(* one about its own resource or the whole service decides the exit code,  *)
(* at once or when the expansion is over.                                  *)
OwnError(e) == e.what = "unreadable" \/ e.resource = request.resource

KeptBack(e) ==
    /\ request.level = "method" /\ e.method = NoName
    /\ OwnError(e) => \/ exit = 1
                      \/ phase = "expand" /\ Svc.register /\ Svc.fragment[request.resource] = {}

BehindInv ==
    /\ \A e \in dropped : KeptBack(e)
    /\ phase \in {"begin", "walk", "expand", "methods"} => exit = -1
    /\ phase = "expand" /\ pending # {} => Svc.register
    /\ summary.printed => phase = "done"

LEMMA BehindInductive == BehindInv /\ [AnalysisNext]_analysisVars => BehindInv'
<1> SUFFICES ASSUME BehindInv, [AnalysisNext]_analysisVars PROVE BehindInv'
  OBVIOUS
<1> USE DEF BehindInv, KeptBack, OwnError
<1>0. "method" \notin {"provider", "service"} /\ -1 # 1
  OBVIOUS
<1>1. CASE Begin
  BY <1>1 DEF Begin, Over
<1>2. CASE FinishExpansion
  <2>1. /\ phase = "expand" /\ pending = {} /\ pending' = pending /\ dropped' = dropped /\ request' = request
        /\ summary' = summary /\ phase' \in {"walk", "report", "methods"}
    BY <1>2 DEF FinishExpansion, Over
  <2>2. CASE exit' = 1
    <3>1. phase' \notin {"begin", "walk", "expand", "methods"}
      BY <1>2, <2>1, <2>2 DEF FinishExpansion, Over
    <3> QED BY <2>1, <2>2, <3>1
  <2>3. CASE exit' # 1
    <3>1. exit' = exit
      BY <1>2, <2>3 DEF FinishExpansion, Over
    <3>2. request.level = "method" => ~Refused
      BY <1>2, <2>3 DEF FinishExpansion, Over, Whole
    <3>3. request.level = "method" => ~(Svc.register /\ Svc.fragment[request.resource] = {})
      BY <3>2 DEF Refused
    <3>4. exit = -1
      BY <2>1
    <3>5. \A e \in dropped : request.level = "method" /\ e.method = NoName /\ ~OwnError(e)
      BY <3>3, <3>4
    <3> QED BY <2>1, <3>1, <3>4, <3>5
  <2> QED BY <2>2, <2>3
<1>3. CASE FinishMethods
  BY <1>3 DEF FinishMethods
<1>4. CASE FinishWalk
  BY <1>4 DEF FinishWalk, Over
<1>5. CASE Report
  BY <1>5 DEF Report
<1>6. CASE AnalysisDone \/ UNCHANGED analysisVars
  BY <1>6 DEF AnalysisDone, analysisVars, Svc
<1>7. ASSUME NEW s \in queue, OpenService(s) PROVE BehindInv'
  <2>1. /\ phase = "walk" /\ exit = -1 /\ request' = request /\ provider' = provider /\ service' = s
        /\ summary' = summary /\ ~summary.printed
    BY <1>7 DEF OpenService
  <2>2. \A e \in dropped : request.level = "method" /\ e.method = NoName /\ ~OwnError(e)
    BY <2>1
  <2>3. CASE ~provider.services[s].readable
    <3> DEFINE new == Err(s, NoName, NoName, "", "unreadable")
    <3>1. IF request.level # "method" THEN dropped' = dropped ELSE dropped' = dropped \cup {new}
      BY <1>7, <2>3 DEF OpenService, Record
    <3>2. IF Whole THEN phase' = phase /\ exit' = exit ELSE phase' = "report" /\ exit' = 1
      BY <1>7, <2>3 DEF OpenService, Over
    <3>3. request.level = "method" => ~Whole
      BY DEF Whole
    <3>4. new.method = NoName
      BY DEF Err
    <3> HIDE DEF new
    <3> QED BY <2>1, <2>2, <3>1, <3>2, <3>3, <3>4
  <2>4. CASE provider.services[s].readable
    <3>1. /\ dropped' = dropped /\ exit' = exit /\ phase' = "expand"
          /\ pending' = IF provider.services[s].register THEN DOMAIN provider.services[s].methods ELSE {}
      BY <1>7, <2>4 DEF OpenService
    <3>2. Svc' = provider.services[s]
      BY <2>1 DEF Svc
    <3> QED BY <2>1, <2>2, <3>1, <3>2
  <2> QED BY <2>3, <2>4
<1>8. ASSUME NEW r \in pending, LoadFragment(r) PROVE BehindInv'
  <2>1. /\ phase = "expand" /\ phase' = phase /\ exit = -1 /\ exit' = exit /\ request' = request
        /\ Svc' = Svc /\ Svc.register /\ summary' = summary
    BY <1>8 DEF LoadFragment, Svc
  <2> DEFINE new == Err(service, r, NoName, "", "fragment")
  <2>2. \/ dropped' = dropped
        \/ request.level = "method" /\ dropped' = dropped \cup {new} /\ Svc.fragment[r] = {}
    BY <1>8 DEF LoadFragment, Record
  <2>3. new.method = NoName /\ new.resource = r /\ new.what # "unreadable"
    BY DEF Err
  <2> HIDE DEF new
  <2>4. ASSUME NEW e \in dropped' PROVE KeptBack(e)'
    <3>1. CASE e \in dropped
      BY <2>1, <3>1
    <3>2. CASE e \notin dropped
      <4>1. request.level = "method" /\ e = new /\ Svc.fragment[r] = {}
        BY <2>2, <3>2
      <4> QED BY <2>1, <2>3, <4>1
    <3> QED BY <3>1, <3>2
  <2>5. ~summary.printed
    BY <2>1
  <2> QED BY <2>1, <2>4, <2>5
<1>9. ASSUME NEW p \in left, AnalyzeOne(p[1], p[2]) PROVE BehindInv'
  BY <1>9 DEF AnalyzeOne
<1> QED BY <1>1, <1>2, <1>3, <1>4, <1>5, <1>6, <1>7, <1>8, <1>9 DEF AnalysisNext

(* Every error that aot meets is printed, in the summary's list or as a    *)
(* finding of its method (FormatSummaryJSON against analyzeMethod); what   *)
(* the analysis of one method keeps back makes the exit code 1, unless it  *)
(* is about a resource that was not asked for.                             *)
THEOREM NotSilent == AnalysisSpec => []NoErrorIsSilent
<1>1. AnalysisInit => SilentInv /\ BehindInv
  BY DEF AnalysisInit, SilentInv, BehindInv
<1>2. SilentInv /\ BehindInv => NoErrorIsSilent
  BY DEF SilentInv, BehindInv, KeptBack, OwnError, Accounted, NoErrorIsSilent, SummaryErrors
<1> QED BY <1>1, <1>2, SilentInductive, BehindInductive, PTL DEF AnalysisSpec

-----------------------------------------------------------------------------
(* The walk over a whole provider or a whole service.                      *)
IsList(s) == s \in Seq({s[i] : i \in DOMAIN s})

Walkable ==
    /\ Whole /\ provider.loads /\ provider.protocol # "invalid"
    /\ request.level = "provider" \/ request.service \in DOMAIN provider.services

At(s) == provider.services[s]
MethodOf(e) == At(e.service).methods[e.resource][e.method]
SameMethod(e, f) == e.service = f.service /\ e.resource = f.resource /\ e.method = f.method

(* A method has been analysed; a resource was given up, and not silently.  *)
Entered(s, r, n) ==
    \E i \in DOMAIN analysed : analysed[i].service = s /\ analysed[i].resource = r /\ analysed[i].method = n
Lost(s, r) == At(s).register /\ At(s).fragment[r] = {} /\ errors # {}

Covered(s) ==
    IF At(s).readable
    THEN \A r \in DOMAIN At(s).methods : \A n \in DOMAIN At(s).methods[r] : Entered(s, r, n) \/ Lost(s, r)
    ELSE errors # {}

Inside == phase \in {"expand", "methods"}

(* Which services are behind, which is being walked and which are ahead.   *)
Position ==
    /\ phase \in {"begin", "walk", "expand", "methods", "report", "done"}
    /\ phase = "begin" => errors = {} /\ analysed = <<>>
    /\ queue \subseteq InScope
    /\ Inside => service \in InScope \ queue /\ Svc.readable
    /\ phase \in {"report", "done"} => queue = {} /\ exit = Code
    /\ phase # "begin" /\ request.level = "provider" /\ ~provider.valid => errors # {}
    /\ phase # "begin" => \A s \in InScope \ queue : ~(Inside /\ s = service) => Covered(s)

(* What the expansion of a service has found so far.                       *)
Expansion ==
    Inside =>
    /\ DOMAIN fragments = DOMAIN resources /\ DOMAIN resources \subseteq DOMAIN Svc.methods
    /\ pending \subseteq DOMAIN Svc.methods /\ (pending # {} => Svc.register)
    /\ Svc.register => \A q \in DOMAIN fragments : q \in Svc.fragment[fragments[q]]
    /\ \A r \in DOMAIN Svc.methods : r \in DOMAIN resources \/ r \in pending \/ Lost(service, r)

(* Of the methods of a service, the ones to do and the ones done.          *)
Methodical ==
    phase = "methods" =>
    /\ pending = {}
    /\ \A p \in left : p[1] \in DOMAIN resources /\ p[2] \in DOMAIN Methods(p[1])
    /\ \A r \in DOMAIN resources : \A n \in DOMAIN Methods(r) : <<r, n>> \in left \/ Entered(service, r, n)

(* Every entry is of a service behind or the one walked, of its own        *)
(* fragment, and no other is of the same method.                           *)
Entry(e) ==
    /\ e.service \in InScope \ queue
    /\ phase = "expand" => e.service # service
    /\ phase = "methods" /\ e.service = service => <<e.resource, e.method>> \notin left
    /\ e.resource \in DOMAIN At(e.service).methods /\ e.method \in DOMAIN At(e.service).methods[e.resource]
    /\ At(e.service).register => e.resource \in At(e.service).fragment[e.fragment]
    /\ analyzeMethod(MethodOf(e), provider.protocol).errors # {} => errors # {}

Entries ==
    /\ IsList(analysed)
    /\ \A i \in DOMAIN analysed : Entry(analysed[i])
    /\ \A i, j \in DOMAIN analysed : SameMethod(analysed[i], analysed[j]) => i = j

(* Every error has a cause in the documents.                               *)
Cause ==
    \/ request.level = "provider" /\ ~provider.valid
    \/ \E s \in InScope :
          \/ ~At(s).readable \/ DOMAIN At(s).methods = {}
          \/ At(s).register /\ \E r \in DOMAIN At(s).methods : At(s).fragment[r] = {}
          \/ \E r \in DOMAIN At(s).methods : \E n \in DOMAIN At(s).methods[r] :
                analyzeMethod(At(s).methods[r][n], provider.protocol).errors # {}

Blame == errors # {} => Cause

WalkInv == provider \in Providers /\ (Walkable => Position /\ Expansion /\ Methodical /\ Entries /\ Blame)

-----------------------------------------------------------------------------
(* A list that grows by one.                                               *)
LEMMA ListAppend ==
    ASSUME NEW s, IsList(s), NEW e
    PROVE  /\ IsList(Append(s, e)) /\ Len(s) \in Nat
           /\ DOMAIN s = 1 .. Len(s) /\ DOMAIN Append(s, e) = 1 .. (Len(s) + 1)
           /\ \A i \in 1 .. Len(s) : Append(s, e)[i] = s[i]
           /\ Append(s, e)[Len(s) + 1] = e
<1> DEFINE S == {s[i] : i \in DOMAIN s} \cup {e}
           t == Append(s, e)
<1>1. s \in Seq(S) /\ e \in S
  BY DEF IsList
<1>2. /\ t \in Seq(S) /\ Len(s) \in Nat
      /\ DOMAIN s = 1 .. Len(s) /\ DOMAIN t = 1 .. (Len(s) + 1)
      /\ \A i \in 1 .. Len(s) : t[i] = s[i]
      /\ t[Len(s) + 1] = e
  BY <1>1
<1> HIDE DEF t
<1>3. S \subseteq {t[i] : i \in DOMAIN t}
  <2>1. ASSUME NEW i \in DOMAIN s PROVE s[i] \in {t[j] : j \in DOMAIN t}
    <3>1. i \in DOMAIN t /\ t[i] = s[i]
      BY <1>2
    <3> QED BY <3>1
  <2>2. Len(s) + 1 \in DOMAIN t
    BY <1>2
  <2> QED BY <1>2, <2>1, <2>2
<1>4. IsList(t)
  BY <1>2, <1>3 DEF IsList
<1> QED BY <1>2, <1>4 DEF t

(* What a step that leaves the documents alone, and only adds errors and   *)
(* entries, leaves true.                                                   *)
LEMMA Steady ==
    ASSUME provider' = provider, request' = request
    PROVE  /\ InScope' = InScope /\ Whole' = Whole /\ Walkable' = Walkable /\ Cause' = Cause
           /\ \A s : At(s)' = At(s)
           /\ \A e : MethodOf(e)' = MethodOf(e)
  BY DEF InScope, Whole, Walkable, Cause, At, MethodOf

LEMMA CoveredStays ==
    ASSUME provider' = provider, errors \subseteq errors',
           \A s, r, n : Entered(s, r, n) => Entered(s, r, n)'
    PROVE  /\ \A s : Covered(s) => Covered(s)'
           /\ \A s, r : Lost(s, r) => Lost(s, r)'
<1>1. \A s : At(s)' = At(s)
  BY DEF At
<1>2. \A s, r : Lost(s, r) => Lost(s, r)'
  BY <1>1 DEF Lost
<1>3. \A s : Covered(s) => Covered(s)'
  BY <1>1, <1>2 DEF Covered
<1> QED BY <1>2, <1>3

LEMMA EntriesStay ==
    ASSUME Entries, provider' = provider, request' = request, analysed' = analysed,
           queue' \subseteq queue, errors \subseteq errors',
           \A i \in DOMAIN analysed :
              /\ phase' = "expand" => analysed[i].service # service'
              /\ phase' = "methods" /\ analysed[i].service = service' =>
                    <<analysed[i].resource, analysed[i].method>> \notin left'
    PROVE  Entries' /\ \A s, r, n : Entered(s, r, n) => Entered(s, r, n)'
<1>1. InScope' = InScope /\ (\A s : At(s)' = At(s)) /\ \A e : MethodOf(e)' = MethodOf(e)
  BY Steady
<1>2. ASSUME NEW i \in DOMAIN analysed PROVE Entry(analysed[i])'
  BY <1>1 DEF Entries, Entry
<1>3. Entries'
  BY <1>2 DEF Entries, IsList, SameMethod
<1> QED BY <1>3 DEF Entered

LEMMA WalkInit == AnalysisInit => WalkInv
<1> SUFFICES ASSUME AnalysisInit PROVE WalkInv
  OBVIOUS
<1>1. phase = "begin" /\ errors = {} /\ queue = {} /\ analysed = <<>> /\ provider \in Providers
  BY DEF AnalysisInit
<1>2. IsList(analysed) /\ DOMAIN analysed = {}
  BY <1>1 DEF IsList
<1> QED BY <1>1, <1>2 DEF WalkInv, Position, Expansion, Methodical, Entries, Blame, Inside

(* From here on, one step of a walkable analysis.                          *)
Walking == /\ provider \in Providers /\ Walkable
           /\ Position /\ Expansion /\ Methodical /\ Entries /\ Blame

LEMMA BeginKeeps == ASSUME Walking, Begin PROVE WalkInv'
<1>1. provider' = provider /\ request' = request /\ analysed' = analysed
  BY DEF Begin
<1>2. InScope' = InScope /\ Walkable' = Walkable /\ Cause' = Cause
  BY <1>1, Steady
<1>3. phase = "begin" /\ errors = {} /\ analysed = <<>> /\ DOMAIN analysed = {}
  <2>1. phase = "begin" BY DEF Begin
  <2>2. errors = {} /\ analysed = <<>>
    BY <2>1 DEF Walking, Position
  <2> QED BY <2>1, <2>2
<1>4. /\ phase' = "walk" /\ queue' = InScope
      /\ errors' = IF request.level = "provider" /\ ~provider.valid
                   THEN {Err(NoName, NoName, NoName, "", "docval")} ELSE {}
  BY DEF Begin, Walking, Walkable, InScope
<1>5. Position'
  BY <1>1, <1>2, <1>4 DEF Position, Inside
<1>6. Entries'
  <2>1. IsList(analysed)
    BY DEF Walking, Entries
  <2> QED BY <1>1, <1>3, <2>1 DEF Entries, IsList
<1>7. Expansion' /\ Methodical'
  BY <1>4 DEF Expansion, Methodical, Inside
<1>8. Blame'
  BY <1>1, <1>4 DEF Blame, Cause
<1> QED BY <1>1, <1>5, <1>6, <1>7, <1>8 DEF WalkInv, Walking

LEMMA OpenKeeps == ASSUME Walking, NEW s \in queue, OpenService(s) PROVE WalkInv'
<1> DEFINE svc == At(s)
<1>1. provider' = provider /\ request' = request /\ analysed' = analysed /\ phase = "walk" /\ Whole
      /\ service' = s /\ queue' = queue \ {s}
  BY DEF OpenService, Walking, Walkable
<1>2. InScope' = InScope /\ Walkable' = Walkable /\ Cause' = Cause /\ Whole' = Whole /\ \A t : At(t)' = At(t)
  BY <1>1, Steady
<1>3. s \in InScope /\ \A i \in DOMAIN analysed : analysed[i].service # s
  BY DEF Walking, Position, Entries, Entry
<1>a. CASE ~svc.readable
  <2>1. phase' = "walk" /\ errors' = errors \cup {Err(s, NoName, NoName, "", "unreadable")}
    BY <1>1, <1>a DEF OpenService, Record, At, Whole
  <2>2. Entries' /\ \A t, r, n : Entered(t, r, n) => Entered(t, r, n)'
    BY <1>1, <2>1, EntriesStay DEF Walking
  <2>3. \A t : Covered(t) => Covered(t)'
    BY <1>1, <2>1, <2>2, CoveredStays
  <2>4. Covered(s)'
    BY <1>2, <1>a, <2>1 DEF Covered
  <2>5. Position'
    <3>1. \A t \in InScope \ queue' : Covered(t)'
      BY <1>1, <2>3, <2>4 DEF Walking, Position, Inside
    <3> QED BY <1>1, <1>2, <2>1, <3>1 DEF Walking, Position, Inside
  <2>6. Expansion' /\ Methodical'
    BY <2>1 DEF Expansion, Methodical, Inside
  <2>7. Blame'
    BY <1>2, <1>3, <1>a DEF Blame, Cause
  <2> QED BY <1>1, <2>2, <2>5, <2>6, <2>7 DEF WalkInv, Walking
<1>b. CASE svc.readable
  <2>1. /\ phase' = "expand" /\ errors' = errors
        /\ pending' = IF svc.register THEN DOMAIN svc.methods ELSE {}
        /\ resources' = IF svc.register THEN <<>> ELSE [r \in DOMAIN svc.methods |-> s]
        /\ fragments' = resources'
    BY <1>1, <1>b DEF OpenService, At
  <2>2. Entries' /\ \A t, r, n : Entered(t, r, n) => Entered(t, r, n)'
    BY <1>1, <1>3, <2>1, EntriesStay DEF Walking
  <2>3. \A t : Covered(t) => Covered(t)'
    BY <1>1, <2>1, <2>2, CoveredStays
  <2>s. Svc' = svc
    BY <1>1 DEF Svc, At
  <2>5. Position'
    <3>1. \A t \in InScope \ queue' : t # s => Covered(t)'
      BY <1>1, <2>3 DEF Walking, Position, Inside
    <3>2. s \in InScope \ queue'
      BY <1>1, <1>3
    <3>3. queue' \subseteq InScope
      BY <1>1 DEF Walking, Position
    <3>4. request'.level = "provider" /\ ~provider'.valid => errors' # {}
      BY <1>1, <2>1 DEF Walking, Position
    <3> QED BY <1>1, <1>2, <1>b, <2>1, <2>s, <3>1, <3>2, <3>3, <3>4 DEF Position, Inside
  <2>6. Expansion' /\ Methodical'
    <3>1. CASE svc.register
      <4>1. DOMAIN resources' = {} /\ fragments' = resources' /\ pending' = DOMAIN svc.methods
        BY <2>1, <3>1
      <4> QED BY <2>1, <2>s, <3>1, <4>1 DEF Expansion, Methodical
    <3>2. CASE ~svc.register
      <4>1. DOMAIN resources' = DOMAIN svc.methods /\ fragments' = resources' /\ pending' = {}
        BY <2>1, <3>2
      <4> QED BY <2>1, <2>s, <3>2, <4>1 DEF Expansion, Methodical
    <3> QED BY <3>1, <3>2
  <2>7. Blame'
    BY <1>2, <2>1 DEF Blame, Walking
  <2> QED BY <1>1, <2>2, <2>5, <2>6, <2>7 DEF WalkInv, Walking
<1> QED BY <1>a, <1>b

LEMMA LoadKeeps == ASSUME Walking, NEW r \in pending, LoadFragment(r) PROVE WalkInv'
<1>1. /\ provider' = provider /\ request' = request /\ analysed' = analysed /\ phase = "expand" /\ Whole
      /\ service' = service /\ queue' = queue /\ phase' = phase /\ exit' = exit
  BY DEF LoadFragment, Walking, Walkable
<1>2. /\ InScope' = InScope /\ Walkable' = Walkable /\ Cause' = Cause /\ \A t : At(t)' = At(t)
      /\ Svc' = Svc /\ Svc = At(service)
  <2>1. Svc' = Svc /\ Svc = At(service)
    BY <1>1 DEF Svc, At
  <2> QED BY <1>1, <2>1, Steady
<1>3. /\ service \in InScope \ queue /\ Svc.readable /\ Svc.register /\ r \in DOMAIN Svc.methods
      /\ DOMAIN fragments = DOMAIN resources /\ DOMAIN resources \subseteq DOMAIN Svc.methods
      /\ pending \subseteq DOMAIN Svc.methods
      /\ \A q \in DOMAIN fragments : q \in Svc.fragment[fragments[q]]
      /\ \A q \in DOMAIN Svc.methods : q \in DOMAIN resources \/ q \in pending \/ Lost(service, q)
  BY <1>1 DEF Walking, Position, Expansion, Inside
<1>w. service \in DOMAIN provider.services
  BY <1>3 DEF InScope
<1>4. pending' = pending \ {r} /\ errors \subseteq errors'
  BY <1>1 DEF LoadFragment, Record, PendingAfterFailure
<1>5. Entries' /\ \A t, q, n : Entered(t, q, n) => Entered(t, q, n)'
  BY <1>1, <1>4, EntriesStay DEF Walking, Entries, Entry
<1>6. /\ \A t : Covered(t) => Covered(t)'
      /\ \A t, q : Lost(t, q) => Lost(t, q)'
  BY <1>1, <1>4, <1>5, CoveredStays
<1>7. Position'
  <2>1. \A t \in InScope \ queue' : t # service => Covered(t)'
    BY <1>1, <1>6 DEF Walking, Position, Inside
  <2>2. queue' \subseteq InScope
    BY <1>1 DEF Walking, Position
  <2>3. request'.level = "provider" /\ ~provider'.valid => errors' # {}
    BY <1>1, <1>4 DEF Walking, Position
  <2> QED BY <1>1, <1>2, <1>3, <2>1, <2>2, <2>3 DEF Position, Inside
<1>8. Methodical'
  BY <1>1 DEF Methodical
<1>9. Expansion' /\ Blame'
  <2>1. CASE r \in DOMAIN resources
    <3>1. resources' = resources /\ fragments' = fragments /\ errors' = errors
      BY <2>1 DEF LoadFragment
    <3>2. Expansion'
      BY <1>1, <1>2, <1>3, <1>4, <1>6, <2>1, <3>1 DEF Expansion
    <3> QED BY <1>2, <3>1, <3>2 DEF Walking, Blame
  <2>2. CASE r \notin DOMAIN resources /\ Svc.fragment[r] = {}
    <3>1. /\ resources' = resources /\ fragments' = fragments
          /\ errors' = errors \cup {Err(service, r, NoName, "", "fragment")}
      BY <1>1, <2>2 DEF LoadFragment, Record, Whole
    <3>2. Lost(service, r)'
      BY <1>1, <1>2, <1>3, <2>2, <3>1 DEF Lost
    <3>3. Expansion'
      BY <1>1, <1>2, <1>3, <1>4, <1>6, <3>1, <3>2 DEF Expansion
    <3>4. Cause
      BY <1>2, <1>3, <2>2 DEF Cause
    <3> QED BY <1>2, <3>3, <3>4 DEF Blame
  <2>3. CASE r \notin DOMAIN resources /\ Svc.fragment[r] # {}
    <3> DEFINE mine == Svc.fragment[r]
    <3>1. /\ resources' = [q \in DOMAIN resources \cup mine |-> IF q \in mine THEN r ELSE resources[q]]
          /\ fragments' = [q \in DOMAIN fragments \cup mine |-> IF q \in mine THEN r ELSE fragments[q]]
          /\ errors' = errors
      BY <2>3 DEF LoadFragment, KeptFragments
    <3>2. r \in mine /\ mine \subseteq DOMAIN Svc.methods
      BY <1>3, <1>w, <2>3, ProvidersAssumption DEF Attached, Walking, Svc
    <3>3. /\ DOMAIN resources' = DOMAIN resources \cup mine /\ DOMAIN fragments' = DOMAIN resources'
          /\ \A q \in DOMAIN fragments' : q \in Svc.fragment[fragments'[q]]
      BY <1>3, <3>1
    <3>4. Expansion'
      BY <1>1, <1>2, <1>3, <1>4, <1>6, <3>2, <3>3 DEF Expansion
    <3> QED BY <1>2, <3>1, <3>4 DEF Walking, Blame
  <2> QED BY <2>1, <2>2, <2>3
<1> QED BY <1>1, <1>5, <1>7, <1>8, <1>9 DEF WalkInv, Walking

LEMMA ExpansionKeeps == ASSUME Walking, FinishExpansion PROVE WalkInv'
<1>1. /\ provider' = provider /\ request' = request /\ analysed' = analysed /\ phase = "expand" /\ Whole
      /\ service' = service /\ queue' = queue /\ pending = {} /\ pending' = pending
      /\ resources' = resources /\ fragments' = fragments
  BY DEF FinishExpansion, Walking, Walkable
<1>2. /\ InScope' = InScope /\ Walkable' = Walkable /\ Cause' = Cause /\ \A t : At(t)' = At(t)
      /\ Svc' = Svc /\ Svc = At(service)
  <2>1. Svc' = Svc /\ Svc = At(service)
    BY <1>1 DEF Svc, At
  <2> QED BY <1>1, <2>1, Steady
<1>3. /\ service \in InScope \ queue /\ Svc.readable
      /\ DOMAIN fragments = DOMAIN resources /\ DOMAIN resources \subseteq DOMAIN Svc.methods
      /\ Svc.register => \A q \in DOMAIN fragments : q \in Svc.fragment[fragments[q]]
      /\ \A q \in DOMAIN Svc.methods : q \in DOMAIN resources \/ Lost(service, q)
  BY <1>1 DEF Walking, Position, Expansion, Inside
<1>n. \A i \in DOMAIN analysed : analysed[i].service # service
  BY <1>1 DEF Walking, Entries, Entry
<1>a. CASE resources = <<>>
  <2>1. phase' = "walk" /\ errors' = errors \cup {Err(service, NoName, NoName, "", "no resources")}
    BY <1>1, <1>a DEF FinishExpansion
  <2>2. Entries' /\ \A t, q, n : Entered(t, q, n) => Entered(t, q, n)'
    BY <1>1, <2>1, EntriesStay DEF Walking
  <2>3. /\ \A t : Covered(t) => Covered(t)'
        /\ \A t, q : Lost(t, q) => Lost(t, q)'
    BY <1>1, <2>1, <2>2, CoveredStays
  <2>4. \A q \in DOMAIN Svc.methods : Lost(service, q)
    BY <1>3, <1>a
  <2>5. Covered(service)'
    BY <1>1, <1>2, <1>3, <2>3, <2>4 DEF Covered
  <2>6. Position'
    <3>1. \A t \in InScope \ queue' : Covered(t)'
      BY <1>1, <2>3, <2>5 DEF Walking, Position, Inside
    <3>2. queue' \subseteq InScope
      BY <1>1 DEF Walking, Position
    <3> QED BY <1>1, <1>2, <2>1, <3>1, <3>2 DEF Position, Inside
  <2>7. Expansion' /\ Methodical'
    BY <2>1 DEF Expansion, Methodical, Inside
  <2>8. Cause
    BY <1>2, <1>3, <2>4 DEF Cause, Lost
  <2> QED BY <1>1, <1>2, <2>2, <2>6, <2>7, <2>8 DEF WalkInv, Walking, Blame
<1>b. CASE resources # <<>>
  <2>1. /\ phase' = "methods" /\ errors' = errors
        /\ left' = {p \in Selected : p[2] \in DOMAIN Methods(p[1])}
    BY <1>1, <1>b DEF FinishExpansion
  <2>2. Selected = {<<q, n>> : q \in DOMAIN resources, n \in UNION {DOMAIN Methods(t) : t \in DOMAIN resources}}
    BY <1>1 DEF Selected, Whole
  <2>3. Entries' /\ \A t, q, n : Entered(t, q, n) => Entered(t, q, n)'
    BY <1>1, <1>n, <2>1, EntriesStay DEF Walking
  <2>4. /\ \A t : Covered(t) => Covered(t)'
        /\ \A t, q : Lost(t, q) => Lost(t, q)'
    BY <1>1, <2>1, <2>3, CoveredStays
  <2>5. Position'
    <3>1. \A t \in InScope \ queue' : t # service => Covered(t)'
      BY <1>1, <2>4 DEF Walking, Position, Inside
    <3>2. queue' \subseteq InScope
      BY <1>1 DEF Walking, Position
    <3>3. request'.level = "provider" /\ ~provider'.valid => errors' # {}
      BY <1>1, <2>1 DEF Walking, Position
    <3> QED BY <1>1, <1>2, <1>3, <2>1, <3>1, <3>2, <3>3 DEF Position, Inside
  <2>6. Expansion'
    BY <1>1, <1>2, <1>3, <2>4 DEF Expansion
  <2>7. Methodical'
    <3>1. \A q : Methods(q)' = Methods(q)
      BY <1>2 DEF Methods
    <3>2. ASSUME NEW p \in left' PROVE p[1] \in DOMAIN resources /\ p[2] \in DOMAIN Methods(p[1])
      BY <2>1, <2>2
    <3>3. ASSUME NEW q \in DOMAIN resources, NEW n \in DOMAIN Methods(q) PROVE <<q, n>> \in left'
      BY <2>1, <2>2
    <3> QED BY <1>1, <3>1, <3>2, <3>3 DEF Methodical
  <2>8. Blame'
    BY <1>2, <2>1 DEF Walking, Blame
  <2> QED BY <1>1, <2>3, <2>5, <2>6, <2>7, <2>8 DEF WalkInv, Walking
<1> QED BY <1>a, <1>b

LEMMA AnalyzeKeeps == ASSUME Walking, NEW p \in left, AnalyzeOne(p[1], p[2]) PROVE WalkInv'
<1> DEFINE r == p[1]
           n == p[2]
           report == analyzeMethod(Methods(r)[n], provider.protocol)
<1>e. PICK e : e = [service |-> service, resource |-> r, method |-> n, fragment |-> fragments[r]]
  OBVIOUS
<1>k. PICK len : len = Len(analysed)
  OBVIOUS
<1>1. /\ provider' = provider /\ request' = request /\ phase = "methods" /\ phase' = phase
      /\ service' = service /\ queue' = queue /\ pending' = pending
      /\ resources' = resources /\ fragments' = fragments
      /\ <<r, n>> \in left /\ left' = left \ {<<r, n>>}
      /\ analysed' = Append(analysed, e)
      /\ errors' = errors \cup {Err(service, r, n, x.bin, x.what) : x \in report.errors}
  BY <1>e DEF AnalyzeOne
<1>2. /\ InScope' = InScope /\ Walkable' = Walkable /\ Cause' = Cause /\ \A t : At(t)' = At(t)
      /\ Svc' = Svc /\ Svc = At(service) /\ (\A x : MethodOf(x)' = MethodOf(x)) /\ \A q : Methods(q)' = Methods(q)
  <2>1. Svc' = Svc /\ Svc = At(service)
    BY <1>1 DEF Svc, At
  <2> QED BY <1>1, <2>1, Steady DEF Methods
<1>3. /\ service \in InScope \ queue /\ Svc.readable
      /\ DOMAIN fragments = DOMAIN resources /\ DOMAIN resources \subseteq DOMAIN Svc.methods
      /\ Svc.register => \A q \in DOMAIN fragments : q \in Svc.fragment[fragments[q]]
      /\ r \in DOMAIN resources /\ n \in DOMAIN Methods(r)
  BY <1>1 DEF Walking, Position, Expansion, Methodical, Inside
<1>4. /\ IsList(analysed') /\ len \in Nat /\ DOMAIN analysed = 1 .. len /\ DOMAIN analysed' = 1 .. (len + 1)
      /\ \A i \in 1 .. len : analysed'[i] = analysed[i]
      /\ analysed'[len + 1] = e
  <2>1. IsList(analysed)
    BY DEF Walking, Entries
  <2> QED BY <1>1, <1>k, <2>1, ListAppend
<1>5. e.service = service /\ e.resource = r /\ e.method = n /\ e.fragment = fragments[r]
  BY <1>e
<1>6. \A t, q, x : Entered(t, q, x) => Entered(t, q, x)'
  <2> SUFFICES ASSUME NEW t, NEW q, NEW x, Entered(t, q, x) PROVE Entered(t, q, x)'
    OBVIOUS
  <2>1. PICK i \in DOMAIN analysed :
          analysed[i].service = t /\ analysed[i].resource = q /\ analysed[i].method = x
    BY DEF Entered
  <2>2. i \in DOMAIN analysed' /\ analysed'[i] = analysed[i]
    BY <1>4
  <2> QED BY <2>1, <2>2 DEF Entered
<1>7. Entered(service, r, n)'
  <2>1. len + 1 \in DOMAIN analysed'
    BY <1>4
  <2>2. \E i \in DOMAIN analysed' :
          analysed'[i].service = service' /\ analysed'[i].resource = r /\ analysed'[i].method = n
    BY <1>1, <1>4, <1>5, <2>1
  <2> QED BY <2>2 DEF Entered
<1>8. /\ \A t : Covered(t) => Covered(t)'
      /\ \A t, q : Lost(t, q) => Lost(t, q)'
  BY <1>1, <1>6, CoveredStays
<1>9. Position'
  <2>1. \A t \in InScope \ queue' : t # service => Covered(t)'
    BY <1>1, <1>8 DEF Walking, Position, Inside
  <2>2. queue' \subseteq InScope
    BY <1>1 DEF Walking, Position
  <2>3. request'.level = "provider" /\ ~provider'.valid => errors' # {}
    BY <1>1 DEF Walking, Position
  <2> QED BY <1>1, <1>2, <1>3, <2>1, <2>2, <2>3 DEF Position, Inside
<1>10. Expansion'
  BY <1>1, <1>2, <1>8 DEF Walking, Expansion, Inside
<1>11. Methodical'
  <2>1. \A q \in left' : q[1] \in DOMAIN resources /\ q[2] \in DOMAIN Methods(q[1])
    BY <1>1 DEF Walking, Methodical
  <2>2. ASSUME NEW q \in DOMAIN resources, NEW x \in DOMAIN Methods(q)
        PROVE  <<q, x>> \in left' \/ Entered(service, q, x)'
    <3>1. <<q, x>> \in left \/ Entered(service, q, x)
      BY <1>1 DEF Walking, Methodical
    <3>2. <<q, x>> = <<r, n>> => q = r /\ x = n
      OBVIOUS
    <3>3. Entered(service, q, x) => Entered(service, q, x)'
      BY <1>1, <1>6 DEF Entered
    <3> QED BY <1>1, <1>7, <3>1, <3>2, <3>3
  <2>3. pending' = {}
    BY <1>1 DEF Walking, Methodical
  <2> QED BY <1>1, <1>2, <2>1, <2>2, <2>3 DEF Methodical
<1>12. Entries'
  <2>1. ASSUME NEW i \in 1 .. len PROVE Entry(analysed[i])' /\ ~SameMethod(analysed[i], e)
    <3>1. Entry(analysed[i])
      BY <1>4 DEF Walking, Entries
    <3>2. i \in DOMAIN analysed' /\ analysed'[i] = analysed[i]
      BY <1>4
    <3>3. Entry(analysed[i])'
      BY <1>1, <1>2, <3>1, <3>2 DEF Entry
    <3>4. ~SameMethod(analysed[i], e)
      BY <1>1, <1>5, <3>1 DEF Entry, SameMethod
    <3> QED BY <3>3, <3>4
  <2>2. Entry(analysed[len + 1])'
    <3>1. MethodOf(e) = Methods(r)[n]
      BY <1>2, <1>5 DEF MethodOf, Methods
    <3>2. report.errors # {} => errors' # {}
      BY <1>1
    <3>3. e.resource \in DOMAIN At(e.service).methods /\ e.method \in DOMAIN At(e.service).methods[e.resource]
      BY <1>2, <1>3, <1>5 DEF Methods
    <3>4. At(e.service).register => e.resource \in At(e.service).fragment[e.fragment]
      BY <1>2, <1>3, <1>5
    <3>5. analyzeMethod(MethodOf(e), provider.protocol) = report
      BY <3>1
    <3>6. <<e.resource, e.method>> \notin left'
      BY <1>1, <1>5
    <3> HIDE DEF report
    <3>7. Entry(e)'
      BY <1>1, <1>2, <1>3, <1>5, <3>2, <3>3, <3>4, <3>5, <3>6 DEF Entry
    <3> QED BY <1>4, <3>7 DEF Entry
  <2>3. ASSUME NEW i \in DOMAIN analysed' PROVE Entry(analysed[i])'
    <3>1. i \in 1 .. len \/ i = len + 1
      BY <1>4
    <3> QED BY <2>1, <2>2, <3>1
  <2>4. ASSUME NEW i \in DOMAIN analysed', NEW j \in DOMAIN analysed', SameMethod(analysed'[i], analysed'[j])
        PROVE  i = j
    <3>1. (i \in 1 .. len \/ i = len + 1) /\ (j \in 1 .. len \/ j = len + 1)
      BY <1>4
    <3>2. CASE i \in 1 .. len /\ j \in 1 .. len
      <4>1. analysed'[i] = analysed[i] /\ analysed'[j] = analysed[j] /\ i \in DOMAIN analysed /\ j \in DOMAIN analysed
        BY <1>4, <3>2
      <4>2. SameMethod(analysed[i], analysed[j])
        BY <2>4, <4>1
      <4> QED BY <4>1, <4>2 DEF Walking, Entries
    <3>3. CASE i \in 1 .. len /\ j = len + 1
      <4>1. analysed'[i] = analysed[i] /\ analysed'[j] = e
        BY <1>4, <3>3
      <4> QED BY <2>1, <2>4, <3>3, <4>1
    <3>4. CASE i = len + 1 /\ j \in 1 .. len
      <4>1. analysed'[i] = e /\ analysed'[j] = analysed[j]
        BY <1>4, <3>4
      <4>2. SameMethod(analysed[j], e)
        BY <2>4, <4>1 DEF SameMethod
      <4> QED BY <2>1, <3>4, <4>2
    <3> QED BY <3>1, <3>2, <3>3, <3>4
  <2>5. \A i, j \in DOMAIN analysed' : SameMethod(analysed[i], analysed[j])' => i = j
    BY <2>4 DEF SameMethod
  <2> QED BY <1>4, <2>3, <2>5 DEF Entries, IsList
<1>13. Blame'
  <2>1. report.errors # {} => Cause
    BY <1>2, <1>3 DEF Cause, Methods
  <2> QED BY <1>1, <1>2, <2>1 DEF Walking, Blame
<1> QED BY <1>1, <1>9, <1>10, <1>11, <1>12, <1>13 DEF WalkInv, Walking


LEMMA MethodsKeep == ASSUME Walking, FinishMethods PROVE WalkInv'
<1>1. /\ provider' = provider /\ request' = request /\ analysed' = analysed /\ errors' = errors
      /\ phase = "methods" /\ phase' = "walk" /\ left = {} /\ queue' = queue /\ service' = service
  BY DEF FinishMethods
<1>2. /\ InScope' = InScope /\ Cause' = Cause /\ (\A t : At(t)' = At(t)) /\ Svc = At(service)
  <2>1. Svc = At(service)
    BY DEF Svc, At
  <2> QED BY <1>1, <2>1, Steady
<1>3. Entries' /\ \A t, q, n : Entered(t, q, n) => Entered(t, q, n)'
  BY <1>1, EntriesStay DEF Walking
<1>4. /\ \A t : Covered(t) => Covered(t)'
      /\ \A t, q : Lost(t, q) => Lost(t, q)'
  BY <1>1, <1>3, CoveredStays
<1>5. Covered(service)
  <2>1. ASSUME NEW q \in DOMAIN Svc.methods, NEW n \in DOMAIN Svc.methods[q]
        PROVE  Entered(service, q, n) \/ Lost(service, q)
    <3>1. q \in DOMAIN resources \/ Lost(service, q)
      BY <1>1 DEF Walking, Expansion, Methodical, Inside
    <3>2. q \in DOMAIN resources => Entered(service, q, n)
      BY <1>1 DEF Walking, Methodical, Methods
    <3> QED BY <3>1, <3>2
  <2>2. Svc.readable
    BY <1>1 DEF Walking, Position, Inside
  <2> QED BY <1>2, <2>1, <2>2 DEF Covered
<1>6. Position'
  <2>1. \A t \in InScope \ queue' : Covered(t)'
    BY <1>1, <1>4, <1>5 DEF Walking, Position, Inside
  <2>2. queue' \subseteq InScope
    BY <1>1 DEF Walking, Position
  <2>3. request'.level = "provider" /\ ~provider'.valid => errors' # {}
    BY <1>1 DEF Walking, Position
  <2> QED BY <1>1, <1>2, <2>1, <2>2, <2>3 DEF Position, Inside
<1>7. Expansion' /\ Methodical'
  BY <1>1 DEF Expansion, Methodical, Inside
<1>8. Blame'
  BY <1>1, <1>2 DEF Walking, Blame
<1> QED BY <1>1, <1>3, <1>6, <1>7, <1>8 DEF WalkInv, Walking

(* The end of the walk, and the report.                                    *)
LEMMA EndKeeps == ASSUME Walking, FinishWalk \/ Report PROVE WalkInv'
<1>1. /\ provider' = provider /\ request' = request /\ analysed' = analysed /\ errors' = errors
      /\ phase \in {"walk", "report"} /\ phase' \in {"report", "done"} /\ queue' = queue /\ Whole
  BY DEF FinishWalk, Report, Over, Walking, Walkable
<1>2. InScope' = InScope /\ Cause' = Cause
  BY <1>1, Steady
<1>3. queue = {} /\ exit' = Code'
  <2>1. CASE FinishWalk
    BY <1>1, <2>1 DEF FinishWalk, Over, Code
  <2>2. CASE Report
    BY <1>1, <2>2 DEF Report, Code, Walking, Position
  <2> QED BY <2>1, <2>2
<1>4. Entries' /\ \A t, q, n : Entered(t, q, n) => Entered(t, q, n)'
  BY <1>1, EntriesStay DEF Walking
<1>5. \A t : Covered(t) => Covered(t)'
  BY <1>1, <1>4, CoveredStays
<1>6. Position'
  <2>1. \A t \in InScope \ queue' : Covered(t)'
    BY <1>1, <1>5 DEF Walking, Position, Inside
  <2>2. queue' \subseteq InScope
    BY <1>1 DEF Walking, Position
  <2>3. request'.level = "provider" /\ ~provider'.valid => errors' # {}
    BY <1>1 DEF Walking, Position
  <2> QED BY <1>1, <1>2, <1>3, <2>1, <2>2, <2>3 DEF Position, Inside
<1>7. Expansion' /\ Methodical'
  BY <1>1 DEF Expansion, Methodical, Inside
<1>8. Blame'
  BY <1>1, <1>2 DEF Walking, Blame
<1> QED BY <1>1, <1>4, <1>6, <1>7, <1>8 DEF WalkInv, Walking

LEMMA WalkInductive == WalkInv /\ [AnalysisNext]_analysisVars => WalkInv'
<1> SUFFICES ASSUME WalkInv, [AnalysisNext]_analysisVars PROVE WalkInv'
  OBVIOUS
<1>1. provider' = provider /\ request' = request
  BY DEF AnalysisNext, analysisVars, Begin, OpenService, LoadFragment, FinishExpansion, AnalyzeOne, FinishMethods,
         FinishWalk, Report, AnalysisDone
<1>2. CASE ~Walkable
  BY <1>1, <1>2, Steady DEF WalkInv
<1>3. CASE Walkable /\ UNCHANGED analysisVars
  <2>1. Walking
    BY <1>3 DEF WalkInv, Walking
  <2>2. /\ InScope' = InScope /\ Cause' = Cause /\ Svc' = Svc /\ (\A t : At(t)' = At(t))
        /\ (\A q : Methods(q)' = Methods(q)) /\ Inside' = Inside /\ Code' = Code
    BY <1>1, <1>3, Steady DEF analysisVars, Svc, Methods, Inside, Code
  <2>3. Entries' /\ \A t, q, n : Entered(t, q, n) => Entered(t, q, n)'
    BY <1>3, <2>1, EntriesStay DEF analysisVars, Walking, Entries, Entry
  <2>4. /\ \A t : Covered(t) => Covered(t)'
        /\ \A t, q : Lost(t, q) => Lost(t, q)'
    BY <1>3, <2>3, CoveredStays DEF analysisVars
  <2>5. Position'
    BY <1>3, <2>1, <2>2, <2>4 DEF analysisVars, Walking, Position
  <2>6. Expansion'
    BY <1>3, <2>1, <2>2, <2>4 DEF analysisVars, Walking, Expansion
  <2>7. Methodical'
    BY <1>3, <2>1, <2>2, <2>3 DEF analysisVars, Walking, Methodical
  <2>8. Blame'
    BY <1>3, <2>1, <2>2 DEF analysisVars, Walking, Blame
  <2> QED BY <1>1, <2>1, <2>3, <2>5, <2>6, <2>7, <2>8 DEF WalkInv, Walking
<1>4. CASE Walkable /\ AnalysisNext
  <2>1. Walking
    BY <1>4 DEF WalkInv, Walking
  <2>2. CASE AnalysisDone
    BY <1>3, <1>4, <2>2 DEF AnalysisDone
  <2> QED BY <1>4, <2>1, <2>2, BeginKeeps, OpenKeeps, LoadKeeps, ExpansionKeeps, AnalyzeKeeps, MethodsKeep,
             EndKeeps DEF AnalysisNext
<1> QED BY <1>2, <1>3, <1>4

(* The walk's inductive invariant holds throughout.                        *)
THEOREM WalkInvariance == AnalysisSpec => []WalkInv
  BY WalkInit, WalkInductive, PTL DEF AnalysisSpec

(* What it says at the end, of a walk that had something to walk.          *)
LEMMA AtTheEnd ==
    ASSUME WalkInv, Walked, NEW s0 \in InScope
    PROVE  Walking /\ queue = {} /\ exit = Code /\ \A s \in InScope : Covered(s)
<1>1. Walkable
  BY DEF Walked, Walkable, InScope, Whole
<1>2. Walking
  BY <1>1 DEF WalkInv, Walking
<1> QED BY <1>2 DEF Walking, Walked, Position, Inside

(* Every method of every resource that can be had is analysed exactly once,*)
(* against a fragment that holds its resource, whatever else fails and in  *)
(* whatever order services, resources and methods come up.                 *)
THEOREM MethodOnce == AnalysisSpec => []EveryMethodOnce
<1>1. WalkInv => EveryMethodOnce
  <2> SUFFICES ASSUME WalkInv, Walked,
                      NEW s \in InScope, provider.services[s].readable,
                      NEW r \in DOMAIN provider.services[s].methods,
                      ~(provider.services[s].register /\ provider.services[s].fragment[r] = {}),
                      NEW n \in DOMAIN provider.services[s].methods[r]
               PROVE  \E i \in DOMAIN analysed :
                         /\ {j \in DOMAIN analysed : /\ analysed[j].service = s /\ analysed[j].resource = r
                                                     /\ analysed[j].method = n} = {i}
                         /\ provider.services[s].register =>
                               r \in provider.services[s].fragment[analysed[i].fragment]
    BY DEF EveryMethodOnce
  <2>1. Entries /\ Covered(s)
    BY AtTheEnd DEF Walking
  <2>2. Entered(s, r, n)
    BY <2>1 DEF Covered, Lost, At
  <2>3. PICK i \in DOMAIN analysed :
          analysed[i].service = s /\ analysed[i].resource = r /\ analysed[i].method = n
    BY <2>2 DEF Entered
  <2>4. ASSUME NEW j \in DOMAIN analysed,
               analysed[j].service = s, analysed[j].resource = r, analysed[j].method = n
        PROVE  j = i
    BY <2>1, <2>3, <2>4 DEF Entries, SameMethod
  <2>5. provider.services[s].register => r \in provider.services[s].fragment[analysed[i].fragment]
    BY <2>1, <2>3 DEF Entries, Entry, At
  <2> QED BY <2>3, <2>4, <2>5
<1> QED BY <1>1, WalkInvariance, PTL


(* The exit code tells, of a whole provider or a whole service, whether    *)
(* anything was missed or is wrong: a 0 hides nothing, a 1 has a cause.    *)
THEOREM ExitTells == AnalysisSpec => []ExitTellsErrors
<1>1. WalkInv => ExitTellsErrors
  <2> SUFFICES ASSUME WalkInv, Walked, InScope # {} PROVE ExitTellsErrors
    BY DEF ExitTellsErrors
  <2> DEFINE svcs == {provider.services[s] : s \in InScope}
             methods == UNION {UNION {{svc.methods[r][n] : n \in DOMAIN svc.methods[r]} : r \in DOMAIN svc.methods} : svc \in svcs}
             failing == {m \in methods : analyzeMethod(m, provider.protocol).errors # {}}
             invalid == request.level = "provider" /\ ~provider.valid
             partial == \E svc \in svcs : svc.register /\ \E r \in DOMAIN svc.methods : svc.fragment[r] = {}
             reached == {<<analysed[i].service, analysed[i].resource>> : i \in DOMAIN analysed}
  <2>1. Walking /\ exit = Code /\ \A s \in InScope : Covered(s)
    BY AtTheEnd
  <2>2. ASSUME exit = 0
        PROVE  /\ ~invalid /\ failing = {}
               /\ \A s \in InScope : \A r \in DOMAIN provider.services[s].methods :
                     DOMAIN provider.services[s].methods[r] # {} => <<s, r>> \in reached
    <3>1. errors = {}
      BY <2>1, <2>2 DEF Code
    <3>2. ASSUME NEW s \in InScope, NEW r \in DOMAIN provider.services[s].methods,
                 NEW n \in DOMAIN provider.services[s].methods[r]
          PROVE  Entered(s, r, n)
      BY <2>1, <3>1 DEF Covered, Lost, At
    <3>3. ~invalid
      BY <2>1, <3>1 DEF Walking, Position, Walked
    <3>4. ASSUME NEW s \in InScope, NEW r \in DOMAIN provider.services[s].methods,
                 NEW n \in DOMAIN provider.services[s].methods[r]
          PROVE  /\ analyzeMethod(provider.services[s].methods[r][n], provider.protocol).errors = {}
                 /\ <<s, r>> \in reached
      <4>1. PICK i \in DOMAIN analysed :
              analysed[i].service = s /\ analysed[i].resource = r /\ analysed[i].method = n
        BY <3>2 DEF Entered
      <4>2. MethodOf(analysed[i]) = provider.services[s].methods[r][n]
        BY <4>1 DEF MethodOf, At
      <4>3. Entry(analysed[i])
        BY <2>1 DEF Walking, Entries
      <4> QED BY <3>1, <4>1, <4>2, <4>3 DEF Entry
    <3>5. ASSUME NEW m \in methods PROVE analyzeMethod(m, provider.protocol).errors = {}
      <4>1. PICK s \in InScope : \E r \in DOMAIN provider.services[s].methods :
              \E n \in DOMAIN provider.services[s].methods[r] : m = provider.services[s].methods[r][n]
        OBVIOUS
      <4> QED BY <3>4, <4>1
    <3> QED BY <3>3, <3>4, <3>5
  <2>3. ASSUME exit = 1
        PROVE  \/ invalid \/ failing # {} \/ partial
               \/ \E svc \in svcs : ~svc.readable \/ DOMAIN svc.methods = {}
    <3>1. Cause
      BY <2>1, <2>3 DEF Code, Walking, Blame
    <3>2. ASSUME NEW s \in InScope, NEW r \in DOMAIN At(s).methods, NEW n \in DOMAIN At(s).methods[r],
                 analyzeMethod(At(s).methods[r][n], provider.protocol).errors # {}
          PROVE  failing # {}
      <4>1. At(s) \in svcs
        BY DEF At
      <4>2. At(s).methods[r][n] \in methods
        BY <4>1
      <4> QED BY <3>2, <4>2
    <3>3. \A s \in InScope : At(s) \in svcs
      BY DEF At
    <3> HIDE DEF failing
    <3> QED BY <3>1, <3>2, <3>3 DEF Cause
  <2> QED BY <2>2, <2>3 DEF ExitTellsErrors
<1> QED BY <1>1, WalkInvariance, PTL

-----------------------------------------------------------------------------
(***************************************************************************)
(* The address space (AddressSpace, RadixTree).                            *)
(***************************************************************************)
(* The parts of which addresses are made, the labels and the nodes that    *)
(* are made of them, what a node can hold, and the trees.                  *)
Part == UNION {{a[i] : i \in DOMAIN a} : a \in Addresses \cup Headers}
Label == Seq(Part) \ {<<>>}
Node == Seq(Label)
Writable == Values \cup {"header"}
Content == Writable \cup {Nothing, NilNode}
Trees == {t \in UNION {[D -> Content] : D \in SUBSET Node} : <<>> \in DOMAIN t}

LEMMA AddressParts ==
    ASSUME NEW a \in Addresses \cup Headers PROVE a \in Seq(Part)
<1>1. a \in Seq({a[i] : i \in DOMAIN a})
  BY AddressesAssumption
<1>2. {a[i] : i \in DOMAIN a} \subseteq Part
  BY DEF Part
<1> HIDE DEF Part
<1> QED BY <1>1, <1>2

(* Prefixes, element by element.                                           *)
LEMMA PrefixMeans ==
    ASSUME NEW S, NEW s \in Seq(S), NEW t \in Seq(S)
    PROVE  IsPrefix(s, t) <=> Len(s) <= Len(t) /\ \A i \in 1 .. Len(s) : s[i] = t[i]
<1>1. Len(s) \in Nat /\ Len(t) \in Nat
  OBVIOUS
<1>2. ASSUME Len(s) <= Len(t)
      PROVE  SubSeq(s, 1, Len(s)) = SubSeq(t, 1, Len(s)) <=> \A i \in 1 .. Len(s) : s[i] = t[i]
  <2>1. SubSeq(s, 1, Len(s)) = s
    BY <1>1
  <2>2. /\ SubSeq(t, 1, Len(s)) \in Seq(S) /\ Len(SubSeq(t, 1, Len(s))) = Len(s)
        /\ \A i \in 1 .. Len(s) : SubSeq(t, 1, Len(s))[i] = t[i]
    BY <1>1, <1>2
  <2> QED BY <2>1, <2>2
<1> QED BY <1>2 DEF IsPrefix

LEMMA PrefixFacts ==
    ASSUME NEW S, NEW s \in Seq(S), NEW t \in Seq(S), IsPrefix(s, t)
    PROVE  /\ Len(s) <= Len(t) /\ (Len(s) = Len(t) => s = t) /\ (IsPrefix(t, s) => s = t)
           /\ (t = <<>> => s = <<>>) /\ (s # t => Len(s) < Len(t))
<1>1. Len(s) \in Nat /\ Len(t) \in Nat /\ Len(s) <= Len(t) /\ \A i \in 1 .. Len(s) : s[i] = t[i]
  BY PrefixMeans
<1>2. Len(s) = Len(t) => s = t
  BY <1>1
<1>3. IsPrefix(t, s) => Len(t) <= Len(s)
  BY PrefixMeans
<1>4. t = <<>> => Len(s) = Len(t)
  BY <1>1
<1> QED BY <1>1, <1>2, <1>3, <1>4

LEMMA PrefixOrder ==
    ASSUME NEW S, NEW r \in Seq(S), NEW s \in Seq(S), NEW t \in Seq(S)
    PROVE  /\ IsPrefix(s, s) /\ IsPrefix(<<>>, s)
           /\ IsPrefix(r, s) /\ IsPrefix(s, t) => IsPrefix(r, t)
           /\ IsPrefix(r, t) /\ IsPrefix(s, t) /\ Len(r) <= Len(s) => IsPrefix(r, s)
<1>1. Len(r) \in Nat /\ Len(s) \in Nat /\ Len(t) \in Nat
  OBVIOUS
<1>2. IsPrefix(s, s)
  BY PrefixMeans
<1>3. IsPrefix(<<>>, s)
  <2> DEFINE e == <<>>
  <2>1. e \in Seq(S) /\ Len(e) = 0
    OBVIOUS
  <2> HIDE DEF e
  <2>2. Len(e) <= Len(s) /\ \A i \in 1 .. Len(e) : e[i] = s[i]
    BY <1>1, <2>1
  <2>3. IsPrefix(e, s)
    BY <2>1, <2>2, PrefixMeans
  <2> QED BY <2>3 DEF e
<1>4. ASSUME IsPrefix(r, s), IsPrefix(s, t) PROVE IsPrefix(r, t)
  <2>1. Len(r) <= Len(s) /\ \A i \in 1 .. Len(r) : r[i] = s[i]
    BY <1>4, PrefixMeans
  <2>2. Len(s) <= Len(t) /\ \A i \in 1 .. Len(s) : s[i] = t[i]
    BY <1>4, PrefixMeans
  <2> QED BY <1>1, <2>1, <2>2, PrefixMeans
<1>5. ASSUME IsPrefix(r, t), IsPrefix(s, t), Len(r) <= Len(s) PROVE IsPrefix(r, s)
  <2>1. Len(r) <= Len(t) /\ \A i \in 1 .. Len(r) : r[i] = t[i]
    BY <1>5, PrefixMeans
  <2>2. Len(s) <= Len(t) /\ \A i \in 1 .. Len(s) : s[i] = t[i]
    BY <1>5, PrefixMeans
  <2> QED BY <1>1, <1>5, <2>1, <2>2, PrefixMeans
<1> QED BY <1>2, <1>3, <1>4, <1>5

LEMMA PrefixJoin ==
    ASSUME NEW S, NEW s \in Seq(S), NEW t \in Seq(S)
    PROVE  IsPrefix(s, s \o t)
<1>1. /\ s \o t \in Seq(S) /\ Len(s \o t) = Len(s) + Len(t) /\ Len(s) \in Nat /\ Len(t) \in Nat
      /\ \A i \in 1 .. Len(s) : (s \o t)[i] = s[i]
  OBVIOUS
<1> DEFINE u == s \o t
<1>2. u \in Seq(S) /\ Len(s) <= Len(u) /\ \A i \in 1 .. Len(s) : s[i] = u[i]
  BY <1>1
<1> HIDE DEF u
<1>3. IsPrefix(s, u)
  BY <1>2, PrefixMeans
<1> QED BY <1>3 DEF u

LEMMA RestFacts ==
    ASSUME NEW S, NEW p \in Seq(S), NEW k \in Seq(S), IsPrefix(k, p)
    PROVE  /\ Rest(p, k) \in Seq(S) /\ (Rest(p, k) = <<>> <=> k = p)
           /\ Len(Rest(p, k)) = Len(p) - Len(k)
<1>1. Len(p) \in Nat /\ Len(k) \in Nat /\ Len(k) <= Len(p)
  BY PrefixFacts
<1>2. Rest(p, k) \in Seq(S) /\ Len(Rest(p, k)) = Len(p) - Len(k)
  BY <1>1 DEF Rest
<1>3. Rest(p, k) = <<>> <=> Len(p) = Len(k)
  BY <1>1, <1>2
<1>4. Len(p) = Len(k) => k = p
  BY PrefixFacts
<1> QED BY <1>2, <1>3, <1>4

(* A nonempty set of naturals has a least element; induction, for a set.   *)
LEMMA LeastElement ==
    ASSUME NEW S, S \subseteq Nat, S # {}
    PROVE  \E i \in S : \A j \in S : i <= j
<1> DEFINE R == OpToRel(<, Nat)
<1>1. IsWellFoundedOn(R, Nat)
  BY NatLessThanWellFounded
<1> HIDE DEF R
<1>2. PICK i \in S : \A j \in S : <<j, i>> \notin R
  BY <1>1, WFMin
<1>3. \A j \in S : ~(j < i)
  BY <1>2 DEF R, OpToRel
<1> QED
  BY <1>3

LEMMA SetInduction ==
    ASSUME NEW P, 0 \in P, \A n \in Nat : n \in P => n + 1 \in P
    PROVE  Nat \subseteq P
<1> SUFFICES ASSUME Nat \ P # {} PROVE FALSE
  OBVIOUS
<1>1. PICK x \in Nat \ P : \A y \in Nat \ P : x <= y
  BY LeastElement
<1>2. x - 1 \in Nat /\ x = (x - 1) + 1 /\ x - 1 < x
  BY <1>1
<1>3. x - 1 \notin P
  BY <1>2
<1> QED BY <1>1, <1>2, <1>3

(* The labels of a node are joined one after the other.                    *)
JoinStep(node, sep, s, i) == IF s = <<>> THEN node[i] ELSE s \o sep \o node[i]

LEMMA JoinedBySteps ==
    ASSUME NEW node \in Node, NEW sep
    PROVE  \E f : /\ \A i \in 0 .. Len(node) : f[i] = IF i = 0 THEN <<>> ELSE JoinStep(node, sep, f[i - 1], i)
                  /\ Joined(node, sep) = f[Len(node)]
<1> DEFINE Upto(m, f) == f = [i \in 0 .. m |-> IF i = 0 THEN <<>> ELSE JoinStep(node, sep, f[i - 1], i)]
           P == {m \in Nat : \E f : Upto(m, f)}
           join == CHOOSE f : Upto(Len(node), f)
<1>1. 0 \in P
  <2> DEFINE f == [i \in 0 .. 0 |-> <<>>]
  <2>1. Upto(0, f)
    OBVIOUS
  <2> QED BY <2>1
<1>2. ASSUME NEW m \in Nat, m \in P PROVE m + 1 \in P
  <2>1. PICK f : Upto(m, f)
    BY <1>2
  <2> DEFINE g == [i \in 0 .. (m + 1) |-> IF i = m + 1 THEN JoinStep(node, sep, f[m], m + 1) ELSE f[i]]
  <2>2. ASSUME NEW i \in 0 .. (m + 1)
        PROVE  g[i] = IF i = 0 THEN <<>> ELSE JoinStep(node, sep, g[i - 1], i)
    <3>1. CASE i = 0
      BY <2>1, <3>1
    <3>2. CASE i # 0
      <4>1. i - 1 \in 0 .. m /\ g[i - 1] = f[i - 1]
        BY <3>2
      <4>2. CASE i = m + 1
        BY <3>2, <4>1, <4>2
      <4>3. CASE i # m + 1
        <5>1. i \in 0 .. m /\ g[i] = f[i]
          BY <4>3
        <5> QED BY <2>1, <3>2, <4>1, <5>1
      <4> QED BY <4>2, <4>3
    <3> QED BY <3>1, <3>2
  <2>3. Upto(m + 1, g)
    <3>1. g = [i \in 0 .. (m + 1) |-> g[i]]
      OBVIOUS
    <3> HIDE DEF g
    <3> QED BY <2>2, <3>1
  <2> HIDE DEF Upto
  <2> QED BY <2>3
<1>3. Len(node) \in P
  <2>1. Len(node) \in Nat
    BY DEF Node
  <2>2. Nat \subseteq P
    <3> HIDE DEF P
    <3> QED BY <1>1, <1>2, SetInduction
  <2> QED BY <2>1, <2>2
<1>4. Upto(Len(node), join)
  <2> HIDE DEF Upto
  <2> QED BY <1>3
<1>5. Joined(node, sep) = join[Len(node)]
  BY DEF Joined, JoinStep
<1> HIDE DEF join
<1>6. \A i \in 0 .. Len(node) : join[i] = IF i = 0 THEN <<>> ELSE JoinStep(node, sep, join[i - 1], i)
  BY <1>4
<1> QED BY <1>5, <1>6

(* What a node's labels are joined to begins with its first label, and is  *)
(* longer than that when there are more.                                   *)
Token == Part \cup {"."}

LEMMA JoinedFacts ==
    ASSUME NEW node \in Node, NEW sep \in Seq(Token)
    PROVE  /\ Joined(node, sep) \in Seq(Token)
           /\ node = <<>> => Joined(node, sep) = <<>>
           /\ Len(node) = 1 => Joined(node, sep) = node[1]
           /\ node # <<>> => IsPrefix(node[1], Joined(node, sep))
           /\ Len(node) > 1 => Len(Joined(node, sep)) > Len(node[1])
<1>1. PICK f : /\ \A i \in 0 .. Len(node) : f[i] = IF i = 0 THEN <<>> ELSE JoinStep(node, sep, f[i - 1], i)
               /\ Joined(node, sep) = f[Len(node)]
  BY JoinedBySteps
<1>2. Len(node) \in Nat /\ \A i \in 1 .. Len(node) : node[i] \in Label
  BY DEF Node
<1>3. ASSUME NEW l \in Label PROVE l \in Seq(Token) /\ Len(l) \in Nat /\ Len(l) > 0
  BY DEF Label, Token
<1>4. f[0] = <<>>
  BY <1>1, <1>2
<1>5. ASSUME Len(node) >= 1 PROVE f[1] = node[1]
  <2>1. 1 \in 0 .. Len(node) /\ 1 # 0 /\ 1 - 1 = 0
    BY <1>2, <1>5
  <2>2. f[1] = JoinStep(node, sep, f[0], 1)
    BY <1>1, <2>1
  <2> QED BY <1>4, <2>2 DEF JoinStep
<1> DEFINE P == {m \in Nat : m + 1 <= Len(node) =>
                    /\ f[m + 1] \in Seq(Token) /\ IsPrefix(node[1], f[m + 1])
                    /\ m > 0 => Len(f[m + 1]) > Len(node[1])}
<1>6. 0 \in P
  <2> SUFFICES ASSUME 0 + 1 <= Len(node)
               PROVE  f[1] \in Seq(Token) /\ IsPrefix(node[1], f[1])
    <3>1. 0 + 1 = 1 /\ ~(0 > 0) /\ 0 \in Nat
      OBVIOUS
    <3> QED BY <3>1, Zenon
  <2>1. f[1] = node[1] /\ node[1] \in Seq(Token)
    BY <1>2, <1>3, <1>5
  <2> QED BY <2>1, PrefixOrder
<1>7. ASSUME NEW m \in Nat, m \in P PROVE m + 1 \in P
  <2> SUFFICES ASSUME (m + 1) + 1 <= Len(node)
               PROVE  /\ f[(m + 1) + 1] \in Seq(Token) /\ IsPrefix(node[1], f[(m + 1) + 1])
                      /\ Len(f[(m + 1) + 1]) > Len(node[1])
    OBVIOUS
  <2>1. m + 1 <= Len(node) /\ m + 2 \in 0 .. Len(node) /\ m + 2 # 0 /\ (m + 2) - 1 = m + 1 /\ (m + 1) + 1 = m + 2
        /\ m + 2 \in 1 .. Len(node) /\ 1 \in 1 .. Len(node)
    BY <1>2
  <2> DEFINE s == f[m + 1]
             l == node[m + 2]
             u == f[m + 2]
             k == node[1]
  <2>2. s \in Seq(Token) /\ IsPrefix(k, s) /\ l \in Label /\ k \in Label
    BY <1>2, <1>7, <2>1
  <2>3. u = JoinStep(node, sep, s, m + 2)
    BY <1>1, <2>1
  <2>4. s # <<>>
    <3>1. Len(k) <= Len(s) /\ Len(k) > 0 /\ Len(k) \in Nat
      BY <1>3, <2>2, PrefixFacts
    <3> QED BY <3>1
  <2>5. u = s \o sep \o l
    BY <2>3, <2>4 DEF JoinStep
  <2> HIDE DEF s, l, u, k
  <2>6. u \in Seq(Token) /\ Len(u) > Len(s) /\ IsPrefix(s, u)
    <3>1. l \in Seq(Token) /\ Len(l) \in Nat /\ Len(l) > 0
      BY <1>3, <2>2
    <3>2. s \o sep \in Seq(Token) /\ sep \o l \in Seq(Token) /\ Len(sep) \in Nat /\ Len(s) \in Nat
          /\ Len(s \o sep) = Len(s) + Len(sep)
      BY <2>2, <3>1
    <3> DEFINE w == s \o sep
    <3>3. IsPrefix(s, w)
      BY <2>2, PrefixJoin
    <3>4. w \in Seq(Token) /\ Len(w) = Len(s) + Len(sep) /\ u = w \o l
      BY <2>5, <3>2
    <3> HIDE DEF w
    <3>5. u \in Seq(Token) /\ Len(u) = Len(w) + Len(l)
      <4>1. w \in Seq(Token) /\ l \in Seq(Token)
        BY <3>1, <3>4
      <4>2. w \o l \in Seq(Token) /\ Len(w \o l) = Len(w) + Len(l)
        BY <4>1
      <4> QED BY <3>4, <4>2
    <3>6. IsPrefix(w, u)
      BY <3>1, <3>4, PrefixJoin
    <3>7. IsPrefix(s, u)
      BY <2>2, <3>3, <3>4, <3>5, <3>6, PrefixOrder
    <3> QED BY <3>1, <3>2, <3>4, <3>5, <3>7
  <2>7. IsPrefix(k, u)
    BY <1>3, <2>2, <2>6, PrefixOrder
  <2>8. Len(k) <= Len(s) /\ Len(k) \in Nat /\ Len(s) \in Nat /\ Len(u) \in Nat
    BY <1>3, <2>2, <2>6, PrefixFacts
  <2> QED BY <2>1, <2>6, <2>7, <2>8 DEF u, k
<1>8. Nat \subseteq P
  <2> HIDE DEF P
  <2> QED BY <1>6, <1>7, SetInduction
<1>9. CASE node = <<>>
  <2>1. Len(node) = 0 /\ <<>> \in Seq(Token)
    BY <1>9
  <2>2. Joined(node, sep) = <<>> /\ ~(Len(node) = 1) /\ ~(Len(node) > 1)
    BY <1>1, <1>4, <2>1
  <2> QED BY <1>9, <2>1, <2>2, Zenon
<1>10. CASE node # <<>>
  <2>1. Len(node) - 1 \in Nat /\ (Len(node) - 1) + 1 = Len(node) /\ Len(node) >= 1
    BY <1>2, <1>10 DEF Node
  <2>2. Len(node) - 1 \in P
    BY <1>8, <2>1
  <2> QED BY <1>1, <1>2, <1>5, <1>10, <2>1, <2>2
<1> QED BY <1>9, <1>10

(* Trees, and nodes and their children.                                    *)
LEMMA TreeFacts ==
    ASSUME NEW t \in Trees
    PROVE  /\ <<>> \in DOMAIN t /\ t = [n \in DOMAIN t |-> t[n]]
           /\ \A n \in DOMAIN t : n \in Node /\ t[n] \in Content
<1>1. PICK D \in SUBSET Node : t \in [D -> Content]
  BY DEF Trees
<1> QED BY <1>1 DEF Trees

LEMMA TreeMade ==
    ASSUME NEW D, D \subseteq Node, <<>> \in D, NEW t, t = [n \in D |-> t[n]], \A n \in D : t[n] \in Content
    PROVE  t \in Trees
<1>1. t \in [D -> Content]
  BY Zenon
<1>2. DOMAIN t = D
  BY Zenon
<1>3. t \in UNION {[E -> Content] : E \in SUBSET Node}
  BY <1>1, Zenon
<1> QED BY <1>2, <1>3, Zenon DEF Trees

LEMMA NodeFacts ==
    /\ <<>> \in Node
    /\ \A n \in Node : Len(n) \in Nat /\ (n = <<>> <=> Len(n) = 0) /\ DOMAIN n = 1 .. Len(n)
    /\ \A n \in Node : n # <<>> => n[1] \in Label
    /\ \A n \in Node : Len(n) = 1 => n = <<n[1]>>
    /\ \A l \in Label : /\ l \in Seq(Part) /\ l # <<>> /\ Append(<<>>, l) = <<l>> /\ <<l>> \in Node
                        /\ Len(<<l>>) = 1 /\ <<l>>[1] = l /\ <<l>> # <<>>
  BY DEF Node, Label

LEMMA AppendNode ==
    ASSUME NEW n \in Node, NEW l \in Label
    PROVE  /\ Append(n, l) \in Node /\ Len(Append(n, l)) = Len(n) + 1 /\ Append(n, l) # <<>>
           /\ Append(n, l)[Len(n) + 1] = l /\ IsPrefix(n, Append(n, l))
           /\ n # <<>> => Append(n, l)[1] = n[1] /\ Len(Append(n, l)) > 1
<1>1. Len(n) \in Nat /\ (n = <<>> <=> Len(n) = 0)
  BY NodeFacts
<1> DEFINE m == Append(n, l)
<1>2. /\ m \in Node /\ Len(m) = Len(n) + 1 /\ m[Len(n) + 1] = l
      /\ \A i \in 1 .. Len(n) : m[i] = n[i]
  BY DEF Node
<1> HIDE DEF m
<1>3. IsPrefix(n, m)
  BY <1>1, <1>2, PrefixMeans DEF Node
<1>4. m # <<>>
  BY <1>1, <1>2, NodeFacts
<1>5. n # <<>> => m[1] = n[1] /\ Len(m) > 1
  BY <1>1, <1>2
<1> QED BY <1>2, <1>3, <1>4, <1>5 DEF m

LEMMA NodePrefix ==
    ASSUME NEW m \in Node, NEW n \in Node, IsPrefix(m, n), m # <<>>
    PROVE  n # <<>> /\ n[1] = m[1] /\ Len(m) <= Len(n) /\ (Len(n) = Len(m) => n = m)
<1>1. Len(m) \in Nat /\ Len(n) \in Nat /\ Len(m) # 0
  BY NodeFacts
<1>2. Len(m) <= Len(n) /\ \A i \in 1 .. Len(m) : m[i] = n[i]
  BY PrefixMeans DEF Node
<1>3. Len(n) = Len(m) => n = m
  BY PrefixFacts DEF Node
<1>4. 1 \in 1 .. Len(m) /\ Len(n) # 0
  BY <1>1, <1>2
<1>5. n # <<>>
  BY <1>4, NodeFacts
<1> QED BY <1>2, <1>3, <1>4, <1>5

LEMMA RootLabels ==
    ASSUME NEW t \in Trees
    PROVE  /\ \A k \in Labels(t, <<>>) : k \in Label /\ <<k>> \in DOMAIN t
           /\ \A k \in Label : <<k>> \in DOMAIN t => k \in Labels(t, <<>>)
<1> DEFINE e == <<>>
<1>1. e \in Node /\ Len(e) = 0
  BY NodeFacts
<1>2. \A n \in DOMAIN t : n \in Node
  BY TreeFacts
<1> HIDE DEF e
<1>3. ASSUME NEW k \in Labels(t, e) PROVE k \in Label /\ <<k>> \in DOMAIN t
  <2>1. PICK n \in DOMAIN t : Len(n) = Len(e) + 1 /\ k = n[Len(n)]
    BY <1>3 DEF Labels, Children, Last
  <2>2. Len(n) = 1 /\ k = n[1] /\ n \in Node
    BY <1>1, <1>2, <2>1
  <2>3. n # <<>> /\ n = <<n[1]>>
    BY <2>2, NodeFacts
  <2> QED BY <2>1, <2>2, <2>3, NodeFacts
<1>4. ASSUME NEW k \in Label, <<k>> \in DOMAIN t PROVE k \in Labels(t, e)
  <2> DEFINE n == <<k>>
  <2>1. n \in DOMAIN t /\ Len(n) = 1 /\ n[1] = k /\ n \in Node
    BY <1>4, NodeFacts
  <2> HIDE DEF n
  <2>2. IsPrefix(e, n)
    BY <2>1, PrefixOrder DEF e, Node
  <2>3. n \in Children(t, e) /\ Last(n) = k
    BY <1>1, <2>1, <2>2 DEF Children, Last
  <2> QED BY <2>3 DEF Labels
<1> QED BY <1>3, <1>4 DEF e

(* What the three ways of changing a tree leave alone.                     *)
SameAt(t, u, n) == (n \in DOMAIN u <=> n \in DOMAIN t) /\ (n \in DOMAIN t => u[n] = t[n])

LEMMA SetFacts ==
    ASSUME NEW t \in Trees, NEW m \in DOMAIN t, NEW v \in Content
    PROVE  LET u == SetValue(t, m, v) IN
           /\ u \in Trees /\ DOMAIN u = DOMAIN t /\ u[m] = v
           /\ \A n : n # m => SameAt(t, u, n)
<1> DEFINE u == SetValue(t, m, v)
<1>1. DOMAIN u = DOMAIN t /\ u[m] = v /\ \A n \in DOMAIN t : n # m => u[n] = t[n]
  BY DEF SetValue
<1>2. u = [n \in DOMAIN t |-> u[n]]
  BY DEF SetValue
<1> HIDE DEF u
<1>3. u \in Trees
  <2>1. DOMAIN t \subseteq Node /\ <<>> \in DOMAIN t /\ \A n \in DOMAIN t : u[n] \in Content
    BY <1>1, TreeFacts
  <2> QED BY <1>2, <2>1, TreeMade
<1>4. \A n : n # m => SameAt(t, u, n)
  BY <1>1 DEF SameAt
<1> QED BY <1>1, <1>3, <1>4 DEF u

LEMMA PutFacts ==
    ASSUME NEW t \in Trees, NEW m \in Node, m # <<>>, NEW v \in Content
    PROVE  LET u == Put(t, m, v) IN
           /\ u \in Trees /\ m \in DOMAIN u /\ u[m] = v
           /\ \A n \in DOMAIN u : n # m => n \in DOMAIN t /\ u[n] = t[n]
           /\ \A n \in Node : ~IsPrefix(m, n) => SameAt(t, u, n)
<1> DEFINE kept == DOMAIN t \ Below(t, m)
           D == kept \cup {m}
           u == Put(t, m, v)
<1>1. u = [n \in D |-> IF n = m THEN v ELSE t[n]]
  BY DEF Put
<1>2. \A n : n \in kept <=> n \in DOMAIN t /\ ~IsPrefix(m, n)
  BY DEF Below
<1>3. ~IsPrefix(m, <<>>)
  BY NodePrefix, NodeFacts
<1> HIDE DEF kept, u
<1>4. DOMAIN u = D /\ u = [n \in D |-> u[n]] /\ u[m] = v /\ \A n \in kept : n # m => u[n] = t[n]
  BY <1>1
<1>5. IsPrefix(m, m)
  BY PrefixOrder DEF Node
<1>6. u \in Trees
  <2>1. D \subseteq Node /\ <<>> \in D
    BY <1>2, <1>3, TreeFacts
  <2>2. \A n \in D : u[n] \in Content
    BY <1>2, <1>4, TreeFacts
  <2> HIDE DEF D
  <2> QED BY <1>4, <2>1, <2>2, TreeMade
<1>7. ASSUME NEW n \in Node, ~IsPrefix(m, n) PROVE SameAt(t, u, n)
  BY <1>2, <1>4, <1>5, <1>7 DEF SameAt
<1> QED BY <1>2, <1>4, <1>6, <1>7 DEF u

LEMMA SplitFacts ==
    ASSUME NEW t \in Trees, NEW node \in Node, NEW path \in Label, NEW k \in Label,
           IsPrefix(path, k), path # k, NEW v \in Content
    PROVE  LET u == Split(t, node, path, k, v)
               new == Append(node, path)
               old == Append(node, k) IN
           /\ u \in Trees /\ new \in DOMAIN u /\ u[new] = v
           /\ \A n \in DOMAIN u : n \in DOMAIN t \/ IsPrefix(new, n)
           /\ \A n \in Node : ~IsPrefix(new, n) /\ ~IsPrefix(old, n) => SameAt(t, u, n)
<1> DEFINE new == Append(node, path)
           old == Append(node, k)
           rest == Append(new, Rest(k, path))
           clear == Put(t, new, v)
           moved == Below(clear, old)
           to(n) == rest \o SubSeq(n, Len(old) + 1, Len(n))
           kept == DOMAIN clear \ moved
           D == kept \cup (IF moved = {} THEN {rest} ELSE {to(m) : m \in moved})
           u == Split(t, node, path, k, v)
<1>1. u = [n \in D |-> IF n \in kept THEN clear[n]
                       ELSE IF moved = {} THEN NilNode ELSE clear[CHOOSE m \in moved : to(m) = n]]
  BY DEF Split
<1>2. new \in Node /\ old \in Node /\ new # <<>> /\ old # <<>> /\ Len(new) = Len(old) /\ new # old
  <2>1. new \in Node /\ new # <<>> /\ Len(new) = Len(node) + 1 /\ new[Len(node) + 1] = path
    BY AppendNode
  <2>2. old \in Node /\ old # <<>> /\ Len(old) = Len(node) + 1 /\ old[Len(node) + 1] = k
    BY AppendNode
  <2> HIDE DEF new, old
  <2> QED BY <2>1, <2>2
<1>3. rest \in Node /\ IsPrefix(new, rest)
  <2>1. Rest(k, path) \in Label
    BY RestFacts DEF Label
  <2> HIDE DEF new
  <2> QED BY <1>2, <2>1, AppendNode
<1>4. /\ clear \in Trees /\ new \in DOMAIN clear /\ clear[new] = v
      /\ \A n \in DOMAIN clear : n # new => n \in DOMAIN t /\ clear[n] = t[n]
      /\ \A n \in Node : ~IsPrefix(new, n) => SameAt(t, clear, n)
  <2> HIDE DEF new
  <2> QED BY <1>2, PutFacts
<1>5. \A n : n \in moved <=> n \in DOMAIN clear /\ IsPrefix(old, n)
  BY DEF Below
<1> HIDE DEF new, old, rest, clear, moved, u
<1>6. ASSUME NEW m \in Node PROVE to(m) \in Node /\ IsPrefix(new, to(m))
  <2> DEFINE tail == SubSeq(m, Len(old) + 1, Len(m))
  <2>1. Len(old) + 1 \in Nat /\ Len(old) + 1 >= 1 /\ Len(m) \in Nat
    BY <1>2, NodeFacts
  <2>2. tail \in Node
    BY <2>1 DEF Node
  <2> HIDE DEF tail
  <2>3. rest \o tail \in Node /\ IsPrefix(rest, rest \o tail)
    BY <1>3, <2>2, PrefixJoin DEF Node
  <2>4. IsPrefix(new, rest \o tail)
    <3> DEFINE w == rest \o tail
    <3>1. w \in Node /\ IsPrefix(rest, w)
      BY <2>3
    <3> HIDE DEF w
    <3>2. IsPrefix(new, w)
      BY <1>2, <1>3, <3>1, PrefixOrder DEF Node
    <3> QED BY <3>2 DEF w
  <2> QED BY <2>3, <2>4 DEF tail
<1>7. \A n \in DOMAIN clear : n \in Node /\ clear[n] \in Content
  BY <1>4, TreeFacts
<1>8. \A n \in D : n \in kept \/ n = rest \/ \E m \in moved : n = to(m)
  BY Zenon
<1>9. \A n \in D : n \in Node /\ (n \in kept \/ IsPrefix(new, n))
  <2> SUFFICES ASSUME NEW n \in D PROVE n \in Node /\ (n \in kept \/ IsPrefix(new, n))
    OBVIOUS
  <2>1. CASE n \in kept
    BY <1>7, <2>1
  <2>2. CASE n = rest
    BY <1>3, <2>2
  <2>3. CASE \E m \in moved : n = to(m)
    <3>1. PICK m \in moved : n = to(m)
      BY <2>3
    <3>2. m \in Node
      BY <1>5, <1>7, <3>1
    <3> QED BY <1>6, <3>1, <3>2
  <2> QED BY <1>8, <2>1, <2>2, <2>3
<1>10. ~IsPrefix(old, <<>>) /\ ~IsPrefix(old, new) /\ ~IsPrefix(new, <<>>)
  BY <1>2, NodePrefix, NodeFacts
<1>11. new \in kept /\ <<>> \in kept
  BY <1>4, <1>5, <1>10, TreeFacts
<1>12. DOMAIN u = D /\ u = [n \in D |-> u[n]] /\ \A n \in kept : u[n] = clear[n]
  <2> HIDE DEF D, kept, to
  <2>1. kept \subseteq D
    BY DEF D
  <2> QED BY <1>1, <2>1
<1>13. ASSUME NEW n \in D PROVE u[n] \in Content
  <2>1. CASE n \in kept
    BY <1>7, <1>12, <2>1
  <2>2. CASE n \notin kept /\ moved = {}
    <3>1. u[n] = NilNode
      BY <1>1, <2>2
    <3> QED BY <3>1 DEF Content
  <2>3. CASE n \notin kept /\ moved # {}
    <3> DEFINE c == CHOOSE m \in moved : to(m) = n
    <3>1. \E m \in moved : to(m) = n
      BY <2>3
    <3>2. c \in moved
      BY <3>1
    <3>3. u[n] = clear[c]
      BY <1>1, <2>3
    <3> QED BY <1>5, <1>7, <3>2, <3>3
  <2> QED BY <2>1, <2>2, <2>3
<1>14. u \in Trees
  <2>1. D \subseteq Node /\ <<>> \in D
    BY <1>9, <1>11
  <2> HIDE DEF D
  <2> QED BY <1>12, <1>13, <2>1, TreeMade
<1>15. ASSUME NEW n \in DOMAIN u PROVE n \in DOMAIN t \/ IsPrefix(new, n)
  <2>1. IsPrefix(new, new)
    BY <1>2, PrefixOrder DEF Node
  <2> QED BY <1>4, <1>9, <1>12, <2>1
<1>16. ASSUME NEW n \in Node, ~IsPrefix(new, n), ~IsPrefix(old, n) PROVE SameAt(t, u, n)
  <2>1. SameAt(t, clear, n)
    BY <1>4, <1>16
  <2>2. n \in D <=> n \in kept
    BY <1>9, <1>16
  <2>3. n \in kept <=> n \in DOMAIN clear
    BY <1>5, <1>16
  <2> HIDE DEF D, kept
  <2> QED BY <1>12, <2>1, <2>2, <2>3 DEF SameAt
<1>17. new \in DOMAIN u /\ u[new] = v
  BY <1>4, <1>11, <1>12
<1> QED BY <1>14, <1>15, <1>16, <1>17 DEF u, new, old

(* An insertion may lose its way: a root label that is a proper prefix of  *)
(* the path draws it into a subtree.                                       *)
Drawn(t, p) == \E k \in Labels(t, <<>>) : IsPrefix(k, p) /\ k # p
Stuck(t, p) == Drawn(t, p) \/ (<<p>> \in DOMAIN t /\ t[<<p>>] = NilNode)

(* What an insertion of v at the path p makes of a tree: the root and the  *)
(* labels that p is no prefix of are left alone, no other first label is   *)
(* new, and the value is there when nothing has drawn it away; when no     *)
(* label has to do with p, nothing else changes.                           *)
Takes(t, u, p, v) ==
    /\ u \in Trees /\ SameAt(t, u, <<>>)
    /\ \A n \in DOMAIN u : n # <<>> => n[1] = p \/ \E m \in DOMAIN t : m # <<>> /\ n[1] = m[1]
    /\ \A a \in Label : a # p /\ ~IsPrefix(p, a) => SameAt(t, u, <<a>>)
    /\ ~Drawn(t, p) => <<p>> \in DOMAIN u /\ u[<<p>>] = v
    /\ (\A k \in Labels(t, <<>>) : k # p => ~IsPrefix(k, p) /\ ~IsPrefix(p, k)) =>
         \A n \in DOMAIN u : (n = <<p>> /\ u[n] = v) \/ (n \in DOMAIN t /\ u[n] = t[n])

LEMMA SinglePrefix ==
    ASSUME NEW a \in Label, NEW b \in Label PROVE IsPrefix(<<a>>, <<b>>) => a = b
<1> DEFINE m == <<a>>
           n == <<b>>
<1>1. m \in Node /\ n \in Node /\ m # <<>> /\ m[1] = a /\ n[1] = b
  BY NodeFacts
<1> HIDE DEF m, n
<1>2. IsPrefix(m, n) => a = b
  BY <1>1, NodePrefix
<1> QED BY <1>2 DEF m, n

LEMMA TakesSet ==
    ASSUME NEW t \in Trees, NEW p \in Label, <<p>> \in DOMAIN t, NEW v \in Content
    PROVE  Takes(t, SetValue(t, <<p>>, v), p, v)
<1> DEFINE m == <<p>>
           u == SetValue(t, m, v)
<1>1. m \in DOMAIN t /\ m # <<>> /\ m[1] = p /\ \A a \in Label : a # p => <<a>> # m
  BY NodeFacts
<1> HIDE DEF m
<1>2. u \in Trees /\ DOMAIN u = DOMAIN t /\ u[m] = v /\ \A n : n # m => SameAt(t, u, n)
  BY <1>1, SetFacts
<1> HIDE DEF u
<1>3. SameAt(t, u, <<>>)
  BY <1>1, <1>2
<1>4. \A n \in DOMAIN u : n # <<>> => n[1] = p \/ \E k \in DOMAIN t : k # <<>> /\ n[1] = k[1]
  BY <1>2
<1>5. \A a \in Label : a # p /\ ~IsPrefix(p, a) => SameAt(t, u, <<a>>)
  BY <1>1, <1>2
<1>6. \A n \in DOMAIN u : (n = m /\ u[n] = v) \/ (n \in DOMAIN t /\ u[n] = t[n])
  BY <1>2 DEF SameAt
<1>7. Takes(t, u, p, v)
  BY <1>1, <1>2, <1>3, <1>4, <1>5, <1>6 DEF Takes, m
<1> QED BY <1>7 DEF u, m

LEMMA TakesPut ==
    ASSUME NEW t \in Trees, NEW p \in Label, NEW v \in Content
    PROVE  Takes(t, Put(t, <<p>>, v), p, v)
<1> DEFINE m == <<p>>
           u == Put(t, m, v)
<1>1. m \in Node /\ m # <<>> /\ m[1] = p
  BY NodeFacts
<1>a. \A a \in Label : a # p => ~IsPrefix(m, <<a>>)
  BY SinglePrefix
<1> HIDE DEF m
<1>2. /\ u \in Trees /\ m \in DOMAIN u /\ u[m] = v
      /\ \A n \in DOMAIN u : n # m => n \in DOMAIN t /\ u[n] = t[n]
      /\ \A n \in Node : ~IsPrefix(m, n) => SameAt(t, u, n)
  BY <1>1, PutFacts
<1> HIDE DEF u
<1>3. SameAt(t, u, <<>>)
  <2>1. ~IsPrefix(m, <<>>)
    BY <1>1, NodePrefix, NodeFacts
  <2> QED BY <1>2, <2>1, NodeFacts
<1>4. \A n \in DOMAIN u : n # <<>> => n[1] = p \/ \E k \in DOMAIN t : k # <<>> /\ n[1] = k[1]
  BY <1>1, <1>2
<1>5. \A a \in Label : a # p /\ ~IsPrefix(p, a) => SameAt(t, u, <<a>>)
  BY <1>a, <1>2, NodeFacts
<1>6. \A n \in DOMAIN u : (n = m /\ u[n] = v) \/ (n \in DOMAIN t /\ u[n] = t[n])
  BY <1>2
<1>7. Takes(t, u, p, v)
  BY <1>2, <1>3, <1>4, <1>5, <1>6 DEF Takes, m
<1> QED BY <1>7 DEF u, m

LEMMA TakesSplit ==
    ASSUME NEW t \in Trees, NEW p \in Label, NEW k \in Labels(t, <<>>), IsPrefix(p, k), p # k, NEW v \in Content
    PROVE  Takes(t, Split(t, <<>>, p, k, v), p, v)
<1> DEFINE root == <<>>
           new == Append(root, p)
           old == Append(root, k)
           u == Split(t, root, p, k, v)
<1>1. k \in Label /\ root \in Node
  BY RootLabels, NodeFacts
<1>2. new = <<p>> /\ old = <<k>> /\ new \in Node /\ old \in Node /\ new # <<>> /\ old # <<>> /\ new[1] = p
  BY <1>1, NodeFacts
<1>3. \A a \in Label : (a # p => ~IsPrefix(new, <<a>>)) /\ (a # k => ~IsPrefix(old, <<a>>))
  BY <1>1, <1>2, SinglePrefix
<1>4. /\ u \in Trees /\ new \in DOMAIN u /\ u[new] = v
      /\ \A n \in DOMAIN u : n \in DOMAIN t \/ IsPrefix(new, n)
      /\ \A n \in Node : ~IsPrefix(new, n) /\ ~IsPrefix(old, n) => SameAt(t, u, n)
  <2> HIDE DEF root
  <2> QED BY <1>1, SplitFacts
<1> HIDE DEF u, new, old
<1>5. SameAt(t, u, <<>>)
  <2>1. ~IsPrefix(new, <<>>) /\ ~IsPrefix(old, <<>>)
    BY <1>2, NodePrefix, NodeFacts
  <2> QED BY <1>4, <2>1, NodeFacts
<1>6. ASSUME NEW n \in DOMAIN u, n # <<>> PROVE n[1] = p \/ \E m \in DOMAIN t : m # <<>> /\ n[1] = m[1]
  <2>1. n \in Node
    BY <1>4, TreeFacts
  <2>2. CASE n \in DOMAIN t
    BY <1>6, <2>2
  <2>3. CASE IsPrefix(new, n)
    BY <1>2, <2>1, <2>3, NodePrefix
  <2> QED BY <1>4, <2>2, <2>3
<1>7. ASSUME NEW a \in Label, a # p, ~IsPrefix(p, a) PROVE SameAt(t, u, <<a>>)
  <2>1. a # k /\ <<a>> \in Node
    BY <1>7, NodeFacts
  <2> QED BY <1>3, <1>4, <1>7, <2>1
<1>8. ~(\A j \in Labels(t, <<>>) : j # p => ~IsPrefix(j, p) /\ ~IsPrefix(p, j))
  OBVIOUS
<1>9. Takes(t, u, p, v)
  BY <1>2, <1>4, <1>5, <1>6, <1>7, <1>8 DEF Takes
<1> QED BY <1>9 DEF u

LEMMA TakesDeep ==
    ASSUME NEW t \in Trees, NEW u \in Trees, NEW p \in Label, NEW v,
           NEW q \in Labels(t, <<>>), IsPrefix(q, p), q # p,
           \A n \in Node : Len(n) <= 1 => SameAt(t, u, n),
           \A n \in DOMAIN u : n \in DOMAIN t \/ n[1] = q
    PROVE  Takes(t, u, p, v)
<1>1. q \in Label /\ <<q>> \in DOMAIN t /\ <<q>> # <<>> /\ <<q>>[1] = q
  BY RootLabels, NodeFacts
<1>2. Drawn(t, p)
  BY DEF Drawn
<1>3. ~(\A k \in Labels(t, <<>>) : k # p => ~IsPrefix(k, p) /\ ~IsPrefix(p, k))
  OBVIOUS
<1>4. SameAt(t, u, <<>>)
  BY NodeFacts
<1>5. ASSUME NEW a \in Label PROVE SameAt(t, u, <<a>>)
  <2>1. <<a>> \in Node /\ Len(<<a>>) <= 1
    BY NodeFacts
  <2> QED BY <2>1
<1>6. \A n \in DOMAIN u : n # <<>> => n[1] = p \/ \E m \in DOMAIN t : m # <<>> /\ n[1] = m[1]
  BY <1>1
<1> QED BY <1>2, <1>3, <1>4, <1>5, <1>6 DEF Takes

(* Below the root a change stays in the subtree that was entered.          *)
LEMMA DeepChanges ==
    ASSUME NEW t \in Trees, NEW node \in Node, node # <<>>, NEW l \in Label, NEW v \in Content, NEW p \in Label,
           node[1] \in Labels(t, <<>>), IsPrefix(node[1], p), node[1] # p
    PROVE  /\ Append(node, l) \in DOMAIN t => Takes(t, SetValue(t, Append(node, l), v), p, v)
           /\ Takes(t, Put(t, Append(node, l), v), p, v)
           /\ \A k \in Label : IsPrefix(l, k) /\ l # k => Takes(t, Split(t, node, l, k, v), p, v)
<1> DEFINE m == Append(node, l)
           q == node[1]
<1>1. m \in Node /\ m # <<>> /\ m[1] = q /\ Len(m) > 1
  BY AppendNode
<1>2. \A x \in Node : x # <<>> /\ Len(x) > 1 => \A n \in Node : Len(n) <= 1 => ~IsPrefix(x, n)
  <2> SUFFICES ASSUME NEW x \in Node, x # <<>>, Len(x) > 1, NEW n \in Node, Len(n) <= 1, IsPrefix(x, n)
               PROVE  FALSE
    OBVIOUS
  <2>1. Len(x) <= Len(n) /\ Len(x) \in Nat /\ Len(n) \in Nat
    BY NodePrefix, NodeFacts
  <2> QED BY <2>1
<1> HIDE DEF m, q
<1>3. ASSUME m \in DOMAIN t PROVE Takes(t, SetValue(t, m, v), p, v)
  <2> DEFINE u == SetValue(t, m, v)
  <2>1. u \in Trees /\ DOMAIN u = DOMAIN t /\ \A n : n # m => SameAt(t, u, n)
    BY <1>3, SetFacts
  <2>2. \A n \in Node : Len(n) <= 1 => n # m
    BY <1>1, NodeFacts
  <2> HIDE DEF u
  <2>3. Takes(t, u, p, v)
    BY <2>1, <2>2, TakesDeep DEF q
  <2> QED BY <2>3 DEF u
<1>4. Takes(t, Put(t, m, v), p, v)
  <2> DEFINE u == Put(t, m, v)
  <2>1. /\ u \in Trees
        /\ \A n \in DOMAIN u : n # m => n \in DOMAIN t /\ u[n] = t[n]
        /\ \A n \in Node : ~IsPrefix(m, n) => SameAt(t, u, n)
    BY <1>1, PutFacts
  <2> HIDE DEF u
  <2>2. \A n \in Node : Len(n) <= 1 => SameAt(t, u, n)
    BY <1>1, <1>2, <2>1
  <2>3. \A n \in DOMAIN u : n \in DOMAIN t \/ n[1] = q
    BY <1>1, <2>1
  <2>4. Takes(t, u, p, v)
    BY <2>1, <2>2, <2>3, TakesDeep DEF q
  <2> QED BY <2>4 DEF u
<1>5. ASSUME NEW k \in Label, IsPrefix(l, k), l # k PROVE Takes(t, Split(t, node, l, k, v), p, v)
  <2> DEFINE u == Split(t, node, l, k, v)
             old == Append(node, k)
  <2>1. /\ u \in Trees
        /\ \A n \in DOMAIN u : n \in DOMAIN t \/ IsPrefix(m, n)
        /\ \A n \in Node : ~IsPrefix(m, n) /\ ~IsPrefix(old, n) => SameAt(t, u, n)
    BY <1>5, SplitFacts DEF m
  <2>2. old \in Node /\ old # <<>> /\ Len(old) > 1
    BY AppendNode
  <2> HIDE DEF u, old
  <2>3. \A n \in Node : Len(n) <= 1 => SameAt(t, u, n)
    BY <1>1, <1>2, <2>1, <2>2
  <2>4. \A n \in DOMAIN u : n \in DOMAIN t \/ n[1] = q
    <3> SUFFICES ASSUME NEW n \in DOMAIN u, IsPrefix(m, n) PROVE n[1] = q
      BY <2>1
    <3>1. n \in Node
      BY <2>1, TreeFacts
    <3> QED BY <1>1, <3>1, NodePrefix
  <2>5. Takes(t, u, p, v)
    BY <2>1, <2>3, <2>4, TakesDeep DEF q
  <2> QED BY <2>5 DEF u
<1> QED BY <1>3, <1>4, <1>5 DEF m

(* The loop of Insert: as long as it is open, the path is still the whole  *)
(* path at the root, or a shorter label has drawn it in.                   *)
Turned(t, p, v, st) ==
    /\ st.state \in {"open", "panic", "done"}
    /\ st.state = "open" =>
         /\ {"state", "node", "path", "nil", "tree"} \subseteq DOMAIN st /\ st.tree = t
         /\ st.node \in Node /\ st.path \in Label /\ st.nil \in BOOLEAN
         /\ st.node = <<>> => st.path = p /\ st.nil = FALSE
         /\ st.node # <<>> => st.node[1] \in Labels(t, <<>>) /\ IsPrefix(st.node[1], p) /\ st.node[1] # p
    /\ st.state = "panic" => Stuck(t, p)
    /\ st.state = "done" => Takes(t, st.tree, p, v)

LEMMA DeepDrawn ==
    ASSUME NEW t, NEW p, NEW v, NEW st, Turned(t, p, v, st), st.state = "open", st.node # <<>>
    PROVE  Drawn(t, p) /\ Stuck(t, p)
  BY DEF Turned, Drawn, Stuck

LEMMA TurnKeeps ==
    ASSUME NEW t \in Trees, NEW p \in Label, NEW v \in Content, NEW st, Turned(t, p, v, st),
           NEW k \in Labels(t, <<>>)
    PROVE  Turned(t, p, v, Turn(v, st, k))
<1> DEFINE child == Append(st.node, k)
           after == Turn(v, st, k)
<1>1. CASE st.state # "open"
  BY <1>1 DEF Turn
<1>2. CASE st.state = "open"
  <2>1. /\ {"state", "node", "path", "nil", "tree"} \subseteq DOMAIN st /\ st.tree = t
        /\ st.node \in Node /\ st.path \in Label /\ st.nil \in BOOLEAN
        /\ st.node = <<>> => st.path = p /\ st.nil = FALSE
        /\ st.node # <<>> => st.node[1] \in Labels(t, <<>>) /\ IsPrefix(st.node[1], p) /\ st.node[1] # p
    BY <1>2 DEF Turned
  <2>2. k \in Label /\ <<k>> \in DOMAIN t /\ st.tree = t
    BY <2>1, RootLabels
  <2>3. child \in Node /\ child # <<>> /\ (st.node # <<>> => child[1] = st.node[1])
        /\ (st.node = <<>> => child = <<k>>)
    <3> DEFINE node == st.node
    <3>1. node \in Node /\ k \in Label
      BY <2>1, <2>2
    <3> HIDE DEF node
    <3>2. Append(node, k) \in Node /\ Append(node, k) # <<>> /\ (node # <<>> => Append(node, k)[1] = node[1])
      BY <3>1, AppendNode
    <3>3. node = <<>> => Append(node, k) = <<k>>
      BY <3>1, NodeFacts
    <3> QED BY <3>2, <3>3 DEF node
  <2>4. st.path \in Seq(Part) /\ k \in Seq(Part)
    BY <2>1, <2>2, NodeFacts
  <2> HIDE DEF child
  <2>5. ASSUME st.nil \/ st.node # <<>>, after = [st EXCEPT !.state = "panic"] PROVE Turned(t, p, v, after)
    <3>1. st.node # <<>>
      BY <2>1, <2>5
    <3>2. Stuck(t, p)
      BY <1>2, <3>1, DeepDrawn
    <3>3. after.state = "panic"
      BY <2>1, <2>5
    <3> QED BY <3>2, <3>3 DEF Turned
  <2>6. CASE IsPrefix(k, st.path) /\ (st.nil \/ (Rest(st.path, k) = <<>> /\ Missing(st.tree, child)))
    <3>1. after = [st EXCEPT !.state = "panic"]
      BY <1>2, <2>6 DEF Turn, child
    <3>2. CASE st.nil \/ st.node # <<>>
      BY <2>5, <3>1, <3>2
    <3>3. CASE ~st.nil /\ st.node = <<>>
      <4>1. Rest(st.path, k) = <<>> /\ Missing(t, <<k>>) /\ st.path = p
        BY <2>1, <2>2, <2>3, <2>6, <3>3
      <4>2. k = p
        BY <2>4, <2>6, <4>1, RestFacts
      <4>3. Stuck(t, p)
        BY <2>2, <4>1, <4>2 DEF Missing, Stuck
      <4>4. after.state = "panic"
        BY <2>1, <3>1
      <4> QED BY <4>3, <4>4 DEF Turned
    <3> QED BY <3>2, <3>3
  <2>7. CASE IsPrefix(k, st.path) /\ ~st.nil /\ Rest(st.path, k) = <<>> /\ ~Missing(st.tree, child)
    <3>1. after = [st EXCEPT !.state = "done", !.tree = SetValue(@, child, v)]
      BY <1>2, <2>7 DEF Turn, child
    <3>2. after.state = "done" /\ after.tree = SetValue(t, child, v)
      BY <2>1, <3>1
    <3>3. child \in DOMAIN t
      BY <2>2, <2>7 DEF Missing
    <3>4. Takes(t, SetValue(t, child, v), p, v)
      <4>1. CASE st.node = <<>>
        <5>1. k = st.path
          BY <2>4, <2>7, RestFacts
        <5>2. child = <<p>>
          BY <2>1, <2>3, <4>1, <5>1
        <5> QED BY <3>3, <5>2, TakesSet
      <4>2. CASE st.node # <<>>
        BY <2>1, <2>2, <3>3, <4>2, DeepChanges DEF child
      <4> QED BY <4>1, <4>2
    <3> QED BY <3>2, <3>4 DEF Turned
  <2>8. CASE IsPrefix(k, st.path) /\ ~st.nil /\ Rest(st.path, k) # <<>>
    <3>1. after = [st EXCEPT !.node = child, !.nil = Missing(st.tree, child), !.path = Rest(@, k)]
      BY <1>2, <2>8 DEF Turn, child
    <3>2. /\ {"state", "node", "path", "nil", "tree"} \subseteq DOMAIN after /\ after.tree = t
          /\ after.state = "open" /\ after.node = child /\ after.path = Rest(st.path, k)
          /\ after.nil = Missing(t, child)
      <4> DEFINE b == Missing(t, child)
                 r == Rest(st.path, k)
      <4>1. after = [st EXCEPT !.node = child, !.nil = b, !.path = r]
        BY <2>2, <3>1
      <4> HIDE DEF b, r, after
      <4>2. DOMAIN after = DOMAIN st
        BY <4>1
      <4>3. after.tree = st.tree /\ after.state = st.state /\ after.node = child /\ after.path = r /\ after.nil = b
        BY <2>1, <4>1
      <4> QED BY <1>2, <2>1, <4>2, <4>3 DEF b, r
    <3>3. Rest(st.path, k) \in Label /\ k # st.path
      BY <2>4, <2>8, RestFacts DEF Label
    <3>4. child[1] \in Labels(t, <<>>) /\ IsPrefix(child[1], p) /\ child[1] # p
      <4>1. CASE st.node = <<>>
        <5>1. child[1] = k
          BY <2>2, <2>3, <4>1, NodeFacts
        <5> QED BY <2>1, <2>8, <3>3, <4>1, <5>1
      <4>2. CASE st.node # <<>>
        BY <2>1, <2>3, <4>2
      <4> QED BY <4>1, <4>2
    <3>5. Missing(t, child) \in BOOLEAN
      BY DEF Missing
    <3> HIDE DEF after
    <3>6. /\ after.node \in Node /\ after.path \in Label /\ after.nil \in BOOLEAN /\ after.node # <<>>
          /\ after.node[1] \in Labels(t, <<>>) /\ IsPrefix(after.node[1], p) /\ after.node[1] # p
      BY <2>3, <3>2, <3>3, <3>4, <3>5, Zenon
    <3>7. after.state \in {"open", "panic", "done"} /\ after.state # "panic" /\ after.state # "done"
      BY <3>2
    <3>8. /\ after.node = <<>> => after.path = p /\ after.nil = FALSE
          /\ after.node # <<>> =>
               after.node[1] \in Labels(t, <<>>) /\ IsPrefix(after.node[1], p) /\ after.node[1] # p
      BY <3>6, Zenon
    <3>9. {"state", "node", "path", "nil", "tree"} \subseteq DOMAIN after /\ after.tree = t
      BY <3>2, Zenon
    <3>10. Turned(t, p, v, after)
      BY <3>6, <3>7, <3>8, <3>9 DEF Turned
    <3> QED BY <3>10 DEF after
  <2>9. CASE ~IsPrefix(k, st.path) /\ IsPrefix(st.path, k) /\ st.nil
    <3>1. after = [st EXCEPT !.state = "panic"]
      BY <1>2, <2>9 DEF Turn, child
    <3> QED BY <2>5, <2>9, <3>1
  <2>10. CASE ~IsPrefix(k, st.path) /\ IsPrefix(st.path, k) /\ ~st.nil
    <3>1. after = [st EXCEPT !.state = "done", !.tree = Split(@, st.node, st.path, k, v)]
      BY <1>2, <2>10 DEF Turn, child
    <3>2. after.state = "done" /\ after.tree = Split(t, st.node, st.path, k, v)
      BY <2>1, <3>1
    <3>3. st.path # k
      <4>1. IsPrefix(k, k)
        BY <2>4, PrefixOrder
      <4> QED BY <2>10, <4>1
    <3>4. Takes(t, Split(t, st.node, st.path, k, v), p, v)
      <4>1. CASE st.node = <<>>
        BY <2>1, <2>10, <3>3, <4>1, TakesSplit
      <4>2. CASE st.node # <<>>
        BY <2>1, <2>2, <2>10, <3>3, <4>2, DeepChanges
      <4> QED BY <4>1, <4>2
    <3> QED BY <3>2, <3>4 DEF Turned
  <2>11. CASE ~IsPrefix(k, st.path) /\ ~IsPrefix(st.path, k)
    BY <1>2, <2>11 DEF Turn
  <2> QED BY <2>1, <2>6, <2>7, <2>8, <2>9, <2>10, <2>11
<1> QED BY <1>1, <1>2

LoopStart(t, p) == [state |-> "open", node |-> <<>>, path |-> p, nil |-> FALSE, tree |-> t]

LEMMA LoopBySteps ==
    ASSUME NEW t, NEW p, NEW v, NEW order, Len(order) \in Nat
    PROVE  \E f : /\ \A i \in 0 .. Len(order) : f[i] = IF i = 0 THEN LoopStart(t, p) ELSE Turn(v, f[i - 1], order[i])
                  /\ Inserted(t, p, v, order) =
                       CASE f[Len(order)].state = "done" -> Ok(f[Len(order)].tree)
                         [] f[Len(order)].state = "open" /\ ~f[Len(order)].nil ->
                              Ok(Put(t, Append(f[Len(order)].node, f[Len(order)].path), v))
                         [] OTHER -> Panics(t)
<1> DEFINE Upto(m, f) == f = [i \in 0 .. m |-> IF i = 0 THEN LoopStart(t, p) ELSE Turn(v, f[i - 1], order[i])]
           P == {m \in Nat : \E f : Upto(m, f)}
           loop == CHOOSE f : Upto(Len(order), f)
<1>1. 0 \in P
  <2> DEFINE f == [i \in 0 .. 0 |-> LoopStart(t, p)]
  <2>1. Upto(0, f)
    OBVIOUS
  <2> QED BY <2>1
<1>2. ASSUME NEW m \in Nat, m \in P PROVE m + 1 \in P
  <2>1. PICK f : Upto(m, f)
    BY <1>2
  <2> DEFINE g == [i \in 0 .. (m + 1) |-> IF i = m + 1 THEN Turn(v, f[m], order[m + 1]) ELSE f[i]]
  <2>2. ASSUME NEW i \in 0 .. (m + 1)
        PROVE  g[i] = IF i = 0 THEN LoopStart(t, p) ELSE Turn(v, g[i - 1], order[i])
    <3>1. CASE i = 0
      BY <2>1, <3>1
    <3>2. CASE i # 0
      <4>1. i - 1 \in 0 .. m /\ g[i - 1] = f[i - 1]
        BY <3>2
      <4>2. CASE i = m + 1
        BY <3>2, <4>1, <4>2
      <4>3. CASE i # m + 1
        <5>1. i \in 0 .. m /\ g[i] = f[i]
          BY <4>3
        <5> QED BY <2>1, <3>2, <4>1, <5>1
      <4> QED BY <4>2, <4>3
    <3> QED BY <3>1, <3>2
  <2>3. Upto(m + 1, g)
    <3>1. g = [i \in 0 .. (m + 1) |-> g[i]]
      OBVIOUS
    <3> HIDE DEF g
    <3> QED BY <2>2, <3>1
  <2> HIDE DEF Upto
  <2> QED BY <2>3
<1>3. Len(order) \in P
  <2>1. Nat \subseteq P
    <3> HIDE DEF P
    <3> QED BY <1>1, <1>2, SetInduction
  <2> QED BY <2>1
<1>4. Upto(Len(order), loop)
  <2> HIDE DEF Upto
  <2> QED BY <1>3
<1>5. Inserted(t, p, v, order) =
        CASE loop[Len(order)].state = "done" -> Ok(loop[Len(order)].tree)
          [] loop[Len(order)].state = "open" /\ ~loop[Len(order)].nil ->
               Ok(Put(t, Append(loop[Len(order)].node, loop[Len(order)].path), v))
          [] OTHER -> Panics(t)
  BY DEF Inserted, LoopStart
<1> HIDE DEF loop
<1>6. \A i \in 0 .. Len(order) : loop[i] = IF i = 0 THEN LoopStart(t, p) ELSE Turn(v, loop[i - 1], order[i])
  BY <1>4
<1> QED BY <1>5, <1>6

(* An outcome of an operation.                                             *)
Outcome(out) == out = [ok |-> out.ok, tree |-> out.tree] /\ out.ok \in BOOLEAN

LEMMA OutcomeMade ==
    ASSUME NEW t
    PROVE  /\ Outcome(Ok(t)) /\ Ok(t).ok = TRUE /\ Ok(t).tree = t
           /\ Outcome(Panics(t)) /\ Panics(t).ok = FALSE /\ Panics(t).tree = t
  BY DEF Outcome, Ok, Panics

LEMMA InsertedFacts ==
    ASSUME NEW t \in Trees, NEW p \in Label, NEW v \in Content,
           NEW n \in Nat, NEW order \in [1 .. n -> Labels(t, <<>>)]
    PROVE  LET out == Inserted(t, p, v, order) IN
           Outcome(out) /\ (out.ok => Takes(t, out.tree, p, v)) /\ (~out.ok => Stuck(t, p))
<1>1. Len(order) = n /\ Len(order) \in Nat
  OBVIOUS
<1>2. PICK f : /\ \A i \in 0 .. Len(order) : f[i] = IF i = 0 THEN LoopStart(t, p) ELSE Turn(v, f[i - 1], order[i])
               /\ Inserted(t, p, v, order) =
                    CASE f[Len(order)].state = "done" -> Ok(f[Len(order)].tree)
                      [] f[Len(order)].state = "open" /\ ~f[Len(order)].nil ->
                           Ok(Put(t, Append(f[Len(order)].node, f[Len(order)].path), v))
                      [] OTHER -> Panics(t)
  BY <1>1, LoopBySteps
<1> DEFINE P == {m \in Nat : m <= n => Turned(t, p, v, f[m])}
           st == f[n]
           out == Inserted(t, p, v, order)
<1>3. 0 \in P
  <2>1. f[0] = LoopStart(t, p)
    BY <1>1, <1>2
  <2>2. Turned(t, p, v, LoopStart(t, p))
    <3> DEFINE s == LoopStart(t, p)
    <3>1. /\ s.state = "open" /\ s.node = <<>> /\ s.path = p /\ s.nil = FALSE /\ s.tree = t
          /\ DOMAIN s = {"state", "node", "path", "nil", "tree"}
      BY DEF LoopStart
    <3> HIDE DEF s
    <3>2. Turned(t, p, v, s)
      BY <3>1, NodeFacts DEF Turned
    <3> QED BY <3>2 DEF s
  <2> QED BY <2>1, <2>2
<1>4. ASSUME NEW m \in Nat, m \in P PROVE m + 1 \in P
  <2> SUFFICES ASSUME m + 1 <= n PROVE Turned(t, p, v, f[m + 1])
    OBVIOUS
  <2>1. m + 1 \in 0 .. Len(order) /\ m + 1 # 0 /\ (m + 1) - 1 = m /\ m + 1 \in 1 .. n /\ m <= n
    BY <1>1
  <2>2. f[m + 1] = Turn(v, f[m], order[m + 1])
    BY <1>2, <2>1
  <2>3. Turned(t, p, v, f[m]) /\ order[m + 1] \in Labels(t, <<>>)
    BY <1>4, <2>1
  <2> QED BY <2>2, <2>3, TurnKeeps
<1>5. Turned(t, p, v, st)
  <2>1. Nat \subseteq P
    <3> HIDE DEF P
    <3> QED BY <1>3, <1>4, SetInduction
  <2> QED BY <2>1
<1> HIDE DEF st
<1>6. out = CASE st.state = "done" -> Ok(st.tree)
              [] st.state = "open" /\ ~st.nil -> Ok(Put(t, Append(st.node, st.path), v))
              [] OTHER -> Panics(t)
  BY <1>1, <1>2 DEF st
<1> HIDE DEF out
<1>7. CASE st.state = "done"
  <2>1. out = Ok(st.tree)
    BY <1>6, <1>7
  <2>2. Takes(t, st.tree, p, v)
    BY <1>5, <1>7 DEF Turned
  <2> QED BY <2>1, <2>2, OutcomeMade DEF out
<1>8. CASE st.state = "open" /\ ~st.nil
  <2>1. out = Ok(Put(t, Append(st.node, st.path), v))
    BY <1>6, <1>8
  <2>2. Takes(t, Put(t, Append(st.node, st.path), v), p, v)
    <3>1. CASE st.node = <<>>
      <4>1. st.path = p /\ Append(<<>>, p) = <<p>>
        BY <1>5, <1>8, <3>1, NodeFacts DEF Turned
      <4> QED BY <3>1, <4>1, TakesPut
    <3>2. CASE st.node # <<>>
      <4>1. /\ st.node \in Node /\ st.path \in Label
            /\ st.node[1] \in Labels(t, <<>>) /\ IsPrefix(st.node[1], p) /\ st.node[1] # p
        BY <1>5, <1>8, <3>2 DEF Turned
      <4> QED BY <3>2, <4>1, DeepChanges
    <3> QED BY <3>1, <3>2
  <2> QED BY <2>1, <2>2, OutcomeMade DEF out
<1>9. CASE ~(st.state = "done") /\ ~(st.state = "open" /\ ~st.nil)
  <2>1. out = Panics(t)
    BY <1>6, <1>9
  <2>2. Stuck(t, p)
    <3>1. CASE st.state = "panic"
      BY <1>5, <3>1 DEF Turned
    <3>2. CASE st.state = "open" /\ st.nil
      <4>1. st.node # <<>>
        BY <1>5, <3>2 DEF Turned
      <4> QED BY <1>5, <3>2, <4>1, DeepDrawn
    <3> QED BY <1>5, <1>9, <3>1, <3>2 DEF Turned
  <2> QED BY <2>1, <2>2, OutcomeMade DEF out
<1> QED BY <1>7, <1>8, <1>9

(* What is kept of the writes.  T are the addresses ever written, W the    *)
(* last write to each one that was not deleted since.  An address is clear *)
(* when no other one ever written is a prefix of it; its value is at its   *)
(* own node, at the root.  As long as all are clear the tree is flat and   *)
(* has no nil nodes.                                                       *)
ValueAt(f, x) == IF x \in DOMAIN f THEN f[x] ELSE Nothing
NodeOf(a) == IF a = <<>> THEN <<>> ELSE <<a>>
Clear(T, a) == \A b \in T : b # a => ~IsPrefix(b, a)

Logged(T, W) ==
    /\ T \subseteq Seq(Part) /\ IsFiniteSet(T)
    /\ DOMAIN W \subseteq T /\ \A a \in DOMAIN W : W[a] \in Writable

Kept(t, T, W) ==
    /\ t \in Trees /\ t[<<>>] # NilNode
    /\ \A n \in DOMAIN t : n # <<>> => n[1] \in T
    /\ \A a \in T : Clear(T, a) => ValueAt(t, NodeOf(a)) = ValueAt(W, a)
    /\ (\A a \in T : Clear(T, a)) => \A n \in DOMAIN t : Len(n) <= 1 /\ t[n] # NilNode

LEMMA ContentFacts ==
    /\ Nothing \in Content /\ Nothing # NilNode
    /\ \A v \in Writable : v \in Content /\ v # Nothing /\ v # NilNode
  BY AddressesAssumption DEF Content, Writable

LEMMA LoggedFacts ==
    ASSUME NEW T, NEW W, Logged(T, W), NEW a
    PROVE  ValueAt(W, a) # NilNode /\ (ValueAt(W, a) # Nothing <=> a \in DOMAIN W)
  BY ContentFacts DEF Logged, ValueAt

LEMMA RootLabelsKept ==
    ASSUME NEW T, NEW W, Logged(T, W), NEW t, Kept(t, T, W)
    PROVE  /\ Labels(t, <<>>) \subseteq T /\ IsFiniteSet(Labels(t, <<>>))
           /\ \A k \in Labels(t, <<>>) : k \in Label /\ <<k>> \in DOMAIN t
<1>1. \A k \in Labels(t, <<>>) : k \in Label /\ <<k>> \in DOMAIN t
  BY RootLabels DEF Kept
<1>2. \A k \in Labels(t, <<>>) : k \in T
  BY <1>1, NodeFacts DEF Kept
<1> QED BY <1>1, <1>2, FS_Subset DEF Logged

LEMMA SameValue == ASSUME NEW t, NEW u, NEW n, SameAt(t, u, n) PROVE ValueAt(u, n) = ValueAt(t, n)
  BY DEF SameAt, ValueAt

LEMMA LoggedGrows ==
    ASSUME NEW T, NEW W, Logged(T, W), NEW p \in Seq(Part), NEW v \in Writable
    PROVE  Logged(T \cup {p}, Overwritten(W, {p}, v))
<1> DEFINE X == Overwritten(W, {p}, v)
<1>1. DOMAIN X = DOMAIN W \cup {p} /\ \A a \in DOMAIN X : X[a] = IF a \in {p} THEN v ELSE W[a]
  BY DEF Overwritten
<1> HIDE DEF X
<1>2. IsFiniteSet(T \cup {p})
  BY FS_AddElement DEF Logged
<1>3. Logged(T \cup {p}, X)
  BY <1>1, <1>2 DEF Logged
<1> QED BY <1>3 DEF X

(* A write keeps them.                                                     *)
LEMMA TakesKeeps ==
    ASSUME NEW T, NEW W, Logged(T, W), NEW t, Kept(t, T, W), NEW p \in Label, NEW v \in Writable,
           NEW u, Takes(t, u, p, v)
    PROVE  Kept(u, T \cup {p}, Overwritten(W, {p}, v))
<1> DEFINE S == T \cup {p}
           X == Overwritten(W, {p}, v)
<1>1. DOMAIN X = DOMAIN W \cup {p} /\ X[p] = v /\ \A a \in DOMAIN X : a # p => X[a] = W[a]
  BY DEF Overwritten
<1>2. ValueAt(X, p) = v /\ \A a : a # p => ValueAt(X, a) = ValueAt(W, a)
  BY <1>1 DEF ValueAt
<1> HIDE DEF X
<1>3. /\ u \in Trees /\ SameAt(t, u, <<>>)
      /\ \A n \in DOMAIN u : n # <<>> => n[1] = p \/ \E m \in DOMAIN t : m # <<>> /\ n[1] = m[1]
      /\ \A a \in Label : a # p /\ ~IsPrefix(p, a) => SameAt(t, u, <<a>>)
      /\ ~Drawn(t, p) => <<p>> \in DOMAIN u /\ u[<<p>>] = v
      /\ (\A k \in Labels(t, <<>>) : k # p => ~IsPrefix(k, p) /\ ~IsPrefix(p, k)) =>
           \A n \in DOMAIN u : (n = <<p>> /\ u[n] = v) \/ (n \in DOMAIN t /\ u[n] = t[n])
  BY DEF Takes
<1>4. u[<<>>] # NilNode
  BY <1>3, TreeFacts DEF SameAt, Kept
<1>5. \A n \in DOMAIN u : n # <<>> => n[1] \in S
  BY <1>3 DEF Kept
<1>6. p # <<>> /\ p \in Seq(Part) /\ NodeOf(p) = <<p>>
  BY NodeFacts DEF NodeOf
<1>7. \A a \in S : Clear(S, a) /\ a # p => Clear(T, a) /\ ~IsPrefix(p, a)
  BY DEF Clear
<1>8. Clear(S, p) => ~Drawn(t, p)
  BY RootLabelsKept DEF Clear, Drawn
<1>9. ASSUME NEW a \in S, Clear(S, a) PROVE ValueAt(u, NodeOf(a)) = ValueAt(X, a)
  <2>1. CASE a = p
    BY <1>2, <1>3, <1>6, <1>8, <1>9, <2>1 DEF ValueAt
  <2>2. CASE a # p
    <3>1. a \in T /\ a \in Seq(Part) /\ Clear(T, a) /\ ~IsPrefix(p, a)
      BY <1>7, <1>9, <2>2 DEF Logged
    <3>2. SameAt(t, u, NodeOf(a))
      <4>1. CASE a = <<>>
        BY <1>3, <4>1 DEF NodeOf
      <4>2. CASE a # <<>>
        <5>1. a \in Label
          BY <3>1, <4>2 DEF Label
        <5> QED BY <1>3, <2>2, <3>1, <4>2, <5>1 DEF NodeOf
      <4> QED BY <4>1, <4>2
    <3>3. ValueAt(u, NodeOf(a)) = ValueAt(t, NodeOf(a))
      BY <3>2, SameValue
    <3> QED BY <1>2, <2>2, <3>1, <3>3 DEF Kept
  <2> QED BY <2>1, <2>2
<1>10. ASSUME \A a \in S : Clear(S, a), NEW n \in DOMAIN u PROVE Len(n) <= 1 /\ u[n] # NilNode
  <2>1. \A a \in T : Clear(T, a)
    BY <1>10 DEF Clear
  <2>2. \A m \in DOMAIN t : Len(m) <= 1 /\ t[m] # NilNode
    BY <2>1 DEF Kept
  <2>3. \A k \in Labels(t, <<>>) : k # p => ~IsPrefix(k, p) /\ ~IsPrefix(p, k)
    BY <1>10, RootLabelsKept DEF Clear
  <2>4. (n = <<p>> /\ u[n] = v) \/ (n \in DOMAIN t /\ u[n] = t[n])
    BY <1>3, <2>3
  <2>5. Len(<<p>>) <= 1 /\ v # NilNode
    BY NodeFacts, ContentFacts
  <2> QED BY <2>2, <2>4, <2>5
<1>11. Kept(u, S, X)
  BY <1>3, <1>4, <1>5, <1>9, <1>10 DEF Kept
<1> QED BY <1>11 DEF X

LEMMA RootWriteKeeps ==
    ASSUME NEW T, NEW W, Logged(T, W), NEW t, Kept(t, T, W), NEW v \in Writable
    PROVE  Kept(SetValue(t, <<>>, v), T \cup {<<>>}, Overwritten(W, {<<>>}, v))
<1> DEFINE p == <<>>
           S == T \cup {p}
           X == Overwritten(W, {p}, v)
           u == SetValue(t, p, v)
<1>1. DOMAIN X = DOMAIN W \cup {p} /\ X[p] = v
  BY DEF Overwritten
<1>2. u \in Trees /\ DOMAIN u = DOMAIN t /\ u[p] = v /\ \A n : n # p => SameAt(t, u, n)
  <2>1. p \in DOMAIN t /\ v \in Content
    BY TreeFacts, ContentFacts DEF Kept
  <2> HIDE DEF p
  <2> QED BY <2>1, SetFacts DEF Kept
<1>3. \A a \in S : Clear(S, a) => a = p
  <2> SUFFICES ASSUME NEW a \in S, a # p PROVE ~Clear(S, a)
    OBVIOUS
  <2>1. a \in Seq(Part)
    BY DEF Logged
  <2>2. IsPrefix(p, a)
    BY <2>1, PrefixOrder
  <2> QED BY <2>2 DEF Clear
<1>4. NodeOf(p) = p
  BY DEF NodeOf
<1> HIDE DEF p, X, u
<1>5. \A a \in S : Clear(S, a) => ValueAt(u, NodeOf(a)) = ValueAt(X, a)
  <2>1. ValueAt(u, p) = v /\ ValueAt(X, p) = v
    BY <1>1, <1>2, TreeFacts DEF ValueAt, Kept, p
  <2> QED BY <1>3, <1>4, <2>1
<1>6. ASSUME \A a \in S : Clear(S, a), NEW n \in DOMAIN u PROVE Len(n) <= 1 /\ u[n] # NilNode
  <2>1. \A a \in T : Clear(T, a)
    BY <1>6 DEF Clear
  <2>2. Len(n) <= 1 /\ t[n] # NilNode
    BY <1>2, <2>1 DEF Kept
  <2>3. u[n] = IF n = p THEN v ELSE t[n]
    BY <1>2 DEF SameAt
  <2> QED BY <2>2, <2>3, ContentFacts
<1>7. u[<<>>] # NilNode /\ \A n \in DOMAIN u : n # <<>> => n[1] \in S
  BY <1>2, ContentFacts DEF Kept, p
<1>8. Kept(u, S, X)
  BY <1>2, <1>5, <1>6, <1>7 DEF Kept
<1> QED BY <1>8 DEF u, X, p

LEMMA InsertKeeps ==
    ASSUME NEW T, NEW W, Logged(T, W), NEW t, Kept(t, T, W), NEW p \in Seq(Part), NEW v \in Writable,
           NEW out \in Insert(t, p, v)
    PROVE  /\ Outcome(out)
           /\ out.ok => Kept(out.tree, T \cup {p}, Overwritten(W, {p}, v))
           /\ ~out.ok => ~Clear(T \cup {p}, p)
<1>1. CASE p = <<>>
  <2>1. out = Ok(SetValue(t, <<>>, v))
    BY <1>1 DEF Insert
  <2>2. Outcome(out) /\ out.ok /\ out.tree = SetValue(t, <<>>, v)
    BY <2>1, OutcomeMade
  <2> QED BY <1>1, <2>2, RootWriteKeeps
<1>2. CASE p # <<>>
  <2>1. PICK order \in Orders(Labels(t, <<>>)) : out = Inserted(t, p, v, order)
    BY <1>2 DEF Insert
  <2>2. p \in Label /\ v \in Content /\ t \in Trees
    BY <1>2, ContentFacts DEF Label, Kept
  <2>3. Cardinality(Labels(t, <<>>)) \in Nat
    BY RootLabelsKept, FS_CardinalityType
  <2>4. order \in [1 .. Cardinality(Labels(t, <<>>)) -> Labels(t, <<>>)]
    BY DEF Orders
  <2> DEFINE n == Cardinality(Labels(t, <<>>))
  <2> HIDE DEF n
  <2>5. n \in Nat /\ order \in [1 .. n -> Labels(t, <<>>)]
    BY <2>3, <2>4 DEF n
  <2>6. Outcome(out) /\ (out.ok => Takes(t, out.tree, p, v)) /\ (~out.ok => Stuck(t, p))
    BY <2>1, <2>2, <2>5, InsertedFacts
  <2>7. Stuck(t, p) => ~Clear(T \cup {p}, p)
    <3> SUFFICES ASSUME Clear(T \cup {p}, p) PROVE ~Stuck(t, p)
      OBVIOUS
    <3>1. ~Drawn(t, p)
      BY RootLabelsKept DEF Clear, Drawn
    <3>2. ASSUME <<p>> \in DOMAIN t PROVE t[<<p>>] # NilNode
      <4>1. p \in T
        BY <2>2, <3>2, RootLabels, RootLabelsKept
      <4>2. Clear(T, p)
        BY DEF Clear
      <4>3. ValueAt(t, <<p>>) = ValueAt(W, p)
        BY <1>2, <4>1, <4>2 DEF Kept, NodeOf
      <4> QED BY <3>2, <4>3, LoggedFacts DEF ValueAt
    <3> QED BY <3>1, <3>2 DEF Stuck
  <2> QED BY <2>2, <2>6, <2>7, TakesKeeps
<1> QED BY <1>1, <1>2

(* A descent to a clear address ends at its own node, or at the root when  *)
(* there is none.                                                          *)
LEMMA FlatFacts ==
    ASSUME NEW n \in Node
    PROVE  /\ Flat(n) \in Seq(Token) /\ (n = <<>> => Flat(n) = <<>>) /\ (Len(n) = 1 => Flat(n) = n[1])
           /\ n # <<>> => IsPrefix(n[1], Flat(n))
           /\ Len(n) > 1 => Len(Flat(n)) > Len(n[1])
<1> DEFINE e == <<>>
<1>1. e \in Seq(Token)
  OBVIOUS
<1> HIDE DEF e
<1>2. /\ Joined(n, e) \in Seq(Token) /\ (n = <<>> => Joined(n, e) = <<>>) /\ (Len(n) = 1 => Joined(n, e) = n[1])
      /\ n # <<>> => IsPrefix(n[1], Joined(n, e))
      /\ Len(n) > 1 => Len(Joined(n, e)) > Len(n[1])
  BY <1>1, JoinedFacts
<1> QED BY <1>2 DEF e, Flat

LEMMA PartPiece == \A a \in Seq(Part) : a \in Seq(Token)
  BY DEF Token

LEMMA DescentWay ==
    ASSUME NEW T, NEW W, Logged(T, W), NEW t, Kept(t, T, W), NEW a \in T, Clear(T, a),
           NEW n \in DOMAIN t, IsPrefix(Flat(n), a)
    PROVE  n = <<>> \/ n = <<a>>
<1> SUFFICES ASSUME n # <<>> PROVE n = <<a>>
  OBVIOUS
<1>1. n \in Node /\ n[1] \in T /\ a \in Seq(Part)
  BY TreeFacts DEF Kept, Logged
<1>2. n[1] \in Label /\ n[1] \in Seq(Token) /\ a \in Seq(Token) /\ Flat(n) \in Seq(Token)
  BY <1>1, NodeFacts, PartPiece, FlatFacts
<1> DEFINE k == n[1]
           w == Flat(n)
<1>3. IsPrefix(k, w) /\ IsPrefix(w, a)
  BY <1>1, FlatFacts
<1>4. (Len(n) = 1 => w = k) /\ (Len(n) > 1 => Len(w) > Len(k))
  BY <1>1, FlatFacts
<1> HIDE DEF w, k
<1>5. IsPrefix(k, a)
  BY <1>2, <1>3, PrefixOrder DEF k, w
<1>6. k = a
  BY <1>1, <1>5 DEF Clear, k
<1>7. k = w
  BY <1>2, <1>3, <1>6, PrefixFacts DEF k, w
<1>8. Len(n) \in Nat /\ Len(n) # 0 /\ ~(Len(n) > 1)
  <2>1. Len(k) \in Nat
    BY <1>2 DEF k
  <2> QED BY <1>1, <1>4, <1>7, <2>1, NodeFacts
<1>9. Len(n) = 1
  <2>1. \A x \in Nat : x # 0 /\ ~(x > 1) => x = 1
    OBVIOUS
  <2> QED BY <1>8, <2>1, Zenon
<1> QED BY <1>1, <1>6, <1>9, NodeFacts DEF k

LEMMA ClearDescent ==
    ASSUME NEW T, NEW W, Logged(T, W), NEW t, Kept(t, T, W), NEW a \in T, Clear(T, a)
    PROVE  DescentEnds(t, a) = IF NodeOf(a) \in DOMAIN t THEN {NodeOf(a)} ELSE {<<>>}
<1>1. a \in Seq(Part) /\ a \in Seq(Token) /\ t \in Trees /\ <<>> \in DOMAIN t
  BY PartPiece, TreeFacts DEF Logged, Kept
<1>2. \A n : n \in DescentEnds(t, a) <=>
            n \in DOMAIN t /\ IsPrefix(Flat(n), a) /\ \A c \in Children(t, n) : ~IsPrefix(Flat(c), a)
  BY DEF DescentEnds
<1>3. \A n \in DescentEnds(t, a) : n = <<>> \/ n = <<a>>
  BY <1>2, DescentWay
<1>4. \A n \in DOMAIN t : \A c \in Children(t, n) : c \in DOMAIN t /\ c \in Node /\ Len(c) = Len(n) + 1
  BY <1>1, TreeFacts DEF Children
<1>5. CASE a = <<>>
  <2>1. \A n \in DescentEnds(t, a) : n = <<>>
    <3> SUFFICES ASSUME <<a>> \in DescentEnds(t, a) PROVE FALSE
      BY <1>3
    <3>1. <<a>> \in Node
      BY <1>1, <1>2, TreeFacts
    <3>2. a \in Label
      <4>1. <<a>> # <<>> /\ <<a>>[1] = a
        OBVIOUS
      <4> QED BY <3>1, <4>1, NodeFacts
    <3> QED BY <1>5, <3>2 DEF Label
  <2>2. IsPrefix(Flat(<<>>), a)
    <3>1. Flat(<<>>) = a
      BY <1>5, FlatFacts, NodeFacts
    <3> QED BY <1>1, <3>1, PrefixOrder
  <2>3. ASSUME NEW c \in Children(t, <<>>), IsPrefix(Flat(c), a) PROVE FALSE
    <3>1. c \in DOMAIN t /\ (c = <<>> \/ c = <<a>>)
      BY <1>1, <1>4, <2>3, DescentWay
    <3>2. c \in Node /\ Len(c) = Len(<<>>) + 1
      BY <1>1, <1>4
    <3>3. c # <<>>
      BY <3>2, NodeFacts
    <3>4. a \in Label
      <4>1. <<a>> # <<>> /\ <<a>>[1] = a
        OBVIOUS
      <4> QED BY <3>1, <3>2, <3>3, <4>1, NodeFacts
    <3> QED BY <1>5, <3>4 DEF Label
  <2>4. <<>> \in DescentEnds(t, a)
    BY <1>1, <1>2, <2>2, <2>3
  <2>5. NodeOf(a) = <<>>
    BY <1>5 DEF NodeOf
  <2> QED BY <1>1, <2>1, <2>4, <2>5
<1>6. CASE a # <<>>
  <2>1. a \in Label /\ NodeOf(a) = <<a>> /\ <<a>> \in Node /\ Len(<<a>>) = 1 /\ <<a>>[1] = a /\ <<a>> # <<>>
    BY <1>1, <1>6, NodeFacts DEF Label, NodeOf
  <2>2. Flat(<<a>>) = a /\ IsPrefix(a, a)
    BY <1>1, <2>1, FlatFacts, PrefixOrder
  <2>3. CASE <<a>> \in DOMAIN t
    <3>1. <<a>> \in Children(t, <<>>)
      <4> DEFINE m == <<a>>
                 e == <<>>
      <4>1. m \in DOMAIN t /\ m \in Node /\ Len(m) = 1 /\ e \in Node /\ Len(e) = 0
        BY <2>1, <2>3, NodeFacts
      <4> HIDE DEF m
      <4>2. IsPrefix(e, m)
        BY <4>1, PrefixOrder DEF Node
      <4> HIDE DEF e
      <4>3. m \in Children(t, e)
        BY <4>1, <4>2 DEF Children
      <4> QED BY <4>3 DEF m, e
    <3>2. <<>> \notin DescentEnds(t, a)
      BY <1>2, <2>2, <3>1
    <3>3. ASSUME NEW c \in Children(t, <<a>>), IsPrefix(Flat(c), a) PROVE FALSE
      <4>1. c = <<>> \/ c = <<a>>
        BY <1>4, <2>3, <3>3, DescentWay
      <4>2. c \in Node /\ Len(c) = 2
        <5>1. Len(c) = Len(<<a>>) + 1 /\ c \in Node
          BY <1>4, <2>3, <3>3
        <5> QED BY <2>1, <5>1
      <4>3. c # <<>>
        BY <4>2, NodeFacts
      <4>4. c # <<a>>
        BY <2>1, <4>2
      <4> QED BY <4>1, <4>3, <4>4
    <3>4. <<a>> \in DescentEnds(t, a)
      BY <1>2, <2>2, <2>3, <3>3
    <3> QED BY <1>3, <2>1, <2>3, <3>2, <3>4
  <2>4. CASE <<a>> \notin DOMAIN t
    <3>1. ASSUME NEW c \in Children(t, <<>>), IsPrefix(Flat(c), a) PROVE FALSE
      <4>1. c \in DOMAIN t /\ (c = <<>> \/ c = <<a>>)
        BY <1>1, <1>4, <3>1, DescentWay
      <4>2. c \in Node /\ Len(c) = Len(<<>>) + 1
        BY <1>1, <1>4
      <4>3. c # <<>>
        BY <4>2, NodeFacts
      <4> QED BY <2>4, <4>1, <4>3
    <3>2. IsPrefix(Flat(<<>>), a)
      <4>1. Flat(<<>>) = <<>>
        BY FlatFacts, NodeFacts
      <4> QED BY <1>1, <4>1, PrefixOrder
    <3>3. <<>> \in DescentEnds(t, a)
      BY <1>1, <1>2, <3>1, <3>2
    <3>4. \A n \in DescentEnds(t, a) : n = <<>>
      BY <1>2, <1>3, <2>4
    <3> QED BY <2>1, <2>4, <3>3, <3>4
  <2> QED BY <2>3, <2>4
<1> QED BY <1>5, <1>6

LEMMA NodeOfFacts ==
    ASSUME NEW a \in Seq(Part)
    PROVE  NodeOf(a) \in Node /\ Flat(NodeOf(a)) = a
<1>1. CASE a = <<>>
  BY <1>1, NodeFacts, FlatFacts DEF NodeOf
<1>2. CASE a # <<>>
  <2>1. a \in Label
    BY <1>2 DEF Label
  <2> QED BY <1>2, <2>1, NodeFacts, FlatFacts DEF NodeOf
<1> QED BY <1>1, <1>2

LEMMA FindKept ==
    ASSUME NEW T, NEW W, Logged(T, W), NEW t, Kept(t, T, W), NEW a \in T, Clear(T, a)
    PROVE  Find(t, a) = {ValueAt(W, a)}
<1>1. a \in Seq(Part) /\ <<>> \in DOMAIN t /\ Flat(<<>>) = <<>>
  BY TreeFacts, FlatFacts, NodeFacts DEF Logged, Kept
<1>2. ValueAt(t, NodeOf(a)) = ValueAt(W, a) /\ ValueAt(W, a) # NilNode
  BY LoggedFacts DEF Kept
<1>3. CASE NodeOf(a) \in DOMAIN t
  <2>1. DescentEnds(t, a) = {NodeOf(a)}
    BY <1>3, ClearDescent
  <2>2. t[NodeOf(a)] = ValueAt(W, a) /\ Flat(NodeOf(a)) = a
    BY <1>1, <1>2, <1>3, NodeOfFacts DEF ValueAt
  <2> QED BY <1>2, <2>1, <2>2 DEF Find
<1>4. CASE NodeOf(a) \notin DOMAIN t
  <2>1. DescentEnds(t, a) = {<<>>}
    BY <1>4, ClearDescent
  <2>2. a # <<>> /\ ValueAt(W, a) = Nothing /\ t[<<>>] # NilNode
    BY <1>1, <1>2, <1>4 DEF ValueAt, NodeOf, Kept
  <2> QED BY <1>1, <2>1, <2>2 DEF Find
<1> QED BY <1>3, <1>4

(* So does a deletion.                                                     *)
LEMMA DeleteKeeps ==
    ASSUME NEW T, NEW W, Logged(T, W), NEW t, Kept(t, T, W), NEW a \in T, NEW out \in Delete(t, a)
    PROVE  /\ Outcome(out)
           /\ out.ok => Kept(out.tree, T, [b \in DOMAIN W \ {a} |-> W[b]])
           /\ ~out.ok => \E b \in T : ~Clear(T, b)
<1> DEFINE X == [b \in DOMAIN W \ {a} |-> W[b]]
<1>1. ValueAt(X, a) = Nothing /\ \A b : b # a => ValueAt(X, b) = ValueAt(W, b)
  BY DEF ValueAt
<1> HIDE DEF X
<1>2. PICK n \in DescentEnds(t, a) :
         out = IF t[n] = NilNode THEN Panics(t)
               ELSE IF Flat(n) # a THEN Ok(t)
               ELSE IF n # <<>> /\ Children(t, n) = {} THEN Ok([m \in DOMAIN t \ {n} |-> t[m]])
               ELSE Ok(SetValue(t, n, Nothing))
  BY DEF Delete
<1>3. n \in DOMAIN t /\ t \in Trees /\ t[<<>>] # NilNode /\ <<>> \in DOMAIN t
  BY TreeFacts DEF DescentEnds, Kept
<1>4. \A b \in T : b \in Seq(Part)
  BY DEF Logged
<1>5. ASSUME NEW u \in Trees, u[<<>>] # NilNode, DOMAIN u \subseteq DOMAIN t,
             \A m \in DOMAIN u : u[m] = t[m] \/ u[m] = Nothing,
             \A b \in T : Clear(T, b) /\ b # a => ValueAt(u, NodeOf(b)) = ValueAt(t, NodeOf(b)),
             Clear(T, a) => ValueAt(u, NodeOf(a)) = Nothing
      PROVE  Kept(u, T, X)
  <2>1. \A m \in DOMAIN u : m # <<>> => m[1] \in T
    BY <1>5 DEF Kept
  <2>2. \A b \in T : Clear(T, b) => ValueAt(u, NodeOf(b)) = ValueAt(X, b)
    BY <1>1, <1>5 DEF Kept
  <2>3. (\A b \in T : Clear(T, b)) => \A m \in DOMAIN u : Len(m) <= 1 /\ u[m] # NilNode
    BY <1>5, ContentFacts DEF Kept
  <2> QED BY <1>5, <2>1, <2>2, <2>3 DEF Kept
<1>6. ASSUME NEW u, \A m : m # n => SameAt(t, u, m), Flat(n) = a
      PROVE  \A b \in T : Clear(T, b) /\ b # a => ValueAt(u, NodeOf(b)) = ValueAt(t, NodeOf(b))
  BY <1>4, <1>6, NodeOfFacts, SameValue
<1>7. ASSUME Clear(T, a) PROVE IF NodeOf(a) \in DOMAIN t THEN n = NodeOf(a) ELSE n = <<>>
  BY <1>2, <1>7, ClearDescent
<1>8. CASE t[n] = NilNode
  <2>1. Outcome(out) /\ ~out.ok
    BY <1>2, <1>8, OutcomeMade
  <2> QED BY <1>3, <1>8, <2>1 DEF Kept
<1>9. CASE t[n] # NilNode /\ Flat(n) # a
  <2>1. Outcome(out) /\ out.ok /\ out.tree = t
    BY <1>2, <1>9, OutcomeMade
  <2>2. ASSUME Clear(T, a) PROVE ValueAt(t, NodeOf(a)) = Nothing
    <3>1. Flat(NodeOf(a)) = a
      BY <1>4, NodeOfFacts
    <3>2. NodeOf(a) \notin DOMAIN t
      BY <1>7, <1>9, <2>2, <3>1
    <3> QED BY <3>2 DEF ValueAt
  <2>3. Kept(t, T, X)
    BY <1>3, <1>5, <2>2
  <2> QED BY <2>1, <2>3 DEF X
<1>10. CASE t[n] # NilNode /\ Flat(n) = a
  <2>1. ASSUME Clear(T, a) PROVE n = NodeOf(a)
    <3>1. CASE NodeOf(a) \notin DOMAIN t
      <4>1. n = <<>> /\ Flat(<<>>) = <<>>
        BY <1>7, <2>1, <3>1, FlatFacts, NodeFacts
      <4> QED BY <1>10, <4>1 DEF NodeOf
    <3> QED BY <1>7, <2>1, <3>1
  <2>2. CASE n # <<>> /\ Children(t, n) = {}
    <3> DEFINE u == [m \in DOMAIN t \ {n} |-> t[m]]
    <3>1. Outcome(out) /\ out.ok /\ out.tree = u
      BY <1>2, <1>10, <2>2, OutcomeMade
    <3>2. DOMAIN u = DOMAIN t \ {n} /\ u = [m \in DOMAIN t \ {n} |-> u[m]] /\ \A m \in DOMAIN u : u[m] = t[m]
      OBVIOUS
    <3> HIDE DEF u
    <3>3. \A m : m # n => SameAt(t, u, m)
      BY <3>2 DEF SameAt
    <3>4. u \in Trees
      <4> DEFINE D == DOMAIN t \ {n}
      <4>1. D \subseteq Node /\ <<>> \in D /\ u = [m \in D |-> u[m]] /\ \A m \in D : u[m] \in Content
        BY <1>3, <2>2, <3>2, TreeFacts
      <4> HIDE DEF D
      <4> QED BY <4>1, TreeMade
    <3>5. Clear(T, a) => ValueAt(u, NodeOf(a)) = Nothing
      BY <2>1, <3>2 DEF ValueAt
    <3>6. u[<<>>] # NilNode
      BY <1>3, <2>2, <3>2
    <3>7. Kept(u, T, X)
      BY <1>5, <1>6, <1>10, <3>2, <3>3, <3>4, <3>5, <3>6
    <3> QED BY <3>1, <3>7 DEF X
  <2>3. CASE ~(n # <<>> /\ Children(t, n) = {})
    <3> DEFINE u == SetValue(t, n, Nothing)
    <3>1. Outcome(out) /\ out.ok /\ out.tree = u
      BY <1>2, <1>10, <2>3, OutcomeMade
    <3>2. u \in Trees /\ DOMAIN u = DOMAIN t /\ u[n] = Nothing /\ \A m : m # n => SameAt(t, u, m)
      BY <1>3, SetFacts, ContentFacts
    <3> HIDE DEF u
    <3>3. \A m \in DOMAIN u : u[m] = t[m] \/ u[m] = Nothing
      BY <3>2 DEF SameAt
    <3>4. u[<<>>] # NilNode
      BY <1>3, <3>2, <3>3, ContentFacts
    <3>5. Clear(T, a) => ValueAt(u, NodeOf(a)) = Nothing
      BY <1>3, <2>1, <3>2 DEF ValueAt
    <3>6. Kept(u, T, X)
      BY <1>5, <1>6, <1>10, <3>2, <3>3, <3>4, <3>5
    <3> QED BY <3>1, <3>6 DEF X
  <2> QED BY <2>2, <2>3
<1> QED BY <1>8, <1>9, <1>10

(* The headers are written one after the other, each to every outcome of   *)
(* the writes before it.                                                   *)
AfterNext(outs, h) == UNION {IF out.ok THEN Insert(out.tree, h, "header") ELSE {out} : out \in outs}

LEMMA AllBySteps ==
    ASSUME NEW start, NEW order, Len(order) \in Nat
    PROVE  \E f : /\ \A i \in 0 .. Len(order) : f[i] = IF i = 0 THEN {Ok(start)} ELSE AfterNext(f[i - 1], order[i])
                  /\ InsertAll(start, order) = f[Len(order)]
<1> DEFINE Upto(m, f) == f = [i \in 0 .. m |-> IF i = 0 THEN {Ok(start)} ELSE AfterNext(f[i - 1], order[i])]
           P == {m \in Nat : \E f : Upto(m, f)}
           all == CHOOSE f : Upto(Len(order), f)
<1>1. 0 \in P
  <2> DEFINE f == [i \in 0 .. 0 |-> {Ok(start)}]
  <2>1. Upto(0, f)
    OBVIOUS
  <2> QED BY <2>1
<1>2. ASSUME NEW m \in Nat, m \in P PROVE m + 1 \in P
  <2>1. PICK f : Upto(m, f)
    BY <1>2
  <2> DEFINE g == [i \in 0 .. (m + 1) |-> IF i = m + 1 THEN AfterNext(f[m], order[m + 1]) ELSE f[i]]
  <2>2. ASSUME NEW i \in 0 .. (m + 1)
        PROVE  g[i] = IF i = 0 THEN {Ok(start)} ELSE AfterNext(g[i - 1], order[i])
    <3>1. CASE i = 0
      BY <2>1, <3>1
    <3>2. CASE i # 0
      <4>1. i - 1 \in 0 .. m /\ g[i - 1] = f[i - 1]
        BY <3>2
      <4>2. CASE i = m + 1
        BY <3>2, <4>1, <4>2
      <4>3. CASE i # m + 1
        <5>1. i \in 0 .. m /\ g[i] = f[i]
          BY <4>3
        <5> QED BY <2>1, <3>2, <4>1, <5>1
      <4> QED BY <4>2, <4>3
    <3> QED BY <3>1, <3>2
  <2>3. Upto(m + 1, g)
    <3>1. g = [i \in 0 .. (m + 1) |-> g[i]]
      OBVIOUS
    <3> HIDE DEF g
    <3> QED BY <2>2, <3>1
  <2> HIDE DEF Upto
  <2> QED BY <2>3
<1>3. Len(order) \in P
  <2>1. Nat \subseteq P
    <3> HIDE DEF P
    <3> QED BY <1>1, <1>2, SetInduction
  <2> QED BY <2>1
<1>4. Upto(Len(order), all)
  <2> HIDE DEF Upto
  <2> QED BY <1>3
<1>5. InsertAll(start, order) = all[Len(order)]
  BY DEF InsertAll, AfterNext
<1> HIDE DEF all
<1>6. \A i \in 0 .. Len(order) : all[i] = IF i = 0 THEN {Ok(start)} ELSE AfterNext(all[i - 1], order[i])
  BY <1>4
<1> QED BY <1>5, <1>6

LEMMA KeptSame ==
    ASSUME NEW T, NEW W, NEW X, NEW t, Kept(t, T, W), \A a : ValueAt(X, a) = ValueAt(W, a)
    PROVE  Kept(t, T, X)
  BY DEF Kept

LEMMA InsertAllKeeps ==
    ASSUME NEW T, NEW W, Logged(T, W), NEW t, Kept(t, T, W),
           NEW order \in Orders(Headers), NEW out \in InsertAll(t, order)
    PROVE  LET S == T \cup Headers
               X == Overwritten(W, Headers, "header") IN
           /\ Outcome(out) /\ Logged(S, X)
           /\ out.ok => Kept(out.tree, S, X)
           /\ ~out.ok => \E a \in S : ~Clear(S, a)
<1> DEFINE n == Cardinality(Headers)
           H(i) == {order[j] : j \in 1 .. i}
           S(i) == T \cup H(i)
           X(i) == Overwritten(W, H(i), "header")
           Good(i, o) == /\ Outcome(o) /\ (o.ok => Kept(o.tree, S(i), X(i)))
                         /\ ~o.ok => \E a \in S(i) : ~Clear(S(i), a)
<1>1. n \in Nat
  BY AddressesAssumption, FS_CardinalityType
<1>2. order \in [1 .. n -> Headers] /\ \A h \in Headers : \E i \in 1 .. n : order[i] = h
  BY DEF Orders
<1> HIDE DEF n
<1>3. Len(order) = n /\ Len(order) \in Nat
  BY <1>1, <1>2
<1>4. PICK f : /\ \A i \in 0 .. Len(order) : f[i] = IF i = 0 THEN {Ok(t)} ELSE AfterNext(f[i - 1], order[i])
               /\ InsertAll(t, order) = f[Len(order)]
  BY <1>3, AllBySteps
<1> DEFINE P == {m \in Nat : m <= n => Logged(S(m), X(m)) /\ \A o \in f[m] : Good(m, o)}
<1>5. 0 \in P
  <2>1. H(0) = {}
    OBVIOUS
  <2>2. S(0) = T
    BY <2>1
  <2>3. DOMAIN X(0) = DOMAIN W /\ \A a \in DOMAIN W : X(0)[a] = W[a]
    BY <2>1 DEF Overwritten
  <2>4. \A a : ValueAt(X(0), a) = ValueAt(W, a)
    BY <2>3 DEF ValueAt
  <2>5. f[0] = {Ok(t)}
    BY <1>3, <1>4
  <2> HIDE DEF X, S
  <2>6. Logged(S(0), X(0))
    BY <2>2, <2>3 DEF Logged
  <2>7. Kept(t, S(0), X(0))
    BY <2>2, <2>4, KeptSame
  <2>8. Good(0, Ok(t))
    BY <2>7, OutcomeMade
  <2> QED BY <2>5, <2>6, <2>8
<1>6. ASSUME NEW m \in Nat, m \in P PROVE m + 1 \in P
  <2> HIDE DEF S, X, H, Good
  <2> SUFFICES ASSUME m + 1 <= n PROVE Logged(S(m + 1), X(m + 1)) /\ \A o \in f[m + 1] : Good(m + 1, o)
    OBVIOUS
  <2> USE DEF S, X, H, Good
  <2> DEFINE h == order[m + 1]
  <2>1. m + 1 \in 0 .. Len(order) /\ m + 1 # 0 /\ (m + 1) - 1 = m /\ m + 1 \in 1 .. n /\ m <= n
    BY <1>1, <1>3
  <2>2. f[m + 1] = AfterNext(f[m], h) /\ h \in Headers /\ h \in Seq(Part)
    BY <1>2, <1>4, <2>1, AddressParts
  <2>3. Logged(S(m), X(m)) /\ \A o \in f[m] : Good(m, o)
    BY <1>6, <2>1
  <2>4. H(m + 1) = H(m) \cup {h}
    <3>1. \A j : j \in 1 .. (m + 1) <=> j \in 1 .. m \/ j = m + 1
      OBVIOUS
    <3> QED BY <3>1
  <2> HIDE DEF h, H
  <2>5. S(m + 1) = S(m) \cup {h}
    BY <2>4
  <2>6. X(m + 1) = Overwritten(X(m), {h}, "header")
    <3> DEFINE A == Overwritten(X(m), {h}, "header")
    <3>1. DOMAIN X(m) = DOMAIN W \cup H(m)
      BY DEF Overwritten
    <3>2. DOMAIN A = DOMAIN W \cup H(m) \cup {h}
      BY <3>1 DEF Overwritten
    <3>3. \A x \in DOMAIN A : A[x] = IF x \in H(m) \cup {h} THEN "header" ELSE W[x]
      BY <3>1, <3>2 DEF Overwritten
    <3>4. A = [x \in DOMAIN A |-> A[x]]
      BY DEF Overwritten
    <3> HIDE DEF A
    <3>5. X(m + 1) = [x \in DOMAIN W \cup (H(m) \cup {h}) |-> IF x \in H(m) \cup {h} THEN "header" ELSE W[x]]
      BY <2>4 DEF Overwritten
    <3>6. DOMAIN A = DOMAIN W \cup (H(m) \cup {h})
      BY <3>2
    <3>7. X(m + 1) = A
      BY <3>3, <3>4, <3>5, <3>6
    <3> QED BY <3>7 DEF A
  <2>7. "header" \in Writable
    BY DEF Writable
  <2> HIDE DEF S, X
  <2>8. Logged(S(m + 1), X(m + 1))
    BY <2>2, <2>3, <2>5, <2>6, <2>7, LoggedGrows
  <2>9. ASSUME NEW o \in f[m + 1] PROVE Good(m + 1, o)
    <3>1. PICK q \in f[m] : o \in IF q.ok THEN Insert(q.tree, h, "header") ELSE {q}
      BY <2>2 DEF AfterNext
    <3>2. Good(m, q)
      BY <2>3
    <3>3. CASE q.ok
      <4>1. o \in Insert(q.tree, h, "header") /\ Kept(q.tree, S(m), X(m))
        BY <3>1, <3>2, <3>3
      <4>2. /\ Outcome(o)
            /\ o.ok => Kept(o.tree, S(m) \cup {h}, Overwritten(X(m), {h}, "header"))
            /\ ~o.ok => ~Clear(S(m) \cup {h}, h)
        BY <2>2, <2>3, <2>7, <4>1, InsertKeeps
      <4> QED BY <2>5, <2>6, <4>2
    <3>4. CASE ~q.ok
      <4>1. o = q
        BY <3>1, <3>4
      <4>2. \A a : ~Clear(S(m), a) => ~Clear(S(m) \cup {h}, a)
        BY DEF Clear
      <4> QED BY <2>5, <3>2, <3>4, <4>1, <4>2
    <3> QED BY <3>3, <3>4
  <2> QED BY <2>8, <2>9
<1>7. n \in P
  <2>1. Nat \subseteq P
    <3> HIDE DEF P
    <3> QED BY <1>5, <1>6, SetInduction
  <2> QED BY <1>1, <2>1
<1>8. H(n) = Headers
  BY <1>2
<1>9. Logged(S(n), X(n)) /\ Good(n, out)
  <2> HIDE DEF S, X, H, Good
  <2>1. Logged(S(n), X(n)) /\ \A o \in f[n] : Good(n, o)
    BY <1>1, <1>7
  <2> QED BY <1>3, <1>4, <2>1
<1> HIDE DEF H
<1> QED BY <1>8, <1>9

(* The body is read back from a flat tree.                                 *)
BodyWrites(W) == {b \in DOMAIN W : b = BodyPrefix \/ IsPrefix(BodyPrefix \o Dot, b)}

LEMMA HeldWrites ==
    ASSUME NEW T, NEW W, Logged(T, W), NEW t, Kept(t, T, W), \A a \in T : Clear(T, a)
    PROVE  /\ \A n \in Held(t, BodyPrefix) : \E a \in BodyWrites(W) : n = <<a>>
           /\ \A a \in BodyWrites(W) : <<a>> \in Held(t, BodyPrefix) /\ FlatKey(<<a>>) = a /\ t[<<a>>] = W[a]
<1>1. t \in Trees /\ \A n \in DOMAIN t : n \in Node /\ Len(n) <= 1 /\ (n # <<>> => n[1] \in T)
  BY TreeFacts DEF Kept
<1>2. <<>> # BodyPrefix /\ ~IsPrefix(BodyPrefix \o Dot, <<>>)
  BY DEF BodyPrefix, Dot, IsPrefix
<1>3. Dot \in Seq(Token)
  BY DEF Dot, Token
<1>4. \A n \in Node : (n = <<>> => FlatKey(n) = <<>>) /\ (Len(n) = 1 => FlatKey(n) = n[1])
  BY <1>3, JoinedFacts DEF FlatKey
<1>5. ASSUME NEW a \in T, a # <<>>
      PROVE  /\ a \in Label /\ <<a>> \in Node /\ FlatKey(<<a>>) = a
             /\ ValueAt(t, <<a>>) = ValueAt(W, a)
  <2>1. a \in Label
    BY <1>5 DEF Logged, Label
  <2>2. <<a>> \in Node /\ FlatKey(<<a>>) = a
    BY <1>4, <2>1, NodeFacts
  <2>3. ValueAt(t, <<a>>) = ValueAt(W, a)
    BY <1>5 DEF Kept, NodeOf
  <2> QED BY <2>1, <2>2, <2>3
<1>6. ASSUME NEW n \in Held(t, BodyPrefix) PROVE \E a \in BodyWrites(W) : n = <<a>>
  <2>1. /\ n \in DOMAIN t /\ t[n] # Nothing /\ n \in Node /\ Len(n) <= 1
        /\ FlatKey(n) = BodyPrefix \/ IsPrefix(BodyPrefix \o Dot, FlatKey(n))
    BY <1>1, <1>6 DEF Held
  <2>2. n # <<>>
    BY <1>2, <1>4, <2>1
  <2>3. n[1] \in T /\ n = <<n[1]>> /\ FlatKey(n) = n[1] /\ n[1] # <<>>
    <3>1. Len(n) \in Nat /\ Len(n) # 0
      BY <2>1, <2>2, NodeFacts
    <3>2. \A x \in Nat : x # 0 /\ x <= 1 => x = 1
      OBVIOUS
    <3>3. Len(n) = 1
      BY <2>1, <3>1, <3>2, Zenon
    <3> QED BY <1>1, <1>4, <2>1, <2>2, <3>3, NodeFacts
  <2>4. ValueAt(t, n) = ValueAt(W, n[1])
    BY <1>5, <2>3
  <2>5. n[1] \in DOMAIN W
    BY <2>1, <2>4 DEF ValueAt
  <2> QED BY <2>1, <2>3, <2>5 DEF BodyWrites
<1>7. ASSUME NEW a \in BodyWrites(W)
      PROVE  <<a>> \in Held(t, BodyPrefix) /\ FlatKey(<<a>>) = a /\ t[<<a>>] = W[a]
  <2>1. a \in DOMAIN W /\ a \in T /\ (a = BodyPrefix \/ IsPrefix(BodyPrefix \o Dot, a))
    BY DEF BodyWrites, Logged
  <2>2. a # <<>>
    BY <1>2, <2>1
  <2>3. FlatKey(<<a>>) = a /\ ValueAt(t, <<a>>) = W[a]
    BY <1>5, <2>1, <2>2 DEF ValueAt
  <2>4. W[a] # Nothing
    BY <2>1, ContentFacts DEF Logged
  <2>5. <<a>> \in DOMAIN t /\ t[<<a>>] = W[a]
    BY <2>3, <2>4 DEF ValueAt
  <2> QED BY <2>1, <2>3, <2>4, <2>5 DEF Held
<1> QED BY <1>6, <1>7

Reads(f, m, W) ==
    /\ DOMAIN f = {Trimmed(m, Rest(a, BodyPrefix \o Dot)) : a \in BodyWrites(W)}
    /\ \A k \in DOMAIN f : \E a \in BodyWrites(W) : Trimmed(m, Rest(a, BodyPrefix \o Dot)) = k /\ f[k] = W[a]

LEMMA BodyKept ==
    ASSUME NEW T, NEW W, Logged(T, W), NEW t, Kept(t, T, W), \A a \in T : Clear(T, a),
           NEW m, NEW f \in BodyMaps(m, ToFlatMap(t, BodyPrefix))
    PROVE  Reads(f, m, W)
<1> DEFINE pairs == ToFlatMap(t, BodyPrefix)
           Name(a) == Rest(a, BodyPrefix \o Dot)
<1>1. pairs = {<<Name(FlatKey(n)), t[n]>> : n \in Held(t, BodyPrefix)}
  BY DEF ToFlatMap
<1>2. \A p \in pairs : \E a \in BodyWrites(W) : p[1] = Name(a) /\ p[2] = W[a]
  <2> SUFFICES ASSUME NEW p \in pairs PROVE \E a \in BodyWrites(W) : p[1] = Name(a) /\ p[2] = W[a]
    OBVIOUS
  <2>1. PICK n \in Held(t, BodyPrefix) : p = <<Name(FlatKey(n)), t[n]>>
    BY <1>1
  <2>2. PICK a \in BodyWrites(W) : n = <<a>>
    BY HeldWrites
  <2>3. FlatKey(n) = a /\ t[n] = W[a]
    BY <2>2, HeldWrites
  <2> HIDE DEF Name
  <2> QED BY <2>1, <2>3
<1>3. \A a \in BodyWrites(W) : \E p \in pairs : p[1] = Name(a) /\ p[2] = W[a]
  <2> SUFFICES ASSUME NEW a \in BodyWrites(W) PROVE \E p \in pairs : p[1] = Name(a) /\ p[2] = W[a]
    OBVIOUS
  <2>1. <<a>> \in Held(t, BodyPrefix) /\ FlatKey(<<a>>) = a /\ t[<<a>>] = W[a]
    BY HeldWrites
  <2> HIDE DEF Name
  <2>2. <<Name(a), W[a]>> \in pairs
    BY <1>1, <2>1
  <2> QED BY <2>2
<1> HIDE DEF pairs, Name
<1>4. /\ DOMAIN f = {Trimmed(m, p[1]) : p \in pairs}
      /\ \A k \in DOMAIN f : \E p \in pairs : Trimmed(m, p[1]) = k /\ f[k] = p[2]
  BY DEF BodyMaps, pairs
<1>5. DOMAIN f = {Trimmed(m, Name(a)) : a \in BodyWrites(W)}
  BY <1>2, <1>3, <1>4
<1>6. \A k \in DOMAIN f : \E a \in BodyWrites(W) : Trimmed(m, Name(a)) = k /\ f[k] = W[a]
  BY <1>2, <1>4
<1> QED BY <1>5, <1>6 DEF Name, Reads

-----------------------------------------------------------------------------
(* The inductive invariant of the address space.                           *)
SpaceInv ==
    /\ Logged(touched, written)
    /\ panicked \in BOOLEAN
    /\ panicked => \E a \in touched : ~Clear(touched, a)
    /\ ~panicked => Kept(tree, touched, written)
    /\ ColumnsAgree

LEMMA ClearIsUnshadowed == \A a : Clear(touched, a) <=> ~Shadowed(a)
  BY DEF Clear, Shadowed

LEMMA ColumnsStay ==
    ASSUME ColumnsAgree, UNCHANGED <<method, setting, relation>> PROVE ColumnsAgree'
  BY DEF ColumnsAgree

LEMMA SpaceInit == Init => SpaceInv
<1> SUFFICES ASSUME Init PROVE SpaceInv
  OBVIOUS
<1> USE DEF Init
<1>1. Logged(touched, written)
  BY FS_EmptySet DEF Logged
<1>2. Kept(tree, touched, written)
  <2>1. DOMAIN EmptyTree = {<<>>} /\ EmptyTree[<<>>] = Nothing /\ EmptyTree = [n \in {<<>>} |-> EmptyTree[n]]
    BY DEF EmptyTree
  <2>2. EmptyTree \in Trees
    <3> DEFINE D == {<<>>}
    <3>1. D \subseteq Node /\ <<>> \in D /\ \A n \in D : EmptyTree[n] \in Content
      BY <2>1, NodeFacts, ContentFacts
    <3>2. EmptyTree = [n \in D |-> EmptyTree[n]]
      BY <2>1
    <3> HIDE DEF D
    <3> QED BY <3>1, <3>2, TreeMade
  <2>3. Len(<<>>) <= 1
    OBVIOUS
  <2> QED BY <2>1, <2>2, <2>3, ContentFacts DEF Kept
<1>3. ColumnsAgree
  BY DEF ColumnsAgree
<1> QED BY <1>1, <1>2, <1>3 DEF SpaceInv

LEMMA WriteKeeps ==
    ASSUME SpaceInv, NEW a \in Addresses, NEW v \in Values, WriteToAddress(a, v)
    PROVE  SpaceInv'
<1>1. PICK out \in Insert(tree, a, v) : tree' = out.tree /\ panicked' = ~out.ok
  BY DEF WriteToAddress
<1>2. /\ written' = Overwritten(written, {a}, v) /\ touched' = touched \cup {a}
      /\ ~panicked /\ method' = method /\ setting' = setting /\ relation' = relation
  BY DEF WriteToAddress, Usable, space, SpaceInv
<1>3. a \in Seq(Part) /\ v \in Writable
  BY AddressParts DEF Writable
<1>4. Logged(touched, written) /\ Kept(tree, touched, written)
  BY <1>2 DEF SpaceInv
<1>5. /\ Outcome(out) /\ (out.ok => Kept(out.tree, touched \cup {a}, Overwritten(written, {a}, v)))
      /\ ~out.ok => ~Clear(touched \cup {a}, a)
  BY <1>1, <1>3, <1>4, InsertKeeps
<1>6. Logged(touched', written')
  BY <1>2, <1>3, <1>4, LoggedGrows
<1>7. /\ panicked' \in BOOLEAN /\ (panicked' => \E b \in touched' : ~Clear(touched', b))
      /\ ~panicked' => Kept(tree', touched', written')
  BY <1>1, <1>2, <1>5 DEF Outcome
<1>8. ColumnsAgree'
  BY <1>2, ColumnsStay DEF SpaceInv
<1> QED BY <1>6, <1>7, <1>8 DEF SpaceInv

LEMMA DeletionKeeps ==
    ASSUME SpaceInv, NEW a \in Addresses, DeleteAddress(a)
    PROVE  SpaceInv'
<1>1. PICK out \in Delete(tree, a) : tree' = out.tree /\ panicked' = ~out.ok
  BY DEF DeleteAddress
<1>2. /\ a \in DOMAIN written /\ written' = [b \in DOMAIN written \ {a} |-> written[b]]
      /\ touched' = touched
      /\ ~panicked /\ method' = method /\ setting' = setting /\ relation' = relation
  BY DEF DeleteAddress, Usable, space, SpaceInv
<1>3. Logged(touched, written) /\ Kept(tree, touched, written) /\ a \in touched
  BY <1>2 DEF SpaceInv, Logged
<1>4. /\ Outcome(out) /\ (out.ok => Kept(out.tree, touched, [b \in DOMAIN written \ {a} |-> written[b]]))
      /\ ~out.ok => \E b \in touched : ~Clear(touched, b)
  BY <1>1, <1>3, DeleteKeeps
<1>5. Logged(touched', written')
  BY <1>2, <1>3 DEF Logged
<1>6. /\ panicked' \in BOOLEAN /\ (panicked' => \E b \in touched' : ~Clear(touched', b))
      /\ ~panicked' => Kept(tree', touched', written')
  BY <1>1, <1>2, <1>4 DEF Outcome
<1>7. ColumnsAgree'
  BY <1>2, ColumnsStay DEF SpaceInv
<1> QED BY <1>5, <1>6, <1>7 DEF SpaceInv

(* What a call leaves: the tree with the headers, and a body read from it. *)
LEMMA InvokeLeaves ==
    ASSUME SpaceInv, Invoke
    PROVE  /\ Logged(touched', written') /\ panicked' \in BOOLEAN
           /\ panicked' => \E a \in touched' : ~Clear(touched', a)
           /\ ~panicked' => Kept(tree', touched', written')
           /\ body' # <<>> => ~panicked' /\ body' \in BodyMaps(method, ToFlatMap(tree', BodyPrefix))
           /\ method' = method /\ setting' = setting /\ relation' = relation
<1>1. PICK order \in Orders(Headers) : \E out \in InsertAll(tree, order) :
         /\ tree' = out.tree
         /\ panicked' = (~out.ok \/ Untraversable(tree'))
         /\ body' # <<>> => ~panicked' /\ body' \in BodyMaps(method, ToFlatMap(tree', BodyPrefix))
  BY DEF Invoke
<1>2. PICK out \in InsertAll(tree, order) :
         /\ tree' = out.tree
         /\ panicked' = (~out.ok \/ Untraversable(tree'))
         /\ body' # <<>> => ~panicked' /\ body' \in BodyMaps(method, ToFlatMap(tree', BodyPrefix))
  BY <1>1
<1>3. /\ written' = Overwritten(written, Headers, "header") /\ touched' = touched \cup Headers
      /\ ~panicked /\ method' = method /\ setting' = setting /\ relation' = relation
  BY DEF Invoke, Usable, space, SpaceInv
<1>4. Logged(touched, written) /\ Kept(tree, touched, written)
  BY <1>3 DEF SpaceInv
<1>5. /\ Outcome(out) /\ Logged(touched', written') /\ (out.ok => Kept(tree', touched', written'))
      /\ ~out.ok => \E a \in touched' : ~Clear(touched', a)
  BY <1>2, <1>3, <1>4, InsertAllKeeps
<1>6. panicked' \in BOOLEAN
  BY <1>2 DEF Untraversable
<1>7. ASSUME panicked' PROVE \E a \in touched' : ~Clear(touched', a)
  <2>1. CASE ~out.ok
    BY <1>5, <2>1
  <2>2. CASE out.ok /\ Untraversable(tree')
    BY <1>5, <2>2 DEF Untraversable, Kept
  <2> QED BY <1>2, <1>7, <2>1, <2>2
<1>8. ~panicked' => Kept(tree', touched', written')
  BY <1>2, <1>5
<1> QED BY <1>2, <1>3, <1>5, <1>6, <1>7, <1>8

LEMMA InvokeKeeps == ASSUME SpaceInv, Invoke PROVE SpaceInv'
<1>1. ColumnsAgree'
  BY InvokeLeaves, ColumnsStay DEF SpaceInv
<1> QED BY <1>1, InvokeLeaves DEF SpaceInv

(* The body a call leaves in the caller's request.                         *)
LEMMA InvokeWrites ==
    ASSUME SpaceInv, Invoke, body' # <<>>, (\A a \in touched : ~Shadowed(a))'
    PROVE  MadeOfWritten(body)'
<1>1. \A a \in touched' : Clear(touched', a)
  BY DEF Shadowed, Clear
<1>2. body' \in BodyMaps(method, ToFlatMap(tree', BodyPrefix)) /\ method' = method
  BY InvokeLeaves
<1>3. Kept(tree', touched', written') /\ Logged(touched', written')
  BY InvokeLeaves
<1>4. /\ DOMAIN body' = {Trimmed(method, Rest(a, BodyPrefix \o Dot)) : a \in BodyWrites(written')}
      /\ \A k \in DOMAIN body' : \E a \in BodyWrites(written') :
            Trimmed(method, Rest(a, BodyPrefix \o Dot)) = k /\ body'[k] = written'[a]
  <2> DEFINE T == touched'
             W == written'
             t == tree'
             f == body'
             m == method
  <2>1. Logged(T, W) /\ Kept(t, T, W) /\ (\A a \in T : Clear(T, a)) /\ f \in BodyMaps(m, ToFlatMap(t, BodyPrefix))
    BY <1>1, <1>2, <1>3
  <2> HIDE DEF T, W, t, f, m
  <2>2. Reads(f, m, W)
    BY <2>1, BodyKept
  <2> QED BY <2>2 DEF W, f, m, Reads
<1> QED BY <1>2, <1>4 DEF MadeOfWritten, Attribute, BodyWrites

(* Columns and descriptors are collected from the same table, server       *)
(* variables and required parameters.                                      *)
LEMMA RelationKeeps ==
    ASSUME SpaceInv, NEW async \in BOOLEAN, NEW nilAllowed \in BOOLEAN, ToRelation(async, nilAllowed)
    PROVE  SpaceInv'
<1>1. /\ tree' = tree /\ panicked' = panicked /\ written' = written /\ touched' = touched
      /\ method' = method /\ setting' = setting
  BY DEF ToRelation, space
<1>2. /\ Logged(touched', written') /\ panicked' \in BOOLEAN
      /\ panicked' => \E a \in touched' : ~Clear(touched', a)
      /\ ~panicked' => Kept(tree', touched', written')
  BY <1>1 DEF SpaceInv
<1> DEFINE s == IF async THEN selected.final ELSE selected.now
           cols == GetColumns(method, s, nilAllowed)
           desc == GetColumnDescriptors(method, s)
           table == TableOf(s, DefaultColumn(method), setting)
           union == UnionRequired(method)
           named == {IF setting.snake THEN SnakeCase(n) ELSE n : n \in union}
<1>4. relation' = IF cols \in {Absent, Panic} THEN [columns |-> cols, descriptors |-> cols]
                  ELSE [columns |-> cols, descriptors |-> IF s = Absent THEN {} ELSE desc]
  BY DEF ToRelation
<1>5. cols = IF s = Absent THEN IF nilAllowed THEN {} ELSE Absent
             ELSE IF table = NoTable THEN Panic
             ELSE IF union = Absent /\ ~nilAllowed THEN Absent
             ELSE NamesOf(table) \cup ServerColumns(method)
                  \cup {IF setting.snake THEN SnakeCase(n) ELSE n : n \in IF union = Absent THEN {} ELSE union}
  BY DEF GetColumns
<1>6. desc = IF table = NoTable THEN Panic ELSE IF union = Absent THEN Absent
             ELSE NamesOf(table) \cup ServerColumns(method) \cup union
  BY DEF GetColumnDescriptors
<1> HIDE DEF s, cols, desc, table, union
<1>7. ASSUME relation'.columns \notin {Absent, Panic}, relation'.descriptors # Absent,
             setting.snake => \A n \in union : SnakeCase(n) = n
      PROVE  relation'.columns = relation'.descriptors
  <2>1. CASE cols \in {Absent, Panic}
    BY <1>4, <1>7, <2>1
  <2>2. CASE cols \notin {Absent, Panic}
    <3>1. relation'.columns = cols /\ relation'.descriptors = IF s = Absent THEN {} ELSE desc
      BY <1>4, <2>2
    <3>2. CASE s = Absent
      BY <1>5, <2>2, <3>1, <3>2
    <3>3. CASE s # Absent
      <4>1. table # NoTable /\ relation'.descriptors = desc
        BY <1>5, <2>2, <3>1, <3>3
      <4>2. union # Absent
        BY <1>6, <1>7, <4>1
      <4>3. cols = NamesOf(table) \cup ServerColumns(method) \cup named
        BY <1>5, <2>2, <3>3, <4>1, <4>2
      <4>4. named = union
        BY <1>7
      <4> QED BY <1>6, <3>1, <4>1, <4>2, <4>3, <4>4
    <3> QED BY <3>2, <3>3
  <2> QED BY <2>1, <2>2
<1>8. ColumnsAgree'
  BY <1>1, <1>7 DEF ColumnsAgree, union
<1> QED BY <1>2, <1>8 DEF SpaceInv

LEMMA QuietKeeps ==
    ASSUME SpaceInv, UNCHANGED <<method, setting, tree, panicked, written, touched, relation>>
    PROVE  SpaceInv'
<1>1. ColumnsAgree'
  BY ColumnsStay DEF SpaceInv
<1> QED BY <1>1 DEF SpaceInv

LEMMA SpaceInductive == SpaceInv /\ [Next]_vars => SpaceInv'
<1> SUFFICES ASSUME SpaceInv, [Next]_vars PROVE SpaceInv'
  OBVIOUS
<1>1. CASE Formulate
  BY <1>1, QuietKeeps DEF Formulate
<1>2. CASE \E a \in Addresses, v \in Values : WriteToAddress(a, v)
  BY <1>2, WriteKeeps
<1>3. CASE \E a \in Addresses : DeleteAddress(a)
  BY <1>3, DeletionKeeps
<1>4. CASE Invoke
  BY <1>4, InvokeKeeps
<1>5. CASE \E async, nilAllowed \in BOOLEAN : ToRelation(async, nilAllowed)
  BY <1>5, RelationKeeps
<1>6. CASE UNCHANGED vars
  BY <1>6, QuietKeeps DEF vars
<1> QED BY <1>1, <1>2, <1>3, <1>4, <1>5, <1>6 DEF Next

(* The address space keeps what was written, whatever the addresses, the   *)
(* order of the writes, deletions and calls and the orders in which the    *)
(* children of the tree and the headers are visited.                       *)
THEOREM SpaceInvariance == Spec => []SpaceInv
<1> QED BY SpaceInit, SpaceInductive, PTL DEF Spec

(* Reading gives the last value written to an address that no other        *)
(* written address is a prefix of, and nothing panics as long as all are   *)
(* like that (WriteToAddress, DereferenceAddress, DeleteAddress).          *)
THEOREM WrittenRead == Spec => []WrittenIsRead
<1>1. SpaceInv => WrittenIsRead
  <2> SUFFICES ASSUME SpaceInv PROVE WrittenIsRead
    OBVIOUS
  <2>1. panicked => \E a \in touched : Shadowed(a)
    BY ClearIsUnshadowed DEF SpaceInv
  <2>2. ASSUME ~panicked, NEW a \in touched, ~Shadowed(a)
        PROVE  Find(tree, a) = {IF a \in DOMAIN written THEN written[a] ELSE Nothing}
    <3>1. Logged(touched, written) /\ Kept(tree, touched, written) /\ Clear(touched, a)
      BY <2>2, ClearIsUnshadowed DEF SpaceInv
    <3>2. Find(tree, a) = {ValueAt(written, a)}
      BY <3>1, FindKept
    <3> QED BY <3>2 DEF ValueAt
  <2> QED BY <2>1, <2>2 DEF WrittenIsRead
<1> QED BY <1>1, SpaceInvariance, PTL

(* The body that Invoke puts into the caller's request has an attribute    *)
(* for every address written at and below request.body and no other, each  *)
(* with the value last written.                                            *)
THEOREM BodyWritten == Spec => BodyIsWhatWasWritten
<1> DEFINE Act == (body' # <<>> /\ (\A a \in touched : ~Shadowed(a))' /\ Invoke) => MadeOfWritten(body)'
<1>1. SpaceInv => Act
  BY InvokeWrites
<1>2. SpaceInv /\ [Next]_vars => [Act]_vars
  BY <1>1
<1> QED BY <1>2, SpaceInvariance, PTL DEF Spec, BodyIsWhatWasWritten

(* A relation's columns and its column descriptors have the same names     *)
(* (ToRelation), whatever the schemas make of their tables.                *)
THEOREM ColumnsSame == Spec => []ColumnsAgree
<1>1. SpaceInv => ColumnsAgree
  BY DEF SpaceInv
<1> QED BY <1>1, SpaceInvariance, PTL

=============================================================================
